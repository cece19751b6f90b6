--------------------------- MODULE JobRuntimeProofs ---------------------------
(***************************************************************************)
(* RowsAreSound for any jobs, keys, calls, attempts and any number of      *)
(* faults.  Each queue job and its executions determine what the row may   *)
(* say (JobSound), each call relies on what no step takes back (Advances), *)
(* and a step of one job leaves the others as they are (Untouched).        *)
(***************************************************************************)
EXTENDS JobRuntime, TLAPS

Closed == {"completed", "failed", "cancelled", "deleted"}
ClosingVerdicts == {"succeeded", "cancelled", "dead_lettered"}

\* The delivery that the queue job of j counts last.
Latest(j) == <<j, queue[j].attempt>>

\* The queue job of j is closed, or its delivery is about to return a verdict that
\* closes it.
Over(j, verdicts) ==
  \/ queue[j].state \in Closed
  \/ /\ queue[j].state = "active"
     /\ exec[Latest(j)].phase = "return" /\ exec[Latest(j)].verdict \in verdicts

\* The row, the queue job and the executions of j fit together; an execution in time
\* is the latest delivery.
Linked(j) ==
  /\ row[j].status = "absent" <=> queue[j].state = "absent"
  /\ queue[j].state = "active" =>
       /\ queue[j].attempt \in Attempts
       /\ exec[Latest(j)].phase \notin {"idle", "done"}
  /\ \A a \in Attempts :
       /\ exec[<<j, a>>].phase # "idle" => a <= queue[j].attempt /\ queue[j].state # "absent"
       /\ exec[<<j, a>>].phase = "idle" => ~exec[<<j, a>>].aborted
       /\ Running(<<j, a>>) /\ ~exec[<<j, a>>].aborted =>
            queue[j].attempt = a /\ (queue[j].state = "active" \/ TakenAway(j))

\* What an open row waits for: an execution that will write, a first delivery, or a
\* retry that pg-boss has, or will have once it hears of this delivery.
Awaited(j) ==
  \/ TakenAway(j) \/ SomeLost(j)
  \/ \E a \in Attempts : exec[<<j, a>>].phase \in {"claim", "run"}
  \/ row[j].status = "queued" /\ queue[j].state = "created"
  \/ /\ row[j].status = "retrying" /\ queue[j].attempt < MaxAttempts
     /\ \/ queue[j].state = "retry"
        \/ /\ queue[j].state = "active"
           /\ exec[Latest(j)].phase \in {"return", "unheard"}
           /\ exec[Latest(j)].phase = "return" => exec[Latest(j)].verdict = "retrying"

\* A running row has an execution that runs its handler, or was lost.
Claimed(j) ==
  row[j].status = "running" => SomeLost(j) \/ \E a \in Attempts : exec[<<j, a>>].phase = "run"

\* A settled row has no delivery to come.
Settled(j) ==
  /\ row[j].status # "absent" /\ ~Open(j) => Disturbed(j) \/ Over(j, ClosingVerdicts)
  /\ row[j].status = "dead_lettered" => Disturbed(j) \/ Over(j, {"dead_lettered"})

JobSound(j) == Linked(j) /\ (Open(j) => Awaited(j)) /\ Claimed(j) /\ Settled(j)

\* What a call relies on when it writes the row that it has read before.
CallSound(c) ==
  /\ call[c].op \in {"dequeue", "mark", "discard", "enqueue", "record"} => call[c].job \in Jobs
  /\ call[c].op = "dequeue" => queue[call[c].job].state # "absent"
  /\ call[c].op = "mark" => queue[call[c].job].state \in Closed
  /\ call[c].op = "discard" => Disturbed(call[c].job) \/ Over(call[c].job, {"dead_lettered"})
  /\ call[c].op = "remove" =>
       /\ call[c].todo \subseteq call[c].found
       /\ \A j \in call[c].found : queue[j].state # "absent"
       /\ \A j \in call[c].found \ call[c].todo : queue[j].state = "deleted"

\* A worker process that has ended runs nothing.
Stopped == worker = "down" => \A e \in Execs : ~Running(e)

\* The inductive invariant.
IInv ==
  /\ TypeOK
  /\ \A j \in Jobs : JobSound(j)
  /\ \A c \in Calls : CallSound(c)
  /\ Stopped
  /\ OneJobPerKey
  /\ RedrivesAreRecorded

\* What no step takes back, and a call under way relies on.
Advances(j) ==
  /\ queue[j].state # "absent" => queue'[j].state # "absent"
  /\ queue[j].state \in Closed => queue'[j].state \in Closed
  /\ queue[j].state = "deleted" => queue'[j].state = "deleted"
  /\ Disturbed(j) \/ Over(j, {"dead_lettered"}) =>
       Disturbed(j)' \/ Over(j, {"dead_lettered"})'

\* No row takes another key or becomes a replacement.
RowsKeep ==
  \A j \in Jobs :
    /\ row'[j].key \in {row[j].key, Unique}
    /\ row'[j].requester = "operator" => row[j].requester = "operator"

\* What a step of job x leaves as it is.
Others(x) ==
  \A j \in Jobs \ {x} :
    /\ row'[j] = row[j] /\ queue'[j] = queue[j]
    /\ \A b \in Attempts : exec'[<<j, b>>] = exec[<<j, b>>]

ExecutionBecomes(x, a, y) == exec' = [exec EXCEPT ![<<x, a>>] = y]
CallBecomes(c, k) == call' = [call EXCEPT ![c] = k]

-----------------------------------------------------------------------------
(* What the steps have in common.                                          *)

\* A job of which nothing but the text of its row changes stays sound.
LEMMA Untouched ==
  ASSUME NEW j \in Jobs, JobSound(j), row'[j].status = row[j].status, queue'[j] = queue[j],
         \A a \in Attempts : exec'[<<j, a>>] = exec[<<j, a>>]
  PROVE  JobSound(j)' /\ Advances(j)
<1>1. queue[j].state = "active" => exec'[Latest(j)] = exec[Latest(j)]
  BY DEF JobSound, Linked, Latest
<1>2. Linked(j)'
  BY <1>1 DEF JobSound, Linked, Latest, Running, TakenAway
<1>3. Open(j)' => Awaited(j)'
  BY <1>1 DEF JobSound, Awaited, Open, Latest, TakenAway, SomeLost
<1>4. Claimed(j)' /\ Settled(j)'
  BY <1>1 DEF JobSound, Claimed, Settled, Over, Disturbed, SomeLost, Latest, Open
<1>5. Advances(j)
  BY <1>1 DEF Advances, Over, Disturbed, Latest
<1> QED BY <1>2, <1>3, <1>4, <1>5 DEF JobSound

\* A call that does not move keeps what it relies on.
LEMMA CallsRest ==
  ASSUME NEW c \in Calls, CallSound(c), call \in [Calls -> Call], call'[c] = call[c],
         \A j \in Jobs : Advances(j)
  PROVE  CallSound(c)'
<1>1. call[c].found \subseteq Jobs /\ call[c].todo \subseteq Jobs
  BY DEF Call
<1> QED BY <1>1 DEF CallSound, Advances

\* Keys stay unique, and redrives on record, when no row is taken over.
LEMMA KeysStay ==
  ASSUME OneJobPerKey, RowsKeep
  PROVE  OneJobPerKey'
<1> SUFFICES ASSUME NEW i \in Jobs, NEW j \in Jobs, i # j, row'[i].key = row'[j].key,
                    row'[i].key # Unique
             PROVE  FALSE
  BY DEF OneJobPerKey
<1>1. row'[i].key = row[i].key /\ row'[j].key = row[j].key
  BY DEF RowsKeep
<1> QED BY <1>1 DEF OneJobPerKey

LEMMA RecordsStay ==
  ASSUME RedrivesAreRecorded, RowsKeep, audit \subseteq audit',
         faults' = 0 => /\ faults = 0
                        /\ \A c \in Calls : call[c].op = "record" => call'[c] = call[c]
  PROVE  RedrivesAreRecorded'
<1> SUFFICES ASSUME NEW j \in Jobs, faults' = 0, row'[j].requester = "operator"
             PROVE  \/ \E x \in audit' : x.action = "redrive" /\ x.replacement = j
                    \/ \E c \in Calls : call'[c].op = "record" /\ call'[c].found = {j}
  BY DEF RedrivesAreRecorded
<1>1. faults = 0 /\ row[j].requester = "operator"
  BY DEF RowsKeep
<1>2. CASE \E x \in audit : x.action = "redrive" /\ x.replacement = j
  BY <1>2
<1>3. CASE \E c \in Calls : call[c].op = "record" /\ call[c].found = {j}
  BY <1>3
<1> QED BY <1>1, <1>2, <1>3 DEF RedrivesAreRecorded

\* A change of one row, queue job, execution or call is a change of nothing else.
LEMMA OneRow ==
  ASSUME TypeOK, NEW x \in Jobs, NEW r \in Row, row' = [row EXCEPT ![x] = r]
  PROVE  /\ row' \in [Jobs -> Row]
         /\ row'[x] = r
         /\ \A j \in Jobs \ {x} : row'[j] = row[j]
  BY DEF TypeOK

LEMMA OneQueueJob ==
  ASSUME TypeOK, NEW x \in Jobs, NEW q \in QueueJob, queue' = [queue EXCEPT ![x] = q]
  PROVE  /\ queue' \in [Jobs -> QueueJob]
         /\ queue'[x] = q
         /\ \A j \in Jobs \ {x} : queue'[j] = queue[j]
  BY DEF TypeOK

LEMMA OneExecution ==
  ASSUME TypeOK, NEW x \in Jobs, NEW a \in Attempts, NEW y \in Execution,
         ExecutionBecomes(x, a, y)
  PROVE  /\ exec' \in [Execs -> Execution]
         /\ exec'[<<x, a>>] = y
         /\ \A j \in Jobs, b \in Attempts :
              j # x \/ b # a => exec'[<<j, b>>] = exec[<<j, b>>]
<1>1. <<x, a>> \in Execs /\ \A j \in Jobs, b \in Attempts : <<j, b>> \in Execs
  BY DEF Execs
<1> QED BY <1>1 DEF TypeOK, ExecutionBecomes

LEMMA OneCall ==
  ASSUME TypeOK, NEW c \in Calls, NEW k \in Call, CallBecomes(c, k)
  PROVE  /\ call' \in [Calls -> Call]
         /\ call'[c] = k
         /\ \A d \in Calls \ {c} : call'[d] = call[d]
  BY DEF TypeOK, CallBecomes

\* The writes of executeJob make rows.
LEMMA RowUpdate ==
  ASSUME NEW r \in Row, NEW s \in Statuses, NEW n \in Nat, NEW b \in BOOLEAN
  PROVE  /\ [r EXCEPT !.status = s] \in Row
         /\ [r EXCEPT !.status = s, !.attempt = n] \in Row
         /\ [r EXCEPT !.status = s, !.error = b] \in Row
<1>1. [r EXCEPT !.status = s] \in Row
  BY DEF Row
<1>2. [[r EXCEPT !.status = s] EXCEPT !.attempt = n] \in Row
  BY <1>1 DEF Row
<1>3. [[r EXCEPT !.status = s] EXCEPT !.error = b] \in Row
  BY <1>1 DEF Row
<1> QED BY <1>1, <1>2, <1>3

\* What pg-boss makes of a job it takes back, and of one it is answered.
LEMMA RequeuedJob ==
  ASSUME NEW q \in QueueJob
  PROVE  /\ Requeued(q) \in QueueJob
         /\ Requeued(q).attempt = q.attempt
         /\ Requeued(q).state \in {"retry", "failed"}
         /\ q.attempt < MaxAttempts => Requeued(q).state = "retry"
  BY DEF Requeued, QueueJob, QueueStates, OpenQueue

LEMMA AnsweredJob ==
  ASSUME NEW q \in QueueJob, NEW v \in Verdicts
  PROVE  /\ Answered(q, v) \in QueueJob
         /\ Answered(q, v).attempt = q.attempt
         /\ Answered(q, v).state \in {"retry", "failed", "completed"}
         /\ v = "retrying" /\ q.attempt < MaxAttempts => Answered(q, v).state = "retry"
         /\ v \in ClosingVerdicts => Answered(q, v).state \in Closed
<1>1. CASE v = "retrying"
  BY <1>1, RequeuedJob DEF Answered, ClosingVerdicts
<1>2. CASE v \in {"succeeded", "cancelled"}
  BY <1>2 DEF Answered, QueueJob, QueueStates, OpenQueue, Closed
<1>3. CASE v \in {"none", "dead_lettered"}
  BY <1>3 DEF Answered, QueueJob, QueueStates, OpenQueue, Closed
<1> QED BY <1>1, <1>2, <1>3 DEF Verdicts

\* Only the delivery that pg-boss waits for moves its queue job.
LEMMA TakenBack ==
  ASSUME TypeOK, NEW x \in Jobs, NEW a \in Attempts, NEW q \in QueueJob,
         queue' = IF Holds(<<x, a>>) THEN [queue EXCEPT ![x] = q] ELSE queue
  PROVE  /\ queue' \in [Jobs -> QueueJob]
         /\ Holds(<<x, a>>) => queue'[x] = q
         /\ ~Holds(<<x, a>>) => queue'[x] = queue[x]
         /\ \A j \in Jobs \ {x} : queue'[j] = queue[j]
<1>1. CASE Holds(<<x, a>>)
  BY <1>1 DEF TypeOK
<1>2. CASE ~Holds(<<x, a>>)
  BY <1>2 DEF TypeOK
<1> QED BY <1>1, <1>2

\* A step of one job, which no call takes part in.
LEMMA JobStep ==
  ASSUME IInv, TypeOK', NEW x \in Jobs, Others(x), JobSound(x)', Advances(x),
         row'[x].key = row[x].key, row'[x].requester = row[x].requester,
         call' = call, audit' = audit, faults' = 0 => faults = 0, Stopped'
  PROVE  IInv'
<1>1. \A i \in Jobs : JobSound(i)' /\ Advances(i)
  BY Untouched DEF IInv, Others
<1>2. \A c \in Calls : CallSound(c)'
  BY <1>1, CallsRest DEF IInv, TypeOK
<1>3. RowsKeep
  BY DEF RowsKeep, Others
<1>4. OneJobPerKey' /\ RedrivesAreRecorded'
  BY <1>3, KeysStay, RecordsStay DEF IInv
<1> QED BY <1>1, <1>2, <1>4 DEF IInv

-----------------------------------------------------------------------------
(* Executions and deliveries.                                              *)

\* The row that becomes running has its execution.
LEMMA ClaimPreserves ==
  ASSUME IInv, NEW x \in Jobs, NEW a \in Attempts, Claim(<<x, a>>)
  PROVE  IInv'
<1> DEFINE r == [row[x] EXCEPT !.status = "running", !.attempt = a]
           y == [exec[<<x, a>>] EXCEPT !.phase = "run"]
<1>1. TypeOK /\ row[x] \in Row /\ exec[<<x, a>>] \in Execution
  BY DEF IInv, TypeOK, Execs
<1>2. r \in Row /\ r.status = "running" /\ r.key = row[x].key /\ r.requester = row[x].requester
  <2>1. "running" \in Statuses /\ a \in Nat
    BY AttemptsAssumption DEF Statuses, OpenStatus, Attempts
  <2>2. r \in Row
    BY <1>1, <2>1, RowUpdate
  <2> QED BY <1>1, <2>2 DEF Row
<1>3. y \in Execution /\ y.phase = "run" /\ y.aborted = exec[<<x, a>>].aborted
  BY <1>1 DEF Execution, Phases
<1>4. /\ row' = [row EXCEPT ![x] = r] /\ ExecutionBecomes(x, a, y)
      /\ exec[<<x, a>>].phase = "claim"
      /\ UNCHANGED <<queue, call, audit, worker, faults>>
  BY DEF Claim, ExecutionBecomes
<1> HIDE DEF r, y
<1>5. row' \in [Jobs -> Row] /\ row'[x] = r /\ \A j \in Jobs \ {x} : row'[j] = row[j]
  BY <1>1, <1>2, <1>4, OneRow
<1>6. /\ exec' \in [Execs -> Execution] /\ exec'[<<x, a>>] = y
      /\ \A j \in Jobs, b \in Attempts : j # x \/ b # a => exec'[<<j, b>>] = exec[<<j, b>>]
  BY <1>1, <1>3, <1>4, OneExecution
<1>7. TypeOK' /\ Others(x)
  BY <1>1, <1>4, <1>5, <1>6 DEF TypeOK, Others
<1>8. JobSound(x)' /\ Advances(x)
  <2>1. Linked(x)'
    BY <1>2, <1>3, <1>4, <1>5, <1>6 DEF IInv, JobSound, Linked, Latest, Running, TakenAway
  <2>2. Awaited(x)' /\ Claimed(x)' /\ Settled(x)'
    BY <1>2, <1>3, <1>5, <1>6 DEF Awaited, Claimed, Settled, Open, OpenStatus
  <2>3. Advances(x)
    BY <1>3, <1>4, <1>6 DEF IInv, JobSound, Linked, Latest, Advances, Disturbed, Over
  <2> QED BY <2>1, <2>2, <2>3 DEF JobSound
<1>9. Stopped'
  BY <1>3, <1>4, <1>6 DEF IInv, Stopped, Running, Execs
<1> QED BY <1>2, <1>4, <1>5, <1>7, <1>8, <1>9, JobStep

\* An execution that was not timed out has its queue job, or lost it to a call; the
\* outcome it writes is the one that it will return.
LEMMA ConcludePreserves ==
  ASSUME IInv, NEW x \in Jobs, NEW a \in Attempts, Conclude(<<x, a>>)
  PROVE  IInv'
<1>1. TypeOK /\ row[x] \in Row /\ exec[<<x, a>>] \in Execution
  BY DEF IInv, TypeOK, Execs
<1>2. PICK ending \in {"succeeded", "transient", "permanent"} :
        /\ row' = [row EXCEPT ![x].status = Outcome(<<x, a>>, ending),
                              ![x].error = Outcome(<<x, a>>, ending) # "succeeded"]
        /\ exec' = [exec EXCEPT ![<<x, a>>].phase = "return",
                                ![<<x, a>>].verdict = Outcome(<<x, a>>, ending)]
  BY DEF Conclude
<1> DEFINE v == Outcome(<<x, a>>, ending)
           r == [row[x] EXCEPT !.status = v, !.error = v # "succeeded"]
           y == [exec[<<x, a>>] EXCEPT !.phase = "return", !.verdict = v]
<1>3. /\ v \in {"succeeded", "cancelled", "retrying", "dead_lettered"}
      /\ v = "retrying" => a < MaxAttempts
      /\ ~exec[<<x, a>>].aborted => v # "cancelled"
  BY DEF Outcome
<1>4. exec[<<x, a>>].phase = "run" /\ UNCHANGED <<queue, call, audit, worker, faults>>
  BY DEF Conclude
<1> HIDE DEF v
<1>a. row' = [row EXCEPT ![x] = r]
  BY <1>2 DEF v
<1>b. ExecutionBecomes(x, a, y)
  BY <1>2 DEF v, ExecutionBecomes
<1>5. r \in Row /\ r.status = v /\ r.key = row[x].key /\ r.requester = row[x].requester
  <2>1. v \in Statuses /\ (v # "succeeded") \in BOOLEAN
    BY <1>3 DEF Statuses, OpenStatus
  <2>2. r \in Row
    BY <1>1, <2>1, RowUpdate
  <2> QED BY <1>1, <2>2 DEF Row
<1>6. y \in Execution /\ y.phase = "return" /\ y.verdict = v /\ y.aborted = exec[<<x, a>>].aborted
  BY <1>1, <1>3 DEF Execution, Phases, Verdicts
<1> HIDE DEF r, y
<1>7. row' \in [Jobs -> Row] /\ row'[x] = r /\ \A j \in Jobs \ {x} : row'[j] = row[j]
  BY <1>1, <1>5, <1>a, OneRow
<1>8. /\ exec' \in [Execs -> Execution] /\ exec'[<<x, a>>] = y
      /\ \A j \in Jobs, b \in Attempts : j # x \/ b # a => exec'[<<j, b>>] = exec[<<j, b>>]
  BY <1>1, <1>6, <1>b, OneExecution
<1>9. TypeOK' /\ Others(x)
  BY <1>1, <1>4, <1>7, <1>8 DEF TypeOK, Others
<1>10. JobSound(x)' /\ Advances(x)
  <2>1. Linked(x)'
    BY <1>3, <1>4, <1>5, <1>6, <1>7, <1>8
    DEF IInv, JobSound, Linked, Latest, Running, TakenAway
  <2>2. Claimed(x)'
    BY <1>3, <1>5, <1>7 DEF Claimed
  <2>3. CASE exec[<<x, a>>].aborted
    <3>1. Disturbed(x)'
      BY <2>3, <1>6, <1>8 DEF Disturbed
    <3>2. v = "cancelled"
      BY <2>3 DEF v, Outcome
    <3>3. Advances(x)
      BY <1>4, <3>1 DEF Advances
    <3> QED BY <2>1, <2>2, <3>1, <3>2, <3>3, <1>5, <1>7 DEF JobSound, Settled, Open, OpenStatus
  <2>4. CASE ~exec[<<x, a>>].aborted
    <3>1. queue[x].attempt = a /\ (queue[x].state = "active" \/ TakenAway(x))
      BY <2>4, <1>4 DEF IInv, JobSound, Linked, Running
    <3>2. CASE TakenAway(x)
      BY <3>2, <2>1, <2>2, <1>4
      DEF JobSound, Settled, Awaited, TakenAway, Over, Closed, Advances
    <3>3. CASE queue[x].state = "active"
      <4>1. exec'[Latest(x)'] = y /\ queue'[x] = queue[x]
        BY <3>1, <1>4, <1>8 DEF Latest
      <4>2. Open(x)' => Awaited(x)'
        BY <4>1, <3>1, <3>3, <1>3, <1>5, <1>6, <1>7 DEF Open, OpenStatus, Awaited
      <4>3. Settled(x)'
        BY <4>1, <3>3, <1>3, <1>5, <1>6, <1>7 DEF Open, OpenStatus, Settled, Over, ClosingVerdicts
      <4>4. Advances(x)
        <5>1. ~Over(x, {"dead_lettered"})
          BY <3>1, <3>3, <1>4 DEF Over, Latest, Closed
        <5>2. Disturbed(x) => Disturbed(x)'
          BY <1>4, <1>6, <1>8 DEF Disturbed
        <5> QED BY <5>1, <5>2, <1>4 DEF Advances
      <4> QED BY <2>1, <2>2, <4>2, <4>3, <4>4 DEF JobSound
    <3> QED BY <3>1, <3>2, <3>3
  <2> QED BY <2>3, <2>4
<1>11. Stopped'
  BY <1>4, <1>6, <1>8 DEF IInv, Stopped, Running, Execs
<1> QED BY <1>4, <1>5, <1>7, <1>9, <1>10, <1>11, JobStep

\* What pg-boss is told closes the queue job of a settled row, and opens that of a
\* row that is retrying.
LEMMA ReturnPreserves ==
  ASSUME IInv, NEW x \in Jobs, NEW a \in Attempts, Return(<<x, a>>)
  PROVE  IInv'
<1> DEFINE v == exec[<<x, a>>].verdict
           q == Answered(queue[x], v)
           y == [exec[<<x, a>>] EXCEPT !.phase = "done", !.verdict = "none"]
<1>1. TypeOK /\ queue[x] \in QueueJob /\ exec[<<x, a>>] \in Execution /\ v \in Verdicts
  BY DEF IInv, TypeOK, Execs, Execution
<1>2. /\ q \in QueueJob /\ q.attempt = queue[x].attempt
      /\ q.state \in {"retry", "failed", "completed"}
      /\ v = "retrying" /\ q.attempt < MaxAttempts => q.state = "retry"
      /\ v \in ClosingVerdicts => q.state \in Closed
  BY <1>1, AnsweredJob
<1>3. y \in Execution /\ y.phase = "done" /\ y.aborted = exec[<<x, a>>].aborted
  BY <1>1 DEF Execution, Phases, Verdicts
<1>4. exec[<<x, a>>].phase = "return" /\ UNCHANGED <<row, call, audit, worker, faults>>
  BY DEF Return
<1>5. ExecutionBecomes(x, a, y)
  BY DEF Return, ExecutionBecomes
<1>6. queue' = IF Holds(<<x, a>>) THEN [queue EXCEPT ![x] = q] ELSE queue
  BY DEF Return
<1> HIDE DEF v, q, y
<1>7. /\ queue' \in [Jobs -> QueueJob] /\ \A j \in Jobs \ {x} : queue'[j] = queue[j]
      /\ Holds(<<x, a>>) => queue'[x] = q
      /\ ~Holds(<<x, a>>) => queue'[x] = queue[x]
  BY <1>1, <1>2, <1>6, TakenBack
<1>8. /\ exec' \in [Execs -> Execution] /\ exec'[<<x, a>>] = y
      /\ \A j \in Jobs, b \in Attempts : j # x \/ b # a => exec'[<<j, b>>] = exec[<<j, b>>]
  BY <1>1, <1>3, <1>5, OneExecution
<1>9. TypeOK' /\ Others(x)
  BY <1>1, <1>4, <1>7, <1>8 DEF TypeOK, Others
<1>10. /\ SomeLost(x) => SomeLost(x)'
       /\ Disturbed(x) => Disturbed(x)'
       /\ \A p \in {"claim", "run"} :
            (\E b \in Attempts : exec[<<x, b>>].phase = p) =>
              \E b \in Attempts : exec'[<<x, b>>].phase = p
  BY <1>3, <1>4, <1>8 DEF SomeLost, Disturbed
<1>11. JobSound(x)' /\ Advances(x)
  <2>1. CASE ~Holds(<<x, a>>)
    <3>1. queue'[x] = queue[x]
      BY <2>1, <1>7
    <3>2. queue[x].state = "active" => exec'[Latest(x)] = exec[Latest(x)]
      BY <2>1, <1>8 DEF IInv, JobSound, Linked, Holds, Latest
    <3>3. Linked(x)'
      BY <3>1, <3>2, <1>3, <1>4, <1>8 DEF IInv, JobSound, Linked, Latest, Running, TakenAway
    <3>4. Open(x)' => Awaited(x)'
      BY <3>1, <3>2, <1>4, <1>10 DEF IInv, JobSound, Open, Awaited, TakenAway, Latest
    <3>5. Claimed(x)' /\ Settled(x)'
      BY <3>1, <3>2, <1>4, <1>10 DEF IInv, JobSound, Open, Claimed, Settled, Over, Latest
    <3>6. Advances(x)
      BY <3>1, <3>2, <1>10 DEF Advances, Over, Latest
    <3> QED BY <3>3, <3>4, <3>5, <3>6 DEF JobSound
  <2>2. CASE Holds(<<x, a>>)
    <3>1. queue'[x] = q /\ queue[x].state = "active" /\ queue[x].attempt = a /\ Latest(x) = <<x, a>>
      BY <2>2, <1>7 DEF Holds, Latest
    <3>2. Linked(x)'
      BY <3>1, <1>2, <1>3, <1>4, <1>8 DEF IInv, JobSound, Linked, Latest, Running, TakenAway
    <3>3. Open(x)' => Awaited(x)'
      <4>1. SUFFICES ASSUME Awaited(x)
                     PROVE  Awaited(x)'
        BY <1>4 DEF IInv, JobSound, Open
      <4>2. CASE SomeLost(x) \/ \E b \in Attempts : exec[<<x, b>>].phase \in {"claim", "run"}
        BY <4>2, <1>10 DEF Awaited
      <4>3. CASE row[x].status = "retrying" /\ queue[x].attempt < MaxAttempts /\ v = "retrying"
        BY <4>3, <3>1, <1>2, <1>4 DEF Awaited
      <4> QED BY <4>1, <4>2, <4>3, <3>1, <1>4 DEF Awaited, TakenAway, v
    <3>4. /\ Over(x, ClosingVerdicts) => queue'[x].state \in Closed
          /\ Over(x, {"dead_lettered"}) => queue'[x].state \in Closed
      BY <3>1, <1>2 DEF Over, Closed, ClosingVerdicts, v
    <3>5. Claimed(x)' /\ Settled(x)'
      BY <3>4, <1>4, <1>10 DEF IInv, JobSound, Open, Claimed, Settled, Over
    <3>6. Advances(x)
      BY <3>1, <3>4, <1>2, <1>10 DEF Advances, Over, Closed
    <3> QED BY <3>2, <3>3, <3>5, <3>6 DEF JobSound
  <2> QED BY <2>1, <2>2
<1>12. Stopped'
  BY <1>3, <1>4, <1>8 DEF IInv, Stopped, Running, Execs
<1> QED BY <1>4, <1>9, <1>11, <1>12, JobStep

\* A timed-out execution is a disturbance; it runs on beside the next delivery.
LEMMA TimeOutPreserves ==
  ASSUME IInv, NEW x \in Jobs, NEW a \in Attempts, TimeOut(<<x, a>>)
  PROVE  IInv'
<1> DEFINE q == Requeued(queue[x])
           y == [exec[<<x, a>>] EXCEPT !.aborted = TRUE]
<1>1. TypeOK /\ queue[x] \in QueueJob /\ exec[<<x, a>>] \in Execution
  BY DEF IInv, TypeOK, Execs
<1>2. /\ q \in QueueJob /\ q.attempt = queue[x].attempt /\ q.state \in {"retry", "failed"}
      /\ q.attempt < MaxAttempts => q.state = "retry"
  BY <1>1, RequeuedJob
<1>3. /\ y \in Execution /\ y.phase = exec[<<x, a>>].phase /\ y.verdict = exec[<<x, a>>].verdict
      /\ y.aborted
  BY <1>1 DEF Execution
<1>4. /\ Running(<<x, a>>) /\ faults' \in 0..MaxFaults /\ faults' # 0
      /\ UNCHANGED <<row, call, audit, worker>>
  BY <1>1, FaultsAssumption DEF TimeOut, Fault, TypeOK
<1>5. ExecutionBecomes(x, a, y)
  BY DEF TimeOut, ExecutionBecomes
<1>6. queue' = IF Holds(<<x, a>>) THEN [queue EXCEPT ![x] = q] ELSE queue
  BY DEF TimeOut
<1> HIDE DEF q, y
<1>7. /\ queue' \in [Jobs -> QueueJob] /\ \A j \in Jobs \ {x} : queue'[j] = queue[j]
      /\ Holds(<<x, a>>) => queue'[x] = q
      /\ ~Holds(<<x, a>>) => queue'[x] = queue[x]
  BY <1>1, <1>2, <1>6, TakenBack
<1>8. /\ exec' \in [Execs -> Execution] /\ exec'[<<x, a>>] = y
      /\ \A j \in Jobs, b \in Attempts : j # x \/ b # a => exec'[<<j, b>>] = exec[<<j, b>>]
  BY <1>1, <1>3, <1>5, OneExecution
<1>9. TypeOK' /\ Others(x)
  BY <1>1, <1>4, <1>7, <1>8 DEF TypeOK, Others
<1>10. \A b \in Attempts : /\ exec'[<<x, b>>].phase = exec[<<x, b>>].phase
                           /\ exec'[<<x, b>>].verdict = exec[<<x, b>>].verdict
  BY <1>3, <1>8
<1>11. Disturbed(x)'
  BY <1>3, <1>8 DEF Disturbed
<1>12. JobSound(x)' /\ Advances(x)
  <2>1. CASE ~Holds(<<x, a>>)
    <3>1. queue'[x] = queue[x]
      BY <2>1, <1>7
    <3>2. Linked(x)'
      BY <3>1, <1>3, <1>4, <1>8, <1>10 DEF IInv, JobSound, Linked, Latest, Running, TakenAway
    <3>3. Open(x)' => Awaited(x)'
      <4>1. queue[x].state = "active" => /\ exec'[Latest(x)].phase = exec[Latest(x)].phase
                                         /\ exec'[Latest(x)].verdict = exec[Latest(x)].verdict
        BY <1>10 DEF IInv, JobSound, Linked, Latest
      <4>2. SomeLost(x) => SomeLost(x)'
        BY <1>10 DEF SomeLost
      <4>3. (\E b \in Attempts : exec[<<x, b>>].phase \in {"claim", "run"}) =>
              \E b \in Attempts : exec'[<<x, b>>].phase \in {"claim", "run"}
        BY <1>10
      <4> QED BY <4>1, <4>2, <4>3, <3>1, <1>4
              DEF IInv, JobSound, Open, Awaited, TakenAway, Latest
    <3>4. Claimed(x)' /\ Settled(x)' /\ Advances(x)
      BY <3>1, <1>4, <1>10, <1>11 DEF IInv, JobSound, Claimed, Settled, SomeLost, Advances
    <3> QED BY <3>2, <3>3, <3>4 DEF JobSound
  <2>2. CASE Holds(<<x, a>>)
    <3>1. queue'[x] = q /\ queue[x].state = "active" /\ queue[x].attempt = a /\ Latest(x) = <<x, a>>
      BY <2>2, <1>7 DEF Holds, Latest
    <3>2. Linked(x)'
      BY <3>1, <1>2, <1>3, <1>4, <1>8 DEF IInv, JobSound, Linked, Latest, Running, TakenAway
    <3>3. Open(x)' => Awaited(x)'
      <4>1. SUFFICES ASSUME Awaited(x)
                     PROVE  Awaited(x)'
        BY <1>4 DEF IInv, JobSound, Open
      <4>2. CASE SomeLost(x) \/ \E b \in Attempts : exec[<<x, b>>].phase \in {"claim", "run"}
        BY <4>2, <1>10 DEF Awaited, SomeLost
      <4>3. CASE row[x].status = "retrying" /\ queue[x].attempt < MaxAttempts
        BY <4>3, <3>1, <1>2, <1>4 DEF Awaited
      <4> QED BY <4>1, <4>2, <4>3, <3>1 DEF Awaited, TakenAway
    <3>4. Claimed(x)' /\ Settled(x)'
      BY <1>4, <1>10, <1>11 DEF IInv, JobSound, Claimed, Settled, SomeLost
    <3>5. Advances(x)
      BY <3>1, <1>2, <1>11 DEF Advances, Closed
    <3> QED BY <3>2, <3>3, <3>4, <3>5 DEF JobSound
  <2> QED BY <2>1, <2>2
<1>13. Stopped'
  BY <1>3, <1>4, <1>8 DEF IInv, Stopped, Running, Execs
<1> QED BY <1>4, <1>9, <1>12, <1>13, JobStep

\* A lease that runs out belongs to no execution that could write again.
LEMMA ExpirePreserves ==
  ASSUME IInv, NEW x \in Jobs, NEW a \in Attempts, Expire(<<x, a>>)
  PROVE  IInv'
<1> DEFINE q == Requeued(queue[x])
<1>1. TypeOK /\ queue[x] \in QueueJob
  BY DEF IInv, TypeOK
<1>2. /\ q \in QueueJob /\ q.attempt = queue[x].attempt /\ q.state \in {"retry", "failed"}
      /\ q.attempt < MaxAttempts => q.state = "retry"
  BY <1>1, RequeuedJob
<1>3. /\ exec[<<x, a>>].phase \in {"lost", "unheard"}
      /\ queue[x].state = "active" /\ queue[x].attempt = a /\ Latest(x) = <<x, a>>
      /\ queue' = [queue EXCEPT ![x] = q]
      /\ UNCHANGED <<row, exec, call, audit, worker, faults>>
  BY DEF Expire, Holds, Latest
<1> HIDE DEF q
<1>4. /\ queue' \in [Jobs -> QueueJob] /\ queue'[x] = q
      /\ \A j \in Jobs \ {x} : queue'[j] = queue[j]
  BY <1>1, <1>2, <1>3, OneQueueJob
<1>5. TypeOK' /\ Others(x)
  BY <1>1, <1>3, <1>4 DEF TypeOK, Others
<1>6. JobSound(x)' /\ Advances(x)
  <2>1. Linked(x)'
    BY <1>2, <1>3, <1>4 DEF IInv, JobSound, Linked, Running, TakenAway
  <2>2. Open(x)' => Awaited(x)'
    BY <1>2, <1>3, <1>4 DEF IInv, JobSound, Open, Awaited, SomeLost, TakenAway
  <2>3. ~Over(x, ClosingVerdicts) /\ ~Over(x, {"dead_lettered"})
    BY <1>3 DEF Over, Closed
  <2>4. Claimed(x)' /\ Settled(x)'
    BY <2>3, <1>3 DEF IInv, JobSound, Claimed, Settled, Open, SomeLost, Disturbed
  <2>5. Advances(x)
    BY <2>3, <1>2, <1>3, <1>4 DEF Advances, Disturbed, Closed
  <2> QED BY <2>1, <2>2, <2>4, <2>5 DEF JobSound
<1>7. Stopped'
  BY <1>3 DEF IInv, Stopped, Running
<1> QED BY <1>3, <1>5, <1>6, <1>7, JobStep

\* An execution that could not write is lost.
LEMMA WriteFailsPreserves ==
  ASSUME IInv, NEW x \in Jobs, NEW a \in Attempts, WriteFails(<<x, a>>)
  PROVE  IInv'
<1> DEFINE q == Requeued(queue[x])
           y == [exec[<<x, a>>] EXCEPT !.phase = "lost"]
<1>1. TypeOK /\ queue[x] \in QueueJob /\ exec[<<x, a>>] \in Execution
  BY DEF IInv, TypeOK, Execs
<1>2. /\ q \in QueueJob /\ q.attempt = queue[x].attempt /\ q.state \in {"retry", "failed"}
  BY <1>1, RequeuedJob
<1>3. y \in Execution /\ y.phase = "lost" /\ y.aborted = exec[<<x, a>>].aborted
  BY <1>1 DEF Execution, Phases
<1>4. /\ exec[<<x, a>>].phase \in {"claim", "run"} /\ faults' \in 0..MaxFaults /\ faults' # 0
      /\ UNCHANGED <<row, call, audit, worker>>
  BY <1>1, FaultsAssumption DEF WriteFails, Fault, TypeOK
<1>5. ExecutionBecomes(x, a, y)
  BY DEF WriteFails, ExecutionBecomes
<1>6. queue' = IF Holds(<<x, a>>) THEN [queue EXCEPT ![x] = q] ELSE queue
  BY DEF WriteFails
<1> HIDE DEF q, y
<1>7. /\ queue' \in [Jobs -> QueueJob] /\ \A j \in Jobs \ {x} : queue'[j] = queue[j]
      /\ Holds(<<x, a>>) => queue'[x] = q
      /\ ~Holds(<<x, a>>) => queue'[x] = queue[x]
  BY <1>1, <1>2, <1>6, TakenBack
<1>8. /\ exec' \in [Execs -> Execution] /\ exec'[<<x, a>>] = y
      /\ \A j \in Jobs, b \in Attempts : j # x \/ b # a => exec'[<<j, b>>] = exec[<<j, b>>]
  BY <1>1, <1>3, <1>5, OneExecution
<1>9. TypeOK' /\ Others(x)
  BY <1>1, <1>4, <1>7, <1>8 DEF TypeOK, Others
<1>10. /\ SomeLost(x)'
       /\ Disturbed(x) => Disturbed(x)'
  BY <1>3, <1>4, <1>8 DEF SomeLost, Disturbed
<1>11. JobSound(x)' /\ Advances(x)
  <2>1. Awaited(x)' /\ Claimed(x)'
    BY <1>10 DEF Awaited, Claimed
  <2>2. CASE ~Holds(<<x, a>>)
    <3>1. queue'[x] = queue[x]
      BY <2>2, <1>7
    <3>2. queue[x].state = "active" => exec'[Latest(x)] = exec[Latest(x)]
      BY <2>2, <1>8 DEF IInv, JobSound, Linked, Holds, Latest
    <3>3. Linked(x)'
      BY <3>1, <3>2, <1>3, <1>4, <1>8 DEF IInv, JobSound, Linked, Latest, Running, TakenAway
    <3>4. Settled(x)' /\ Advances(x)
      BY <3>1, <3>2, <1>4, <1>10 DEF IInv, JobSound, Open, Settled, Over, Latest, Advances
    <3> QED BY <2>1, <3>3, <3>4 DEF JobSound
  <2>3. CASE Holds(<<x, a>>)
    <3>1. queue'[x] = q /\ queue[x].state = "active" /\ queue[x].attempt = a /\ Latest(x) = <<x, a>>
      BY <2>3, <1>7 DEF Holds, Latest
    <3>2. Linked(x)'
      BY <3>1, <1>2, <1>3, <1>4, <1>8 DEF IInv, JobSound, Linked, Latest, Running, TakenAway
    <3>3. ~Over(x, ClosingVerdicts) /\ ~Over(x, {"dead_lettered"})
      BY <3>1, <1>4 DEF Over, Closed
    <3>4. Settled(x)'
      BY <3>3, <1>4, <1>10 DEF IInv, JobSound, Open, Settled
    <3>5. Advances(x)
      BY <3>1, <3>3, <1>2, <1>10 DEF Advances, Closed
    <3> QED BY <2>1, <3>2, <3>4, <3>5 DEF JobSound
  <2> QED BY <2>2, <2>3
<1>12. Stopped'
  BY <1>3, <1>4, <1>8 DEF IInv, Stopped, Running, Execs
<1> QED BY <1>4, <1>9, <1>11, <1>12, JobStep

\* An outcome that is written over is the one that will be returned.
LEMMA RereadFailsPreserves ==
  ASSUME IInv, NEW x \in Jobs, NEW a \in Attempts, RereadFails(<<x, a>>)
  PROVE  IInv'
<1> DEFINE v == Outcome(<<x, a>>, "transient")
           r == [row[x] EXCEPT !.status = v, !.error = TRUE]
           y == [exec[<<x, a>>] EXCEPT !.verdict = v]
<1>1. TypeOK /\ row[x] \in Row /\ exec[<<x, a>>] \in Execution
  BY DEF IInv, TypeOK, Execs
<1>2. /\ v \in {"cancelled", "retrying", "dead_lettered"}
      /\ v = "retrying" => a < MaxAttempts
      /\ exec[<<x, a>>].aborted <=> v = "cancelled"
  BY DEF Outcome
<1>3. /\ exec[<<x, a>>].phase = "return" /\ exec[<<x, a>>].verdict = "succeeded"
      /\ faults' \in 0..MaxFaults /\ faults' # 0
      /\ UNCHANGED <<queue, call, audit, worker>>
  BY <1>1, FaultsAssumption DEF RereadFails, Fault, TypeOK
<1>4. row' = [row EXCEPT ![x] = r]
  BY DEF RereadFails
<1>5. ExecutionBecomes(x, a, y)
  BY DEF RereadFails, ExecutionBecomes
<1> HIDE DEF v
<1>6. r \in Row /\ r.status = v /\ r.key = row[x].key /\ r.requester = row[x].requester
  <2>1. v \in Statuses
    BY <1>2 DEF Statuses, OpenStatus
  <2>2. r \in Row
    BY <1>1, <2>1, RowUpdate
  <2> QED BY <1>1, <2>2 DEF Row
<1>7. /\ y \in Execution /\ y.phase = "return" /\ y.verdict = v
      /\ y.aborted = exec[<<x, a>>].aborted
  BY <1>1, <1>2, <1>3 DEF Execution, Verdicts
<1> HIDE DEF r, y
<1>8. row' \in [Jobs -> Row] /\ row'[x] = r /\ \A j \in Jobs \ {x} : row'[j] = row[j]
  BY <1>1, <1>6, <1>4, OneRow
<1>9. /\ exec' \in [Execs -> Execution] /\ exec'[<<x, a>>] = y
      /\ \A j \in Jobs, b \in Attempts : j # x \/ b # a => exec'[<<j, b>>] = exec[<<j, b>>]
  BY <1>1, <1>7, <1>5, OneExecution
<1>10. TypeOK' /\ Others(x)
  BY <1>1, <1>3, <1>8, <1>9 DEF TypeOK, Others
<1>11. JobSound(x)' /\ Advances(x)
  <2>1. Linked(x)' /\ Claimed(x)'
    BY <1>2, <1>3, <1>6, <1>7, <1>8, <1>9
    DEF IInv, JobSound, Linked, Claimed, Latest, Running, TakenAway
  <2>2. Disturbed(x) => Disturbed(x)'
    BY <1>3, <1>7, <1>9 DEF Disturbed
  <2>3. CASE exec[<<x, a>>].aborted
    <3>1. Disturbed(x)'
      BY <2>3, <1>7, <1>9 DEF Disturbed
    <3> QED BY <2>1, <2>3, <3>1, <1>2, <1>3, <1>6, <1>8
            DEF JobSound, Settled, Advances, Open, OpenStatus
  <2>4. CASE ~exec[<<x, a>>].aborted
    <3>1. queue[x].attempt = a /\ (queue[x].state = "active" \/ TakenAway(x))
      BY <2>4, <1>3 DEF IInv, JobSound, Linked, Running
    <3>2. CASE TakenAway(x)
      BY <3>2, <2>1, <1>3
      DEF JobSound, Settled, Awaited, TakenAway, Over, Closed, Advances
    <3>3. CASE queue[x].state = "active"
      <4>1. /\ exec'[Latest(x)'] = y /\ queue'[x] = queue[x]
            /\ exec[Latest(x)] = exec[<<x, a>>]
        BY <3>1, <1>3, <1>9 DEF Latest
      <4>2. Open(x)' => Awaited(x)'
        BY <4>1, <3>1, <3>3, <1>2, <1>6, <1>7, <1>8 DEF Open, OpenStatus, Awaited
      <4>3. Settled(x)'
        BY <4>1, <3>3, <1>2, <1>6, <1>7, <1>8
        DEF Open, OpenStatus, Settled, Over, ClosingVerdicts
      <4>4. ~Over(x, {"dead_lettered"})
        BY <4>1, <3>3, <1>3 DEF Over, Closed
      <4>5. Advances(x)
        BY <4>4, <2>2, <1>3 DEF Advances
      <4> QED BY <2>1, <4>2, <4>3, <4>5 DEF JobSound
    <3> QED BY <3>1, <3>2, <3>3
  <2> QED BY <2>3, <2>4
<1>12. Stopped'
  BY <1>3, <1>7, <1>9 DEF IInv, Stopped, Running, Execs
<1> QED BY <1>3, <1>6, <1>8, <1>10, <1>11, <1>12, JobStep

\* The next delivery is one that never ran, and no execution in time runs beside it.
LEMMA DeliverPreserves ==
  ASSUME IInv, NEW x \in Jobs, Deliver(x)
  PROVE  IInv'
<1> DEFINE a == queue[x].attempt + 1
           q == [state |-> "active", attempt |-> a]
           y == [exec[<<x, a>>] EXCEPT !.phase = "claim"]
<1>1. a \in Attempts /\ queue[x].attempt \in Nat
  BY DEF Deliver, IInv, TypeOK, QueueJob
<1>2. TypeOK /\ exec[<<x, a>>] \in Execution
  BY <1>1 DEF IInv, TypeOK, Execs
<1>3. q \in QueueJob /\ q.state = "active" /\ q.attempt = a
  BY <1>1, AttemptsAssumption DEF QueueJob, QueueStates, OpenQueue, Attempts
<1>4. exec[<<x, a>>].phase = "idle" /\ ~exec[<<x, a>>].aborted
  BY <1>1 DEF IInv, JobSound, Linked
<1>5. y \in Execution /\ y.phase = "claim" /\ ~y.aborted
  BY <1>2, <1>4 DEF Execution, Phases
<1>6. /\ queue[x].state \in {"created", "retry"} /\ worker = "up"
      /\ queue' = [queue EXCEPT ![x] = q] /\ ExecutionBecomes(x, a, y)
      /\ UNCHANGED <<row, call, audit, worker, faults>>
  BY DEF Deliver, ExecutionBecomes
<1> HIDE DEF q, y
<1>7. /\ queue' \in [Jobs -> QueueJob] /\ queue'[x] = q
      /\ \A j \in Jobs \ {x} : queue'[j] = queue[j]
  BY <1>2, <1>3, <1>6, OneQueueJob
<1>8. /\ exec' \in [Execs -> Execution] /\ exec'[<<x, a>>] = y
      /\ \A j \in Jobs, b \in Attempts : j # x \/ b # a => exec'[<<j, b>>] = exec[<<j, b>>]
  BY <1>2, <1>5, <1>1, <1>6, OneExecution
<1>9. TypeOK' /\ Others(x)
  BY <1>2, <1>6, <1>7, <1>8 DEF TypeOK, Others
<1>10. /\ SomeLost(x) => SomeLost(x)'
       /\ Disturbed(x) => Disturbed(x)'
       /\ (\E b \in Attempts : exec[<<x, b>>].phase = "run") =>
            \E b \in Attempts : exec'[<<x, b>>].phase = "run"
  BY <1>4, <1>8 DEF SomeLost, Disturbed
<1>11. JobSound(x)' /\ Advances(x)
  <2>1. Linked(x)'
    <3>1. exec'[Latest(x)'].phase = "claim"
      BY <1>3, <1>5, <1>7, <1>8 DEF Latest
    <3>2. \A b \in Attempts : b # a => ~(Running(<<x, b>>) /\ ~exec[<<x, b>>].aborted)
      BY <1>6 DEF IInv, JobSound, Linked, TakenAway
    <3>3. \A b \in Attempts : b # a =>
            /\ exec'[<<x, b>>].phase # "idle" => b <= queue[x].attempt
            /\ exec'[<<x, b>>].phase = "idle" => ~exec'[<<x, b>>].aborted
            /\ ~(Running(<<x, b>>)' /\ ~exec'[<<x, b>>].aborted)
      BY <3>2, <1>8 DEF IInv, JobSound, Linked, Running
    <3>4. row[x].status # "absent"
      BY <1>6 DEF IInv, JobSound, Linked
    <3> QED BY <3>1, <3>3, <3>4, <1>1, <1>3, <1>5, <1>6, <1>7, <1>8 DEF Linked, Attempts
  <2>2. Awaited(x)'
    BY <1>1, <1>5, <1>8 DEF Awaited
  <2>3. ~Over(x, ClosingVerdicts) /\ ~Over(x, {"dead_lettered"})
    BY <1>6 DEF Over, Closed
  <2>4. Claimed(x)' /\ Settled(x)'
    BY <2>3, <1>6, <1>10 DEF IInv, JobSound, Claimed, Settled, Open
  <2>5. Advances(x)
    BY <2>3, <1>3, <1>6, <1>7, <1>10 DEF Advances, Closed
  <2> QED BY <2>1, <2>2, <2>4, <2>5 DEF JobSound
<1>12. Stopped'
  BY <1>6 DEF Stopped
<1> QED BY <1>6, <1>9, <1>11, <1>12, JobStep

-----------------------------------------------------------------------------
(* Producers and the worker process.                                       *)

\* A reserved row is queued and has its queue job, and no other row has its key.
LEMMA ReservePreserves ==
  ASSUME IInv, NEW x \in Jobs, NEW key \in Keys \union {Unique},
         NEW requester \in {"user", "operator", "system"}, NEW about \in {"account", "system"},
         Reserve(x, key, requester, about), exec' = exec
  PROVE  /\ row' \in [Jobs -> Row] /\ queue' \in [Jobs -> QueueJob] /\ Others(x)
         /\ row'[x].requester = requester
         /\ JobSound(x)' /\ Advances(x)
         /\ OneJobPerKey'
<1> DEFINE r == [NoRow EXCEPT !.status = "queued", !.key = key, !.requester = requester,
                              !.about = about, !.payload = TRUE]
           q == [queue[x] EXCEPT !.state = "created"]
<1>1. TypeOK /\ queue[x] \in QueueJob
  BY DEF IInv, TypeOK
<1>2. r \in Row /\ r.status = "queued" /\ r.key = key /\ r.requester = requester
  <2> DEFINE r1 == [NoRow EXCEPT !.status = "queued"]
             r2 == [r1 EXCEPT !.key = key]
             r3 == [r2 EXCEPT !.requester = requester]
             r4 == [r3 EXCEPT !.about = about]
  <2>1. r1 \in Row /\ r1.status = "queued"
    BY DEF Row, NoRow, Statuses, OpenStatus
  <2> HIDE DEF r1
  <2>2. r2 \in Row /\ r2.status = "queued" /\ r2.key = key
    BY <2>1 DEF Row
  <2> HIDE DEF r2
  <2>3. r3 \in Row /\ r3.status = "queued" /\ r3.key = key /\ r3.requester = requester
    BY <2>2 DEF Row
  <2> HIDE DEF r3
  <2>4. r4 \in Row /\ r4.status = "queued" /\ r4.key = key /\ r4.requester = requester
    BY <2>3 DEF Row
  <2>5. r = [r4 EXCEPT !.payload = TRUE]
    BY DEF r1, r2, r3
  <2> HIDE DEF r4, r
  <2> QED BY <2>4, <2>5 DEF Row
<1>3. q \in QueueJob /\ q.state = "created" /\ q.attempt = queue[x].attempt
  BY <1>1 DEF QueueJob, QueueStates, OpenQueue
<1>4. /\ row[x].status = "absent" /\ queue[x].state = "absent"
      /\ \A i \in Jobs : key \in Keys => row[i].key # key
  BY DEF Reserve, Fresh, IInv, JobSound, Linked
<1>5. row' = [row EXCEPT ![x] = r]
  BY DEF Reserve
<1>6. queue' = [queue EXCEPT ![x] = q]
  BY DEF Reserve
<1> HIDE DEF r, q
<1>7. row' \in [Jobs -> Row] /\ row'[x] = r /\ \A j \in Jobs \ {x} : row'[j] = row[j]
  BY <1>1, <1>2, <1>5, OneRow
<1>8. /\ queue' \in [Jobs -> QueueJob] /\ queue'[x] = q
      /\ \A j \in Jobs \ {x} : queue'[j] = queue[j]
  BY <1>1, <1>3, <1>6, OneQueueJob
<1>9. Others(x)
  BY <1>7, <1>8 DEF Others
<1>10. JobSound(x)'
  <2>1. \A b \in Attempts : exec[<<x, b>>].phase = "idle" /\ ~exec[<<x, b>>].aborted
    BY <1>4 DEF IInv, JobSound, Linked
  <2>2. Linked(x)'
    BY <2>1, <1>2, <1>3, <1>7, <1>8 DEF Linked, Latest, Running
  <2>3. Awaited(x)' /\ Claimed(x)' /\ Settled(x)'
    BY <1>2, <1>3, <1>7, <1>8 DEF Awaited, Claimed, Settled, Open, OpenStatus
  <2> QED BY <2>2, <2>3 DEF JobSound
<1>11. Advances(x)
  <2>1. ~Disturbed(x) /\ ~Over(x, {"dead_lettered"})
    BY <1>4 DEF IInv, JobSound, Linked, Disturbed, Over, Closed
  <2> QED BY <2>1, <1>4 DEF Advances, Closed
<1>12. OneJobPerKey'
  <2> SUFFICES ASSUME NEW i \in Jobs, NEW j \in Jobs, i # j, row'[i].key = row'[j].key
               PROVE  row'[i].key = Unique
    BY DEF OneJobPerKey
  <2>1. CASE i # x /\ j # x
    BY <2>1, <1>7 DEF IInv, OneJobPerKey
  <2>2. CASE i = x \/ j = x
    BY <2>2, <1>2, <1>4, <1>7
  <2> QED BY <2>1, <2>2
<1> QED BY <1>2, <1>7, <1>8, <1>9, <1>10, <1>11, <1>12

\* A producer's job.
LEMMA EnqueuePreserves ==
  ASSUME IInv, NEW x \in Jobs, NEW key \in Keys, Enqueue(x, key)
  PROVE  IInv'
<1>1. UNCHANGED <<exec, call, audit, worker, faults>>
  BY DEF Enqueue
<1>2. PICK requester \in {"user", "system"}, about \in {"account", "system"} :
        Reserve(x, key, requester, about)
  BY DEF Enqueue
<1>3. /\ row' \in [Jobs -> Row] /\ queue' \in [Jobs -> QueueJob] /\ Others(x)
      /\ row'[x].requester = requester /\ JobSound(x)' /\ Advances(x) /\ OneJobPerKey'
  BY <1>1, <1>2, ReservePreserves
<1>4. TypeOK'
  BY <1>1, <1>3 DEF IInv, TypeOK
<1>5. \A i \in Jobs : JobSound(i)' /\ Advances(i)
  BY <1>3, Untouched DEF IInv, Others
<1>6. \A c \in Calls : CallSound(c)'
  BY <1>1, <1>5, CallsRest DEF IInv, TypeOK
<1>7. RedrivesAreRecorded'
  BY <1>1, <1>3 DEF IInv, RedrivesAreRecorded, Others
<1>8. Stopped'
  BY <1>1 DEF IInv, Stopped, Running
<1> QED BY <1>3, <1>4, <1>5, <1>6, <1>7, <1>8 DEF IInv

\* The worker process, without its executions.
LEMMA WorkerPreserves ==
  ASSUME IInv, Shutdown \/ Exit \/ Start
  PROVE  IInv'
<1>1. /\ UNCHANGED <<row, queue, exec, call, audit>>
      /\ worker' \in {"up", "stopping", "down"} /\ faults' \in 0..MaxFaults
      /\ faults' = 0 => faults = 0
  BY FaultsAssumption DEF Shutdown, Exit, Start, Fault, IInv, TypeOK
<1>2. TypeOK'
  BY <1>1 DEF IInv, TypeOK
<1>3. \A i \in Jobs : JobSound(i)' /\ Advances(i)
  BY <1>1, Untouched DEF IInv
<1>4. \A c \in Calls : CallSound(c)'
  BY <1>1, <1>3, CallsRest DEF IInv, TypeOK
<1>5. RowsKeep
  BY <1>1 DEF RowsKeep
<1>6. OneJobPerKey' /\ RedrivesAreRecorded'
  BY <1>1, <1>5, KeysStay, RecordsStay DEF IInv
<1>7. Stopped'
  BY DEF Shutdown, Exit, Start, Stopped, Running
<1> QED BY <1>2, <1>3, <1>4, <1>6, <1>7 DEF IInv

\* The executions that die are lost, or pg-boss never hears of them.
LEMMA DiePreserves ==
  ASSUME IInv, Die
  PROVE  IInv'
<1>1. /\ UNCHANGED <<row, queue, call, audit>> /\ worker' = "down"
      /\ faults' \in 0..MaxFaults /\ faults' # 0
  BY FaultsAssumption DEF Die, Fault, IInv, TypeOK
<1>2. ASSUME NEW e \in Execs
      PROVE  /\ exec'[e] \in Execution
             /\ exec'[e].aborted = exec[e].aborted /\ exec'[e].verdict = exec[e].verdict
             /\ exec[e].phase \in {"claim", "run"} => exec'[e].phase = "lost"
             /\ exec[e].phase = "return" => exec'[e].phase = "unheard"
             /\ ~Running(e) => exec'[e].phase = exec[e].phase
             /\ ~Running(e)'
  <2>1. exec'[e] = IF Running(e) THEN Lost(exec[e]) ELSE exec[e]
    BY DEF Die
  <2>2. exec[e] \in Execution
    BY DEF IInv, TypeOK
  <2>3. CASE exec[e].phase = "return"
    BY <2>1, <2>2, <2>3 DEF Running, Lost, Execution, Phases
  <2>4. CASE exec[e].phase \in {"claim", "run"}
    BY <2>1, <2>2, <2>4 DEF Running, Lost, Execution, Phases
  <2>5. CASE ~Running(e)
    BY <2>1, <2>2, <2>5 DEF Running
  <2> QED BY <2>3, <2>4, <2>5 DEF Running
<1>3. TypeOK'
  <2>1. exec' \in [Execs -> Execution]
    BY <1>2 DEF Die
  <2> QED BY <2>1, <1>1 DEF IInv, TypeOK
<1>4. ASSUME NEW j \in Jobs PROVE JobSound(j)' /\ Advances(j)
  <2>1. ASSUME NEW b \in Attempts
        PROVE  /\ exec'[<<j, b>>].aborted = exec[<<j, b>>].aborted
               /\ exec'[<<j, b>>].verdict = exec[<<j, b>>].verdict
               /\ exec[<<j, b>>].phase \in {"claim", "run"} => exec'[<<j, b>>].phase = "lost"
               /\ exec[<<j, b>>].phase = "return" => exec'[<<j, b>>].phase = "unheard"
               /\ exec[<<j, b>>].phase \notin {"claim", "run", "return"} =>
                    exec'[<<j, b>>].phase = exec[<<j, b>>].phase
               /\ exec'[<<j, b>>].phase \notin {"claim", "run", "return"}
    BY <1>2 DEF Execs, Running
  <2>2. /\ queue[j].state = "active" => queue[j].attempt \in Attempts
        /\ Latest(j)' = <<j, queue[j].attempt>>
    BY <1>1 DEF IInv, JobSound, Linked, Latest
  <2>3. Linked(j)'
    BY <2>1, <2>2, <1>1 DEF IInv, JobSound, Linked, Latest, Running, TakenAway
  <2>4. SomeLost(j) => SomeLost(j)'
    BY <2>1 DEF SomeLost
  <2>5. (\E b \in Attempts : exec[<<j, b>>].phase \in {"claim", "run"}) => SomeLost(j)'
    BY <2>1 DEF SomeLost
  <2>6. Open(j)' => Awaited(j)'
    <3>1. SUFFICES ASSUME Awaited(j) PROVE Awaited(j)'
      BY <1>1 DEF IInv, JobSound, Open
    <3> QED BY <3>1, <2>1, <2>2, <2>4, <2>5, <1>1 DEF Awaited, TakenAway, Latest
  <2>7. Disturbed(j) \/ Over(j, ClosingVerdicts) => Disturbed(j)' \/ queue[j].state \in Closed
    BY <2>1, <2>2 DEF Disturbed, Over, Latest
  <2>8. Disturbed(j) \/ Over(j, {"dead_lettered"}) => Disturbed(j)' \/ queue[j].state \in Closed
    BY <2>1, <2>2 DEF Disturbed, Over, Latest
  <2>9. Claimed(j)' /\ Settled(j)'
    BY <2>4, <2>5, <2>7, <2>8, <1>1 DEF IInv, JobSound, Claimed, Settled, Open, Over
  <2>10. Advances(j)
    BY <2>8, <1>1 DEF Advances, Over
  <2> QED BY <2>3, <2>6, <2>9, <2>10 DEF JobSound
<1>5. \A c \in Calls : CallSound(c)'
  BY <1>1, <1>4, CallsRest DEF IInv, TypeOK
<1>6. RowsKeep
  BY <1>1 DEF RowsKeep
<1>7. OneJobPerKey' /\ RedrivesAreRecorded'
  BY <1>1, <1>6, KeysStay, RecordsStay DEF IInv
<1>8. Stopped'
  BY <1>2 DEF Stopped
<1> QED BY <1>3, <1>4, <1>5, <1>7, <1>8 DEF IInv

-----------------------------------------------------------------------------
(* Calls.                                                                  *)

\* A call that is over relies on nothing.
LEMMA EndedCall ==
  ASSUME TypeOK, NEW c \in Calls, NEW op \in {"done", "scrubbed"}, End(c, op)
  PROVE  /\ call' \in [Calls -> Call]
         /\ CallSound(c)'
         /\ \A d \in Calls \ {c} : call'[d] = call[d]
<1> DEFINE k == [NoCall EXCEPT !.op = op]
<1>1. k \in Call /\ k.op = op
  BY DEF NoCall, Call, Ops
<1>2. CallBecomes(c, k)
  BY DEF End, CallBecomes
<1> HIDE DEF k
<1>3. call' \in [Calls -> Call] /\ call'[c] = k /\ \A d \in Calls \ {c} : call'[d] = call[d]
  BY <1>1, <1>2, OneCall
<1> QED BY <1>1, <1>3 DEF CallSound

\* A step of one call that does not record a redrive.
LEMMA CallStep ==
  ASSUME IInv, TypeOK', \A j \in Jobs : JobSound(j)' /\ Advances(j), RowsKeep,
         NEW c \in Calls, CallSound(c)', \A d \in Calls \ {c} : call'[d] = call[d],
         exec' = exec, worker' = worker, audit \subseteq audit',
         faults' = 0 => faults = 0 /\ call[c].op # "record"
  PROVE  IInv'
<1>1. \A d \in Calls : CallSound(d)'
  BY CallsRest DEF IInv, TypeOK
<1>2. OneJobPerKey'
  BY KeysStay DEF IInv
<1>3. RedrivesAreRecorded'
  BY RecordsStay DEF IInv
<1>4. Stopped'
  BY DEF IInv, Stopped, Running
<1> QED BY <1>1, <1>2, <1>3, <1>4 DEF IInv

\* A step that changes neither row, queue job nor execution.
LEMMA JobsRest ==
  ASSUME IInv, UNCHANGED <<row, queue, exec>>
  PROVE  (\A j \in Jobs : JobSound(j)' /\ Advances(j)) /\ RowsKeep
<1>1. \A j \in Jobs : JobSound(j)' /\ Advances(j)
  BY Untouched DEF IInv
<1> QED BY <1>1 DEF RowsKeep

\* An open row has a queue job to cancel, and a dead-lettered one nothing to come.
LEMMA BeginPreserves ==
  ASSUME IInv, NEW c \in Calls, NEW x \in Jobs, Cancel(c, x) \/ Discard(c, x)
  PROVE  IInv'
<1>1. PICK op \in {"dequeue", "discard"} :
        /\ Begin(c, op, x)
        /\ op = "dequeue" => Open(x)
        /\ op = "discard" => row[x].status = "dead_lettered"
  BY DEF Cancel, Discard
<1> DEFINE k1 == [call[c] EXCEPT !.op = op]
           k == [k1 EXCEPT !.job = x]
<1>2. TypeOK /\ call[c] \in Call /\ op \in Ops
  BY DEF IInv, TypeOK, Ops
<1>3. CallBecomes(c, k)
  BY <1>1 DEF Begin, CallBecomes
<1>4. k \in Call /\ k.op = op /\ k.job = x
  <2>1. k1 \in Call /\ k1.op = op
    BY <1>2 DEF Call
  <2> HIDE DEF k1
  <2> QED BY <2>1 DEF Call
<1>5. UNCHANGED <<row, queue, exec, audit, worker, faults>> /\ call[c].op = "idle"
  BY <1>1 DEF Cancel, Discard, Begin
<1> HIDE DEF k
<1>6. call' \in [Calls -> Call] /\ call'[c] = k /\ \A d \in Calls \ {c} : call'[d] = call[d]
  BY <1>2, <1>3, <1>4, OneCall
<1>7. TypeOK'
  BY <1>5, <1>6 DEF IInv, TypeOK
<1>8. (\A j \in Jobs : JobSound(j)' /\ Advances(j)) /\ RowsKeep
  BY <1>5, JobsRest
<1>9. op = "dequeue" => queue'[x].state # "absent"
  BY <1>1, <1>5 DEF IInv, JobSound, Linked, Open, OpenStatus
<1>10. op = "discard" => Disturbed(x)' \/ Over(x, {"dead_lettered"})'
  <2>1. op = "discard" => Disturbed(x) \/ Over(x, {"dead_lettered"})
    BY <1>1 DEF IInv, JobSound, Settled
  <2> QED BY <2>1, <1>8 DEF Advances
<1>11. CallSound(c)'
  BY <1>4, <1>6, <1>9, <1>10 DEF CallSound
<1> QED BY <1>5, <1>6, <1>7, <1>8, <1>11, CallStep

\* The queue job is closed before the row says cancelled.
LEMMA CancelDequeuePreserves ==
  ASSUME IInv, NEW c \in Calls, CancelDequeue(c)
  PROVE  IInv'
<1>1. call[c].op = "dequeue" /\ UNCHANGED <<row, exec, audit, worker, faults>>
  BY DEF CancelDequeue
<1>2. PICK x \in Jobs : x = call[c].job /\ queue[x].state # "absent"
  BY <1>1 DEF IInv, CallSound
<1> DEFINE q == CancelledQueue(queue[x])
           k == [call[c] EXCEPT !.op = "mark"]
<1>3. TypeOK /\ queue[x] \in QueueJob /\ call[c] \in Call /\ "mark" \in Ops
  BY <1>2 DEF IInv, TypeOK, Ops
<1>4. /\ q \in QueueJob /\ q.attempt = queue[x].attempt /\ q.state \in Closed
      /\ q = queue[x] \/ (q.state = "cancelled" /\ queue[x].state \in OpenQueue)
  <2>1. CASE queue[x].state \in OpenQueue
    BY <2>1, <1>3 DEF CancelledQueue, QueueJob, QueueStates, Closed
  <2>2. CASE queue[x].state \notin OpenQueue
    BY <2>2, <1>2, <1>3 DEF CancelledQueue, QueueJob, QueueStates, Closed
  <2> QED BY <2>1, <2>2
<1>5. k \in Call /\ k.op = "mark" /\ k.job = call[c].job
  BY <1>3 DEF Call
<1>6. queue' = [queue EXCEPT ![x] = q]
  BY <1>2 DEF CancelDequeue
<1>7. CallBecomes(c, k)
  BY DEF CancelDequeue, Continue, CallBecomes
<1> HIDE DEF q, k
<1>8. /\ queue' \in [Jobs -> QueueJob] /\ queue'[x] = q
      /\ \A j \in Jobs \ {x} : queue'[j] = queue[j]
  BY <1>2, <1>3, <1>4, <1>6, OneQueueJob
<1>9. call' \in [Calls -> Call] /\ call'[c] = k /\ \A d \in Calls \ {c} : call'[d] = call[d]
  BY <1>3, <1>5, <1>7, OneCall
<1>10. TypeOK'
  BY <1>1, <1>3, <1>8, <1>9 DEF TypeOK
<1>11. JobSound(x)' /\ Advances(x)
  <2>1. CASE q = queue[x]
    BY <2>1, <1>1, <1>2, <1>8, Untouched DEF IInv
  <2>2. CASE q.state = "cancelled" /\ queue[x].state \in OpenQueue
    <3>1. Linked(x)'
      BY <2>2, <1>1, <1>2, <1>4, <1>8 DEF IInv, JobSound, Linked, Running, TakenAway
    <3>2. Awaited(x)' /\ Settled(x)'
      BY <2>2, <1>8 DEF Awaited, Settled, TakenAway, Over, Closed
    <3>3. Claimed(x)'
      BY <1>1, <1>2 DEF IInv, JobSound, Claimed, SomeLost
    <3>4. Advances(x)
      BY <2>2, <1>8 DEF Advances, Over, Closed, OpenQueue
    <3> QED BY <3>1, <3>2, <3>3, <3>4 DEF JobSound
  <2> QED BY <2>1, <2>2, <1>4
<1>12. \A j \in Jobs : JobSound(j)' /\ Advances(j)
  BY <1>1, <1>8, <1>11, Untouched DEF IInv
<1>13. CallSound(c)'
  BY <1>2, <1>4, <1>5, <1>8, <1>9 DEF CallSound
<1>14. RowsKeep
  BY <1>1 DEF RowsKeep
<1> QED BY <1>1, <1>9, <1>10, <1>12, <1>13, <1>14, CallStep

\* The row that is cancelled or discarded has nothing to come, whatever it became since
\* it was read.
LEMMA MarkPreserves ==
  ASSUME IInv, NEW c \in Calls, CancelMark(c) \/ DiscardMark(c)
  PROVE  IInv'
<1>0. PICK x \in Jobs :
        /\ x = call[c].job
        /\ queue[x].state \in Closed \/ Disturbed(x) \/ Over(x, {"dead_lettered"})
  BY DEF CancelMark, DiscardMark, IInv, CallSound
<1>1. PICK s \in {"cancelled", "discarded"} :
        /\ row' = [row EXCEPT ![x].status = s]
        /\ IF s = "cancelled"
           THEN call[c].op = "mark" /\ audit' = audit
           ELSE /\ call[c].op = "discard"
                /\ audit' = audit \union {[action |-> "discard", job |-> x, replacement |-> x]}
  BY <1>0 DEF CancelMark, DiscardMark
<1> DEFINE r == [row[x] EXCEPT !.status = s]
<1>2. UNCHANGED <<queue, exec, worker, faults>> /\ End(c, "done")
  BY DEF CancelMark, DiscardMark
<1>3. queue[x].state \in Closed \/ Disturbed(x) \/ Over(x, {"dead_lettered"})
  BY <1>0
<1>4. TypeOK /\ row[x] \in Row
  BY <1>3 DEF IInv, TypeOK
<1>5. r \in Row /\ r.status = s /\ r.key = row[x].key /\ r.requester = row[x].requester
  BY <1>1, <1>4 DEF Row, Statuses
<1>6. row' = [row EXCEPT ![x] = r]
  BY <1>1
<1> HIDE DEF r
<1>7. row' \in [Jobs -> Row] /\ row'[x] = r /\ \A j \in Jobs \ {x} : row'[j] = row[j]
  BY <1>3, <1>4, <1>5, <1>6, OneRow
<1>8. /\ call' \in [Calls -> Call] /\ CallSound(c)'
      /\ \A d \in Calls \ {c} : call'[d] = call[d]
  BY <1>2, <1>4, EndedCall
<1>9. TypeOK'
  <2>1. audit' \in SUBSET Action
    BY <1>1, <1>3, <1>4 DEF TypeOK, Action
  <2> QED BY <2>1, <1>2, <1>4, <1>7, <1>8 DEF TypeOK
<1>10. \A j \in Jobs \ {x} : JobSound(j)' /\ Advances(j)
  BY <1>2, <1>7, Untouched DEF IInv
<1>11. JobSound(x)' /\ Advances(x)
  <2>1. queue[x].state # "absent"
    BY <1>3 DEF IInv, JobSound, Linked, Disturbed, Over, Closed
  <2>2. Linked(x)'
    BY <2>1, <1>2, <1>3, <1>5, <1>7 DEF IInv, JobSound, Linked, Latest, Running, TakenAway
  <2>3. (Open(x)' => Awaited(x)') /\ Claimed(x)'
    BY <1>5, <1>7 DEF Open, OpenStatus, Claimed
  <2>4. Settled(x)'
    BY <1>2, <1>3, <1>5, <1>7
    DEF Settled, Open, OpenStatus, Disturbed, Over, Latest, ClosingVerdicts
  <2>5. Advances(x)
    BY <1>2 DEF Advances, Disturbed, Over, Latest
  <2> QED BY <2>2, <2>3, <2>4, <2>5 DEF JobSound
<1>12. RowsKeep
  BY <1>5, <1>7 DEF RowsKeep
<1> QED BY <1>1, <1>2, <1>8, <1>9, <1>10, <1>11, <1>12, CallStep

\* The deletion of an account selects rows that have queue jobs,
LEMMA ScrubPreserves ==
  ASSUME IInv, NEW c \in Calls, Scrub(c)
  PROVE  IInv'
<1> DEFINE found == {j \in Jobs : row[j].status # "absent" /\ row[j].requester = "user"}
           op == IF found = {} THEN "scrubbed" ELSE "remove"
           k1 == [call[c] EXCEPT !.op = op]
           k2 == [k1 EXCEPT !.found = found]
           k == [k2 EXCEPT !.todo = found]
<1>1. TypeOK /\ call[c] \in Call
  BY DEF IInv, TypeOK
<1>2. op \in {"scrubbed", "remove"} /\ op \in Ops /\ found \in SUBSET Jobs
  BY DEF Ops
<1>3. /\ call[c].op = "idle" /\ UNCHANGED <<row, queue, exec, audit, worker, faults>>
      /\ CallBecomes(c, k)
  BY DEF Scrub, CallBecomes
<1>4. \A j \in found : queue[j].state # "absent"
  BY DEF IInv, JobSound, Linked
<1> HIDE DEF op, found
<1>5. k1 \in Call /\ k1.op = op
  BY <1>1, <1>2 DEF Call
<1> HIDE DEF k1
<1>6. k2 \in Call /\ k2.op = op /\ k2.found = found
  BY <1>2, <1>5 DEF Call
<1> HIDE DEF k2
<1>7. k \in Call /\ k.op = op /\ k.found = found /\ k.todo = found
  BY <1>2, <1>6 DEF Call
<1> HIDE DEF k
<1>8. call' \in [Calls -> Call] /\ call'[c] = k /\ \A d \in Calls \ {c} : call'[d] = call[d]
  BY <1>1, <1>3, <1>7, OneCall
<1>9. TypeOK'
  BY <1>1, <1>3, <1>8 DEF TypeOK
<1>10. (\A j \in Jobs : JobSound(j)' /\ Advances(j)) /\ RowsKeep
  BY <1>3, JobsRest
<1>11. CallSound(c)'
  BY <1>2, <1>3, <1>4, <1>7, <1>8 DEF CallSound
<1> QED BY <1>3, <1>8, <1>9, <1>10, <1>11, CallStep

\* takes them away one by one,
LEMMA ScrubRemovePreserves ==
  ASSUME IInv, NEW c \in Calls, NEW x \in Jobs, ScrubRemove(c, x)
  PROVE  IInv'
<1> DEFINE q == [queue[x] EXCEPT !.state = "deleted"]
           k == [call[c] EXCEPT !.todo = call[c].todo \ {x}]
<1>1. TypeOK /\ queue[x] \in QueueJob /\ call[c] \in Call
  BY DEF IInv, TypeOK
<1>2. q \in QueueJob /\ q.state = "deleted" /\ q.attempt = queue[x].attempt
  BY <1>1 DEF QueueJob, QueueStates
<1>3. k \in Call /\ k.op = call[c].op /\ k.found = call[c].found /\ k.todo = call[c].todo \ {x}
  BY <1>1 DEF Call
<1>4. /\ call[c].op = "remove" /\ x \in call[c].todo
      /\ UNCHANGED <<row, exec, audit, worker, faults>>
  BY DEF ScrubRemove
<1>5. queue' = [queue EXCEPT ![x] = q]
  BY DEF ScrubRemove
<1>6. CallBecomes(c, k)
  BY DEF ScrubRemove, CallBecomes
<1> HIDE DEF q, k
<1>7. /\ queue' \in [Jobs -> QueueJob] /\ queue'[x] = q
      /\ \A j \in Jobs \ {x} : queue'[j] = queue[j]
  BY <1>1, <1>2, <1>5, OneQueueJob
<1>8. call' \in [Calls -> Call] /\ call'[c] = k /\ \A d \in Calls \ {c} : call'[d] = call[d]
  BY <1>1, <1>3, <1>6, OneCall
<1>9. TypeOK'
  BY <1>1, <1>4, <1>7, <1>8 DEF TypeOK
<1>10. queue[x].state # "absent"
  BY <1>4 DEF IInv, CallSound
<1>11. JobSound(x)' /\ Advances(x)
  <2>1. Linked(x)'
    BY <1>2, <1>4, <1>7, <1>10 DEF IInv, JobSound, Linked, Running, TakenAway
  <2>2. Awaited(x)' /\ Settled(x)'
    BY <1>2, <1>7 DEF Awaited, Settled, TakenAway, Over, Closed
  <2>3. Claimed(x)'
    BY <1>4 DEF IInv, JobSound, Claimed, SomeLost
  <2>4. Advances(x)
    BY <1>2, <1>7 DEF Advances, Over, Closed
  <2> QED BY <2>1, <2>2, <2>3, <2>4 DEF JobSound
<1>12. \A j \in Jobs : JobSound(j)' /\ Advances(j)
  BY <1>4, <1>7, <1>11, Untouched DEF IInv
<1>13. CallSound(c)'
  <2>1. /\ call[c].todo \subseteq call[c].found /\ call[c].found \subseteq Jobs
        /\ \A j \in call[c].found : queue[j].state # "absent"
        /\ \A j \in call[c].found \ call[c].todo : queue[j].state = "deleted"
    BY <1>1, <1>4 DEF IInv, CallSound, Call
  <2>2. \A j \in call[c].found : queue'[j].state # "absent"
    BY <2>1, <1>2, <1>7
  <2>3. \A j \in call[c].found \ (call[c].todo \ {x}) : queue'[j].state = "deleted"
    BY <2>1, <1>2, <1>7
  <2> QED BY <2>1, <2>2, <2>3, <1>3, <1>4, <1>8 DEF CallSound
<1>14. RowsKeep
  BY <1>4 DEF RowsKeep
<1> QED BY <1>4, <1>8, <1>9, <1>12, <1>13, <1>14, CallStep

\* and rewrites the rows when none of them is left.
LEMMA ScrubRowsPreserves ==
  ASSUME IInv, NEW c \in Calls, ScrubRows(c)
  PROVE  IInv'
<1>1. /\ call[c].op = "remove" /\ UNCHANGED <<queue, exec, audit, worker, faults>>
      /\ End(c, "scrubbed")
      /\ row' = [j \in Jobs |-> IF j \in call[c].found THEN Scrubbed(row[j]) ELSE row[j]]
  BY DEF ScrubRows
<1>2. TypeOK /\ \A j \in call[c].found : queue[j].state = "deleted"
  BY DEF ScrubRows, IInv, CallSound
<1>3. ASSUME NEW r \in Row
      PROVE  /\ Scrubbed(r) \in Row /\ Scrubbed(r).key = Unique
             /\ Scrubbed(r).requester = "system" /\ Scrubbed(r).status \notin OpenStatus
             /\ Scrubbed(r).status = "absent" <=> r.status = "absent"
  <2> DEFINE s == IF r.status \in OpenStatus THEN "cancelled" ELSE r.status
             r1 == [r EXCEPT !.status = s]
             r2 == [r1 EXCEPT !.key = Unique]
             r3 == [r2 EXCEPT !.requester = "system"]
             r4 == [r3 EXCEPT !.about = "system"]
             r5 == [r4 EXCEPT !.payload = FALSE]
  <2>1. s \in Statuses /\ s \notin OpenStatus /\ (s = "absent" <=> r.status = "absent")
    BY DEF Row, Statuses, OpenStatus
  <2>2. Scrubbed(r) = [r5 EXCEPT !.error = FALSE]
    BY DEF Scrubbed
  <2> HIDE DEF s
  <2>3. r1 \in Row /\ r1.status = s
    BY <2>1 DEF Row
  <2> HIDE DEF r1
  <2>4. r2 \in Row /\ r2.status = s /\ r2.key = Unique
    BY <2>3 DEF Row
  <2> HIDE DEF r2
  <2>5. r3 \in Row /\ r3.status = s /\ r3.key = Unique /\ r3.requester = "system"
    BY <2>4 DEF Row
  <2> HIDE DEF r3
  <2>6. r4 \in Row /\ r4.status = s /\ r4.key = Unique /\ r4.requester = "system"
    BY <2>5 DEF Row
  <2> HIDE DEF r4
  <2>7. r5 \in Row /\ r5.status = s /\ r5.key = Unique /\ r5.requester = "system"
    BY <2>6 DEF Row
  <2> HIDE DEF r5
  <2> QED BY <2>1, <2>2, <2>7 DEF Row
<1>4. row' \in [Jobs -> Row]
  BY <1>1, <1>2, <1>3 DEF TypeOK
<1>5. /\ call' \in [Calls -> Call] /\ CallSound(c)'
      /\ \A d \in Calls \ {c} : call'[d] = call[d]
  BY <1>1, <1>2, EndedCall
<1>6. TypeOK'
  BY <1>1, <1>2, <1>4, <1>5 DEF TypeOK
<1>7. ASSUME NEW j \in Jobs PROVE JobSound(j)' /\ Advances(j)
  <2>1. CASE j \notin call[c].found
    BY <2>1, <1>1, Untouched DEF IInv
  <2>2. CASE j \in call[c].found
    <3>1. queue'[j].state = "deleted" /\ row[j] \in Row /\ row'[j] = Scrubbed(row[j])
      BY <2>2, <1>1, <1>2 DEF TypeOK
    <3>2. /\ row'[j].status \notin OpenStatus
          /\ row'[j].status = "absent" <=> row[j].status = "absent"
      BY <3>1, <1>3
    <3>3. Linked(j)'
      BY <3>1, <3>2, <1>1 DEF IInv, JobSound, Linked, Latest, Running, TakenAway
    <3>4. Awaited(j)' /\ Claimed(j)' /\ Settled(j)'
      BY <3>1, <3>2 DEF Awaited, Claimed, Settled, TakenAway, Over, Closed, OpenStatus
    <3>5. Advances(j)
      BY <3>1 DEF Advances, Over, Closed
    <3> QED BY <3>3, <3>4, <3>5 DEF JobSound
  <2> QED BY <2>1, <2>2
<1>8. RowsKeep
  <2> SUFFICES ASSUME NEW j \in Jobs
               PROVE  /\ row'[j].key \in {row[j].key, Unique}
                      /\ row'[j].requester = "operator" => row[j].requester = "operator"
    BY DEF RowsKeep
  <2>1. row[j] \in Row
    BY <1>2 DEF TypeOK
  <2>2. CASE j \in call[c].found
    BY <2>1, <2>2, <1>1, <1>3
  <2>3. CASE j \notin call[c].found
    BY <2>3, <1>1
  <2> QED BY <2>2, <2>3
<1> QED BY <1>1, <1>5, <1>6, <1>7, <1>8, CallStep

\* A redrive that has read its row.
LEMMA RedrivePreserves ==
  ASSUME IInv, NEW c \in Calls, NEW x \in Jobs, Redrive(c, x)
  PROVE  IInv'
<1> DEFINE k1 == [call[c] EXCEPT !.op = "enqueue"]
           k2 == [k1 EXCEPT !.job = x]
           k3 == [k2 EXCEPT !.payload = row[x].payload]
           k == [k3 EXCEPT !.about = row[x].about]
<1>1. TypeOK /\ call[c] \in Call /\ row[x].payload \in BOOLEAN
      /\ row[x].about \in {"account", "system"}
  BY DEF IInv, TypeOK, Row
<1>2. /\ call[c].op = "idle" /\ UNCHANGED <<row, queue, exec, audit, worker, faults>>
      /\ CallBecomes(c, k)
  BY DEF Redrive, CallBecomes
<1>3. k1 \in Call /\ k1.op = "enqueue"
  BY <1>1 DEF Call, Ops
<1> HIDE DEF k1
<1>4. k2 \in Call /\ k2.op = "enqueue" /\ k2.job = x
  BY <1>3 DEF Call
<1> HIDE DEF k2
<1>5. k3 \in Call /\ k3.op = "enqueue" /\ k3.job = x
  BY <1>1, <1>4 DEF Call
<1> HIDE DEF k3
<1>6. k \in Call /\ k.op = "enqueue" /\ k.job = x
  BY <1>1, <1>5 DEF Call
<1> HIDE DEF k
<1>7. call' \in [Calls -> Call] /\ call'[c] = k /\ \A d \in Calls \ {c} : call'[d] = call[d]
  BY <1>1, <1>2, <1>6, OneCall
<1>8. TypeOK'
  BY <1>1, <1>2, <1>7 DEF TypeOK
<1>9. (\A j \in Jobs : JobSound(j)' /\ Advances(j)) /\ RowsKeep
  BY <1>2, JobsRest
<1>10. CallSound(c)'
  BY <1>6, <1>7 DEF CallSound
<1> QED BY <1>2, <1>7, <1>8, <1>9, <1>10, CallStep

\* The replacement of a redrive is one that the call has yet to record,
LEMMA RedriveEnqueuePreserves ==
  ASSUME IInv, NEW c \in Calls, NEW x \in Jobs, RedriveEnqueue(c, x)
  PROVE  IInv'
<1> DEFINE k1 == [call[c] EXCEPT !.op = "record"]
           k2 == [k1 EXCEPT !.found = {x}]
           k3 == [k2 EXCEPT !.about = "system"]
           k == [k3 EXCEPT !.payload = FALSE]
<1>1. TypeOK /\ call[c] \in Call /\ call[c].about \in {"account", "system"}
  BY DEF IInv, TypeOK, Call
<1>2. /\ call[c].op = "enqueue" /\ UNCHANGED <<exec, audit, worker, faults>>
      /\ CallBecomes(c, k) /\ Reserve(x, Unique, "operator", call[c].about)
  BY DEF RedriveEnqueue, CallBecomes
<1>3. call[c].job \in Jobs
  BY <1>2 DEF IInv, CallSound
<1>4. k1 \in Call /\ k1.op = "record" /\ k1.job = call[c].job
  BY <1>1 DEF Call, Ops
<1> HIDE DEF k1
<1>5. k2 \in Call /\ k2.op = "record" /\ k2.job = call[c].job /\ k2.found = {x}
  BY <1>4 DEF Call
<1> HIDE DEF k2
<1>6. k3 \in Call /\ k3.op = "record" /\ k3.job = call[c].job /\ k3.found = {x}
  BY <1>5 DEF Call
<1> HIDE DEF k3
<1>7. k \in Call /\ k.op = "record" /\ k.job = call[c].job /\ k.found = {x}
  BY <1>6 DEF Call
<1> HIDE DEF k
<1>8. call' \in [Calls -> Call] /\ call'[c] = k /\ \A d \in Calls \ {c} : call'[d] = call[d]
  BY <1>1, <1>2, <1>7, OneCall
<1>9. /\ row' \in [Jobs -> Row] /\ queue' \in [Jobs -> QueueJob] /\ Others(x)
      /\ JobSound(x)' /\ Advances(x) /\ OneJobPerKey'
  <2>1. Unique \in Keys \union {Unique} /\ "operator" \in {"user", "operator", "system"}
    OBVIOUS
  <2> QED BY <2>1, <1>1, <1>2, ReservePreserves
<1>10. TypeOK'
  BY <1>1, <1>2, <1>8, <1>9 DEF TypeOK
<1>11. \A j \in Jobs : JobSound(j)' /\ Advances(j)
  BY <1>9, Untouched DEF IInv, Others
<1>12. CallSound(c)'
  BY <1>3, <1>7, <1>8 DEF CallSound
<1>13. \A d \in Calls : CallSound(d)'
  BY <1>8, <1>11, <1>12, CallsRest DEF IInv, TypeOK
<1>14. RedrivesAreRecorded'
  <2> SUFFICES ASSUME NEW j \in Jobs, faults = 0, row'[j].requester = "operator"
               PROVE  \/ \E y \in audit : y.action = "redrive" /\ y.replacement = j
                      \/ \E d \in Calls : call'[d].op = "record" /\ call'[d].found = {j}
    BY <1>2 DEF RedrivesAreRecorded
  <2>1. CASE j = x
    BY <2>1, <1>7, <1>8
  <2>2. CASE j # x
    <3>1. row[j].requester = "operator"
      BY <2>2, <1>9 DEF Others
    <3>2. CASE \E d \in Calls : call[d].op = "record" /\ call[d].found = {j}
      BY <3>2, <1>2, <1>8
    <3> QED BY <3>1, <3>2 DEF IInv, RedrivesAreRecorded
  <2> QED BY <2>1, <2>2
<1>15. Stopped'
  BY <1>2 DEF IInv, Stopped, Running
<1> QED BY <1>9, <1>10, <1>11, <1>13, <1>14, <1>15 DEF IInv

\* a call that breaks off is a fault, and
LEMMA RefusedOrFailedPreserves ==
  ASSUME IInv, NEW c \in Calls, RedriveRefused(c) \/ CallFails(c)
  PROVE  IInv'
<1>1. /\ UNCHANGED <<row, queue, exec, audit, worker>> /\ End(c, "done")
      /\ faults' \in 0..MaxFaults
      /\ faults' = 0 => faults = 0 /\ call[c].op # "record"
  BY FaultsAssumption DEF RedriveRefused, CallFails, Fault, IInv, TypeOK
<1>2. TypeOK
  BY DEF IInv
<1>3. /\ call' \in [Calls -> Call] /\ CallSound(c)'
      /\ \A d \in Calls \ {c} : call'[d] = call[d]
  BY <1>1, <1>2, EndedCall
<1>4. TypeOK'
  BY <1>1, <1>2, <1>3 DEF TypeOK
<1>5. (\A j \in Jobs : JobSound(j)' /\ Advances(j)) /\ RowsKeep
  BY <1>1, JobsRest
<1> QED BY <1>1, <1>3, <1>4, <1>5, CallStep

\* the audit has it before the call forgets it.
LEMMA RedriveRecordPreserves ==
  ASSUME IInv, NEW c \in Calls, RedriveRecord(c)
  PROVE  IInv'
<1> DEFINE written == {[action |-> "redrive", job |-> call[c].job, replacement |-> i] :
                         i \in call[c].found}
<1>1. /\ UNCHANGED <<row, queue, exec, worker, faults>> /\ End(c, "done")
      /\ audit' = audit \union written
      /\ call[c].op = "record"
  BY DEF RedriveRecord
<1>2. TypeOK /\ call[c].job \in Jobs /\ call[c].found \subseteq Jobs
  BY <1>1 DEF IInv, CallSound, TypeOK, Call
<1>3. /\ call' \in [Calls -> Call] /\ CallSound(c)'
      /\ \A d \in Calls \ {c} : call'[d] = call[d]
  BY <1>1, <1>2, EndedCall
<1>4. TypeOK'
  <2>1. written \subseteq Action
    BY <1>2 DEF Action
  <2> HIDE DEF written
  <2> QED BY <2>1, <1>1, <1>2, <1>3 DEF TypeOK
<1>5. (\A j \in Jobs : JobSound(j)' /\ Advances(j)) /\ RowsKeep
  BY <1>1, JobsRest
<1>6. \A d \in Calls : CallSound(d)'
  BY <1>3, <1>5, CallsRest DEF IInv, TypeOK
<1>7. OneJobPerKey'
  BY <1>5, KeysStay DEF IInv
<1>8. RedrivesAreRecorded'
  <2> SUFFICES ASSUME NEW j \in Jobs, faults = 0, row[j].requester = "operator"
               PROVE  \/ \E y \in audit' : y.action = "redrive" /\ y.replacement = j
                      \/ \E d \in Calls : call'[d].op = "record" /\ call'[d].found = {j}
    BY <1>1 DEF RedrivesAreRecorded
  <2>1. CASE \E y \in audit : y.action = "redrive" /\ y.replacement = j
    BY <2>1, <1>1
  <2>2. ASSUME NEW d \in Calls, call[d].op = "record", call[d].found = {j}
        PROVE  \/ \E y \in audit' : y.action = "redrive" /\ y.replacement = j
               \/ \E e \in Calls : call'[e].op = "record" /\ call'[e].found = {j}
    <3>1. CASE d # c
      BY <3>1, <2>2, <1>3
    <3>2. CASE d = c
      <4> DEFINE y == [action |-> "redrive", job |-> call[c].job, replacement |-> j]
      <4>1. y \in audit'
        BY <3>2, <2>2, <1>1
      <4> QED BY <4>1
    <3> QED BY <3>1, <3>2
  <2> QED BY <2>1, <2>2 DEF IInv, RedrivesAreRecorded
<1>9. Stopped'
  BY <1>1 DEF IInv, Stopped, Running
<1> QED BY <1>4, <1>5, <1>6, <1>7, <1>8, <1>9 DEF IInv

-----------------------------------------------------------------------------
\* No job at first.
LEMMA InitSound == Init => IInv
<1> SUFFICES ASSUME Init PROVE IInv
  OBVIOUS
<1>1. TypeOK
  <2>1. NoRow \in Row
    BY DEF NoRow, Row, Statuses
  <2>2. Unstarted \in Execution
    BY DEF Unstarted, Execution, Phases, Verdicts
  <2>3. NoCall \in Call
    BY DEF NoCall, Call, Ops
  <2>4. [state |-> "absent", attempt |-> 0] \in QueueJob
    BY AttemptsAssumption DEF QueueJob, QueueStates
  <2> QED BY <2>1, <2>2, <2>3, <2>4, FaultsAssumption DEF Init, TypeOK
<1>2. ASSUME NEW j \in Jobs
      PROVE  /\ row[j].status = "absent" /\ row[j].key = Unique /\ row[j].requester = "system"
             /\ queue[j].state = "absent"
  BY DEF Init, NoRow
<1>3. \A e \in Execs : exec[e].phase = "idle" /\ ~exec[e].aborted
  BY DEF Init, Unstarted
<1>4. \A j \in Jobs, a \in Attempts : exec[<<j, a>>].phase = "idle" /\ ~exec[<<j, a>>].aborted
  BY <1>3 DEF Execs
<1>5. \A j \in Jobs : JobSound(j)
  BY <1>2, <1>4 DEF JobSound, Linked, Awaited, Claimed, Settled, Open, OpenStatus, Running
<1>6. \A c \in Calls : CallSound(c)
  BY DEF Init, NoCall, CallSound
<1>7. Stopped /\ OneJobPerKey /\ RedrivesAreRecorded
  BY <1>2 DEF Init, Stopped, OneJobPerKey, RedrivesAreRecorded
<1> QED BY <1>1, <1>5, <1>6, <1>7 DEF IInv

\* All steps together.
LEMMA StepPreserves == IInv /\ [Next]_vars => IInv'
<1> SUFFICES ASSUME IInv, [Next]_vars PROVE IInv'
  OBVIOUS
<1>1. ASSUME NEW e \in Execs,
             Work(e) \/ TimeOut(e) \/ Expire(e) \/ WriteFails(e) \/ RereadFails(e)
      PROVE  IInv'
  <2>1. PICK x \in Jobs, a \in Attempts : e = <<x, a>>
    BY DEF Execs
  <2> QED BY <1>1, <2>1, ClaimPreserves, ConcludePreserves, ReturnPreserves, TimeOutPreserves,
             ExpirePreserves, WriteFailsPreserves, RereadFailsPreserves DEF Work
<1>2. ASSUME NEW c \in Calls, Serve(c)
      PROVE  IInv'
  BY <1>2, CancelDequeuePreserves, MarkPreserves, ScrubRemovePreserves, ScrubRowsPreserves,
     RedriveEnqueuePreserves, RefusedOrFailedPreserves, RedriveRecordPreserves DEF Serve
<1>3. CASE UNCHANGED vars
  <2>1. UNCHANGED <<row, queue, exec, call, audit, worker, faults>>
    BY <1>3 DEF vars
  <2>2. TypeOK'
    BY <2>1 DEF IInv, TypeOK
  <2>3. (\A j \in Jobs : JobSound(j)' /\ Advances(j)) /\ RowsKeep
    BY <2>1, JobsRest
  <2>4. \A c \in Calls : CallSound(c)'
    BY <2>1, <2>3, CallsRest DEF IInv, TypeOK
  <2>5. OneJobPerKey' /\ RedrivesAreRecorded'
    BY <2>1, <2>3, KeysStay, RecordsStay DEF IInv
  <2>6. Stopped'
    BY <2>1 DEF IInv, Stopped, Running
  <2> QED BY <2>2, <2>3, <2>4, <2>5, <2>6 DEF IInv
<1> QED BY <1>1, <1>2, <1>3, EnqueuePreserves, DeliverPreserves, WorkerPreserves, DiePreserves,
           BeginPreserves, ScrubPreserves, RedrivePreserves, RefusedOrFailedPreserves DEF Next

\* What the invariant says of the rows.
LEMMA InvariantSuffices == IInv => RowsAreSound
<1> SUFFICES ASSUME IInv PROVE RowsAreSound
  OBVIOUS
<1>1. TypeOK /\ RedrivesAreRecorded /\ OneJobPerKey
  BY DEF IInv
<1>2. OpenRowsAreWorkedOn
  <2> SUFFICES ASSUME NEW j \in Jobs, Open(j)
               PROVE  queue[j].state \in OpenQueue \/ InHand(j) \/ TakenAway(j) \/ SomeLost(j)
    BY DEF OpenRowsAreWorkedOn
  <2>1. Awaited(j)
    BY DEF IInv, JobSound
  <2> QED BY <2>1 DEF Awaited, InHand, Running, OpenQueue
<1>3. SettledRowsRest
  <2> SUFFICES ASSUME NEW j \in Jobs, ~Open(j), queue[j].state \in OpenQueue
               PROVE  InHand(j) \/ Disturbed(j)
    BY DEF SettledRowsRest
  <2>1. Linked(j) /\ Settled(j)
    BY DEF IInv, JobSound
  <2>2. Disturbed(j) \/ Over(j, ClosingVerdicts)
    BY <2>1 DEF Linked, Settled, OpenQueue
  <2>3. CASE Over(j, ClosingVerdicts)
    BY <2>1, <2>3 DEF Over, Closed, OpenQueue, Linked, Latest, InHand, Running
  <2> QED BY <2>2, <2>3
<1>4. ShutdownLeavesNothingRunning
  <2> SUFFICES ASSUME NEW j \in Jobs, worker = "down", row[j].status = "running"
               PROVE  SomeLost(j)
    BY DEF ShutdownLeavesNothingRunning
  <2>1. \A a \in Attempts : exec[<<j, a>>].phase # "run"
    BY DEF IInv, Stopped, Running, Execs
  <2> QED BY <2>1 DEF IInv, JobSound, Claimed
<1> QED BY <1>1, <1>2, <1>3, <1>4 DEF RowsAreSound

\* The rows, their queue jobs, their executions and the calls fit together in every
\* state, whatever fails and however executions and calls overlap.
THEOREM Inductive == Spec => []IInv
BY InitSound, StepPreserves, PTL DEF Spec

\* A row that promises work has a delivery to come, an execution, or a call or a lost
\* execution that explains why not; a settled row has no delivery to come unless an
\* execution timed out or was not heard; redriven work is on record; a stopped worker
\* leaves no row running; and one key has one job (executeJob, cancel,
\* cancelByRequester, redrive, discard and shutdown of pg-boss.ts).
THEOREM RowsAreSoundHolds == Spec => []RowsAreSound
BY Inductive, InvariantSuffices, PTL

=============================================================================
