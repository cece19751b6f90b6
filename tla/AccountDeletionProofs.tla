------------------------- MODULE AccountDeletionProofs -------------------------
(***************************************************************************)
(* CompletedIsEarned and IdentityGoesLast for any number of calls,         *)
(* requests, jobs and faults, with calls overlapping or not, and           *)
(* ExportsEndWithAccount for exports that cross them.                      *)
(***************************************************************************)
EXTENDS AccountExport, TLAPS

\* What a checklist records as done was done at least once; a revocation may
\* stand for the deletion of the identity.
Lasting == Steps \ {"sessionRevocation"}
Earned(steps, done) == \A s \in Lasting : steps[s] = "succeeded" => s \in done

OnStep == {"check", "dequeue", "scrub", "mark"}

\* A call reaches a step only after the steps before it that must not fail.
InOrder(x, done) ==
  /\ x.step \in {"liveDataDeletion", "authIdentityDeletion"} => "jobCancellation" \in done
  /\ x.step = "authIdentityDeletion" => "liveDataDeletion" \in done

\* What a call knows and where it is, against the operations carried out.
Sound(x, done) ==
  /\ Earned(x.seen, done)
  /\ x.phase = "mark" /\ x.outcome = "succeeded" => x.step \in done
  /\ x.phase \in {"dequeue", "scrub"} => x.step = "jobCancellation"
  /\ x.phase \in OnStep => InOrder(x, done)

ReceiptSound ==
  /\ Earned(receipt.steps, effects)
  /\ receipt.status = "completed" => Completed(receipt.steps)

IdentityGone ==
  /\ "authIdentityDeletion" \in effects => ~identity
  /\ ~identity => ~sessions

\* The inductive invariant.
IInv ==
  /\ TypeOK
  /\ ReceiptSound
  /\ \A c \in Calls : Sound(call[c], effects)
  /\ IdentityGone
  /\ IdentityGoesLast

-----------------------------------------------------------------------------
(* The operators that move a call along.                                   *)

LEMMA MarkedIsReceipt == ASSUME NEW steps \in Checklist PROVE Marked(steps) \in Receipt
BY DEF Marked, Receipt, Completed

LEMMA TakeIsCall == ASSUME NEW x \in Call, NEW r \in Receipt PROVE Take(x, r) \in Call
BY DEF Take, Call, CallPhases, Steps, Receipt

LEMMA ProceedIsCall == ASSUME NEW x \in Call PROVE Proceed(x) \in Call
BY DEF Proceed, Following, Call, CallPhases, Steps

LEMMA AfterMarkIsCall == ASSUME NEW x \in Call PROVE AfterMark(x) \in Call
BY ProceedIsCall DEF AfterMark, Call, CallPhases

LEMMA SoundGrows ==
  ASSUME NEW x \in Call, NEW old \in SUBSET Steps, NEW new \in SUBSET Steps,
         old \subseteq new, Sound(x, old)
  PROVE  Sound(x, new)
BY DEF Sound, Earned, InOrder

LEMMA TakeIsSound ==
  ASSUME NEW x \in Call, NEW r \in Receipt, NEW done \in SUBSET Steps,
         Sound(x, done), Earned(r.steps, done)
  PROVE  Sound(Take(x, r), done)
BY DEF Take, Sound, Earned, InOrder, Call, Receipt, OnStep, Checklist

LEMMA ProceedIsSound ==
  ASSUME NEW x \in Call, NEW done \in SUBSET Steps, Sound(x, done), x.phase \in OnStep,
         x.step = "sessionRevocation" \/ x.step \in done
  PROVE  Sound(Proceed(x), done)
BY DEF Proceed, Following, Sound, Earned, InOrder, Call, OnStep, Steps

LEMMA AfterMarkIsSound ==
  ASSUME NEW x \in Call, NEW done \in SUBSET Steps, Sound(x, done), x.phase = "mark"
  PROVE  Sound(AfterMark(x), done)
<1>1. CASE x.outcome = "failed" /\ x.step \in {"jobCancellation", "liveDataDeletion"}
  BY <1>1 DEF AfterMark, Sound, Earned, Call, OnStep
<1>2. CASE ~(x.outcome = "failed" /\ x.step \in {"jobCancellation", "liveDataDeletion"})
  <2> AfterMark(x) = Proceed(x)
    BY <1>2 DEF AfterMark
  <2> QED BY <1>2 DEF Sound, Earned, Call, OnStep, Proceed, Following, Steps, InOrder
<1> QED BY <1>1, <1>2

-----------------------------------------------------------------------------
(* Type correctness.                                                       *)

LEMMA GotoKeepsType ==
  ASSUME NEW c \in Calls, NEW phase \in CallPhases, call \in [Calls -> Call], Goto(c, phase)
  PROVE  call' \in [Calls -> Call]
BY DEF Goto, Call

LEMMA AnsweredKeepsType ==
  ASSUME NEW c \in Calls, NEW outcome \in {"succeeded", "failed"}, call \in [Calls -> Call],
         Answered(c, outcome)
  PROVE  call' \in [Calls -> Call]
BY DEF Answered, Call, CallPhases

LEMMA AdvanceType == ASSUME TypeOK, NEW c \in Calls, Advance(c) PROVE TypeOK'
<1> DEFINE x == call[c]
<1> x \in Call
  BY DEF TypeOK
<1>1. CASE Begin(c)
  BY <1>1, TakeIsCall DEF Begin, TypeOK, Call, CallPhases
<1>2. CASE Create(c)
  <2>1. Marked(Fresh) \in Receipt
    BY MarkedIsReceipt DEF Fresh, Checklist, StepStates
  <2>2. receipt' \in Receipt
    BY <1>2, <2>1 DEF Create, TypeOK
  <2>3. call' \in [Calls -> Call]
    BY <1>2, <2>2, TakeIsCall DEF Create, TypeOK
  <2> QED BY <1>2, <2>2, <2>3 DEF Create, TypeOK
<1>3. CASE Skip(c)
  BY <1>3, ProceedIsCall DEF Skip, TypeOK
<1>4. CASE RevokeSessions(c)
  BY <1>4, AnsweredKeepsType DEF RevokeSessions, TypeOK, Steps
<1>5. CASE ReadJobs(c)
  BY <1>5 DEF ReadJobs, TypeOK, Call, CallPhases
<1>6. CASE DequeueJobs(c)
  BY <1>6, GotoKeepsType DEF DequeueJobs, TypeOK, CallPhases
<1>7. CASE ScrubJobs(c)
  <2>1. job' \in [Jobs -> JobRow]
    BY <1>7 DEF ScrubJobs, TypeOK, Scrubbed, JobRow
  <2> QED BY <1>7, <2>1, AnsweredKeepsType DEF ScrubJobs, TypeOK, Steps
<1>8. CASE Purge(c)
  <2>1. receipt' \in Receipt
    BY <1>8 DEF Purge, TypeOK, Receipt
  <2> QED BY <1>8, <2>1, AnsweredKeepsType DEF Purge, TypeOK, Steps
<1>9. CASE PurgeRefused(c)
  BY <1>9, AnsweredKeepsType DEF PurgeRefused, TypeOK
<1>10. CASE DeleteIdentity(c)
  BY <1>10, AnsweredKeepsType DEF DeleteIdentity, TypeOK, Steps
<1>11. CASE Mark(c)
  <2> DEFINE steps == [receipt.steps EXCEPT ![x.step] = x.outcome]
  <2>1. steps \in Checklist
    BY DEF TypeOK, Receipt, Checklist, Call, StepStates
  <2>2. [x EXCEPT !.seen = steps] \in Call
    BY <2>1 DEF Call
  <2>3. call' \in [Calls -> Call]
    BY <1>11, <2>2, AfterMarkIsCall DEF Mark, TypeOK
  <2> QED BY <1>11, <2>1, <2>3, MarkedIsReceipt DEF Mark, TypeOK
<1>12. CASE Confirm(c)
  <2>1. [receipt.steps EXCEPT !["sessionRevocation"] = "succeeded"] \in Checklist
    BY DEF TypeOK, Receipt, Checklist, StepStates, Steps
  <2>2. receipt' \in Receipt
    BY <1>12, <2>1, MarkedIsReceipt DEF Confirm, TypeOK
  <2> QED BY <1>12, <2>2, GotoKeepsType DEF Confirm, TypeOK, CallPhases
<1> QED BY <1>1, <1>2, <1>3, <1>4, <1>5, <1>6, <1>7, <1>8, <1>9, <1>10, <1>11, <1>12 DEF Advance

LEMMA OthersType ==
  ASSUME TypeOK, \/ \E c \in Calls : Start(c) \/ OperationFails(c) \/ Interrupt(c)
                 \/ \E q \in Requests : Serve(q)
                 \/ SignIn
                 \/ \E j \in Jobs : Fetch(j) \/ RunJob(j) \/ FinishJob(j)
  PROVE  TypeOK'
<1>1. ASSUME NEW c \in Calls, Start(c) PROVE TypeOK'
  BY <1>1, GotoKeepsType DEF Start, TypeOK, CallPhases
<1>2. ASSUME NEW c \in Calls, OperationFails(c) PROVE TypeOK'
  BY <1>2, FaultsAssumption, AnsweredKeepsType DEF OperationFails, Fault, TypeOK
<1>3. ASSUME NEW c \in Calls, Interrupt(c) PROVE TypeOK'
  BY <1>3, FaultsAssumption, GotoKeepsType DEF Interrupt, Fault, TypeOK, CallPhases
<1>4. ASSUME NEW q \in Requests, Serve(q) PROVE TypeOK'
  <2>1. CASE Admit(q)
    BY <2>1 DEF Admit, TypeOK
  <2>2. CASE Provision(q)
    BY <2>2 DEF Provision, TypeOK
  <2>3. CASE Reserve(q)
    BY <2>3 DEF Reserve, TypeOK
  <2>4. CASE Enqueue(q)
    <3>1. QueuedJob \in JobRow
      BY DEF QueuedJob, JobRow
    <3>2. job' \in [Jobs -> JobRow] /\ queued' \in SUBSET Jobs
      BY <2>4, <3>1 DEF Enqueue, TypeOK
    <3> QED BY <2>4, <3>2 DEF Enqueue, TypeOK
  <2> QED BY <1>4, <2>1, <2>2, <2>3, <2>4 DEF Serve
<1>5. CASE SignIn
  BY <1>5 DEF SignIn, TypeOK
<1>6. ASSUME NEW j \in Jobs, Fetch(j) \/ RunJob(j) \/ FinishJob(j) PROVE TypeOK'
  BY <1>6 DEF Fetch, RunJob, FinishJob, TypeOK, JobRow
<1> QED BY <1>1, <1>2, <1>3, <1>4, <1>5, <1>6

LEMMA InitType == Init => TypeOK
<1> SUFFICES ASSUME Init PROVE TypeOK
  OBVIOUS
<1>1. Fresh \in Checklist
  BY DEF Fresh, Checklist, StepStates
<1>2. receipt \in Receipt
  BY <1>1 DEF Init, Receipt
<1>3. job \in [Jobs -> JobRow]
  BY DEF Init, JobRow, NoJob, QueuedJob
<1>4. call \in [Calls -> Call]
  BY <1>1 DEF Init, Call, CallPhases, Steps
<1> QED BY <1>2, <1>3, <1>4 DEF Init, TypeOK

LEMMA NextType == TypeOK /\ [Next]_vars => TypeOK'
<1>1. TypeOK /\ UNCHANGED vars => TypeOK'
  BY DEF TypeOK, vars
<1>2. TypeOK /\ Next => TypeOK'
  BY AdvanceType, OthersType DEF Next
<1> QED BY <1>1, <1>2

\* The state of the deletion stays within its declared sets, for every set of
\* calls, requests and jobs and every number of faults.
THEOREM TypeCorrect == Spec => []TypeOK
BY InitType, NextType, PTL DEF Spec

-----------------------------------------------------------------------------
(* The inductive invariant.                                                *)

LEMMA InitIInv == Init => IInv
<1> SUFFICES ASSUME Init PROVE IInv
  OBVIOUS
<1>1. TypeOK
  BY InitType
<1>2. ReceiptSound
  BY DEF Init, ReceiptSound, Earned, Lasting, Fresh
<1>3. \A c \in Calls : Sound(call[c], effects)
  BY DEF Init, Sound, Earned, Lasting, Fresh, OnStep, InOrder
<1> QED BY <1>1, <1>2, <1>3 DEF Init, IInv, IdentityGone, IdentityGoesLast

\* Steps that touch neither the calls, nor the receipt, nor the identity.
LEMMA QuietKeepsIInv ==
  ASSUME IInv, TypeOK', UNCHANGED <<receipt, call, effects, identity>>,
         (sessions' = sessions) \/ identity
  PROVE  IInv'
BY DEF IInv, ReceiptSound, Sound, Earned, InOrder, Completed, IdentityGone, IdentityGoesLast

\* A step of call c that carries out operations: the other calls stay sound.
LEMMA CallStepKeepsIInv ==
  ASSUME IInv, TypeOK', NEW c \in Calls, effects \subseteq effects',
         \A d \in Calls : d # c => call'[d] = call[d],
         Sound(call'[c], effects'), ReceiptSound', IdentityGone', IdentityGoesLast'
  PROVE  IInv'
<1>1. ASSUME NEW d \in Calls, d # c PROVE Sound(call'[d], effects')
  <2>1. call[d] \in Call /\ effects \in SUBSET Steps /\ effects' \in SUBSET Steps
    BY DEF IInv, TypeOK
  <2>2. Sound(call[d], effects)
    BY DEF IInv
  <2>3. Sound(call[d], effects')
    BY <2>1, <2>2, SoundGrows
  <2> QED BY <1>1, <2>3
<1>2. \A d \in Calls : Sound(call'[d], effects')
  BY <1>1
<1> QED BY <1>2 DEF IInv

\* A step of call c that carries nothing out and leaves the receipt alone.
LEMMA PureCallStepKeepsIInv ==
  ASSUME IInv, TypeOK', NEW c \in Calls, UNCHANGED <<receipt, effects, identity, sessions>>,
         \A d \in Calls : d # c => call'[d] = call[d],
         Sound(call'[c], effects)
  PROVE  IInv'
<1>1. ReceiptSound' /\ IdentityGone' /\ IdentityGoesLast'
  BY DEF IInv, ReceiptSound, Earned, Completed, IdentityGone, IdentityGoesLast
<1> QED BY <1>1, CallStepKeepsIInv

LEMMA MarkedIsSound ==
  ASSUME NEW steps \in Checklist, NEW done \in SUBSET Steps, Earned(steps, done)
  PROVE  /\ Earned(Marked(steps).steps, done)
         /\ Marked(steps).status = "completed" => Completed(Marked(steps).steps)
BY DEF Marked, Completed

LEMMA AdvanceKeepsIInv ==
  ASSUME IInv, TypeOK', NEW c \in Calls, Advance(c)
  PROVE  IInv'
<1> DEFINE x == call[c]
<1>0. /\ x \in Call /\ Sound(x, effects) /\ effects \in SUBSET Steps /\ effects' \in SUBSET Steps
      /\ receipt \in Receipt /\ Earned(receipt.steps, effects)
  BY DEF IInv, TypeOK, ReceiptSound
<1>1. CASE Begin(c)
  <2>1. Sound(call'[c], effects)
    <3>1. CASE tombstone
      BY <1>0, <1>1, <3>1, TakeIsSound DEF Begin, IInv, TypeOK
    <3>2. CASE ~tombstone
      BY <1>0, <1>1, <3>2 DEF Begin, IInv, TypeOK, Sound, OnStep, InOrder, Call
    <3> QED BY <3>1, <3>2
  <2> QED BY <1>1, <2>1, PureCallStepKeepsIInv DEF Begin, IInv, TypeOK
<1>2. CASE Create(c)
  <2>1. Fresh \in Checklist /\ Earned(Fresh, effects)
    BY DEF Fresh, Checklist, StepStates, Earned, Lasting
  <2>2. /\ receipt' \in Receipt
        /\ Earned(receipt'.steps, effects)
        /\ receipt'.status = "completed" => Completed(receipt'.steps)
    <3>1. CASE tombstone
      BY <1>0, <1>2, <3>1 DEF Create, IInv, ReceiptSound
    <3>2. CASE ~tombstone
      BY <1>0, <1>2, <2>1, <3>2, MarkedIsSound, MarkedIsReceipt DEF Create
    <3> QED BY <3>1, <3>2
  <2>3. call' = [call EXCEPT ![c] = Take(x, receipt')] /\ UNCHANGED <<effects, identity, sessions>>
    BY <1>2 DEF Create
  <2>4. Sound(call'[c], effects')
    BY <1>0, <2>2, <2>3, TakeIsSound DEF IInv, TypeOK
  <2>5. ReceiptSound' /\ IdentityGone' /\ IdentityGoesLast'
    BY <2>2, <2>3 DEF IInv, ReceiptSound, Earned, Completed, IdentityGone, IdentityGoesLast
  <2> QED BY <2>3, <2>4, <2>5, CallStepKeepsIInv DEF IInv, TypeOK
<1>3. CASE Skip(c)
  <2>1. x.phase \in OnStep /\ (x.step = "sessionRevocation" \/ x.step \in effects)
    BY <1>0, <1>3 DEF Skip, At, OnStep, Sound, Earned, Lasting, Call
  <2>2. Sound(call'[c], effects)
    BY <1>0, <1>3, <2>1, ProceedIsSound DEF Skip, IInv, TypeOK
  <2> QED BY <1>3, <2>2, PureCallStepKeepsIInv DEF Skip, IInv, TypeOK
<1>4. CASE RevokeSessions(c)
  <2>1. /\ Sound(call'[c], effects') /\ effects \subseteq effects'
        /\ \A d \in Calls : d # c => call'[d] = call[d]
    BY <1>0, <1>4 DEF RevokeSessions, Answered, Due, At, IInv, TypeOK, Sound, Earned, OnStep, InOrder, Call
  <2>2. ReceiptSound' /\ IdentityGone' /\ IdentityGoesLast'
    BY <1>4 DEF RevokeSessions, IInv, ReceiptSound, Earned, Completed, IdentityGone, IdentityGoesLast
  <2> QED BY <2>1, <2>2, CallStepKeepsIInv
<1>5. CASE ReadJobs(c)
  <2>1. Sound(call'[c], effects)
    BY <1>0, <1>5 DEF ReadJobs, Due, At, IInv, TypeOK, Sound, Earned, OnStep, InOrder, Call
  <2> QED BY <1>5, <2>1, PureCallStepKeepsIInv DEF ReadJobs, IInv, TypeOK
<1>6. CASE DequeueJobs(c)
  <2>1. Sound(call'[c], effects)
    BY <1>0, <1>6 DEF DequeueJobs, Goto, At, IInv, TypeOK, Sound, Earned, OnStep, InOrder, Call
  <2> QED BY <1>6, <2>1, PureCallStepKeepsIInv DEF DequeueJobs, Goto, IInv, TypeOK
<1>7. CASE ScrubJobs(c)
  <2>1. /\ Sound(call'[c], effects') /\ effects \subseteq effects'
        /\ \A d \in Calls : d # c => call'[d] = call[d]
    BY <1>0, <1>7 DEF ScrubJobs, Answered, At, IInv, TypeOK, Sound, Earned, OnStep, InOrder, Call
  <2>2. ReceiptSound' /\ IdentityGone' /\ IdentityGoesLast'
    BY <1>7 DEF ScrubJobs, IInv, ReceiptSound, Earned, Completed, IdentityGone, IdentityGoesLast
  <2> QED BY <2>1, <2>2, CallStepKeepsIInv
<1>8. CASE Purge(c)
  <2>1. /\ Sound(call'[c], effects') /\ effects \subseteq effects'
        /\ \A d \in Calls : d # c => call'[d] = call[d]
    BY <1>0, <1>8 DEF Purge, Answered, Due, At, IInv, TypeOK, Sound, Earned, OnStep, InOrder, Call
  <2>2. receipt'.steps = receipt.steps /\ (receipt'.status = "completed" => receipt.status = "completed")
    BY <1>0, <1>8 DEF Purge, Receipt
  <2>3. ReceiptSound' /\ IdentityGone' /\ IdentityGoesLast'
    BY <1>8, <2>2 DEF Purge, IInv, ReceiptSound, Earned, Completed, IdentityGone, IdentityGoesLast
  <2> QED BY <2>1, <2>3, CallStepKeepsIInv
<1>9. CASE PurgeRefused(c)
  <2>1. Sound(call'[c], effects)
    BY <1>0, <1>9 DEF PurgeRefused, Answered, Due, At, IInv, TypeOK, Sound, Earned, OnStep, InOrder, Call
  <2> QED BY <1>9, <2>1, PureCallStepKeepsIInv DEF PurgeRefused, Answered, IInv, TypeOK
<1>10. CASE DeleteIdentity(c)
  <2>1. /\ Sound(call'[c], effects') /\ effects \subseteq effects'
        /\ \A d \in Calls : d # c => call'[d] = call[d]
    BY <1>0, <1>10 DEF DeleteIdentity, Answered, Due, At, IInv, TypeOK, Sound, Earned, OnStep, InOrder, Call
  \* The call got here past the two steps that must not fail.
  <2>2. {"jobCancellation", "liveDataDeletion"} \subseteq effects
    BY <1>0, <1>10 DEF DeleteIdentity, Due, At, Sound, InOrder, OnStep
  <2>3. ReceiptSound' /\ IdentityGone' /\ IdentityGoesLast'
    BY <1>10, <2>2 DEF DeleteIdentity, IInv, ReceiptSound, Earned, Completed, IdentityGone, IdentityGoesLast
  <2> QED BY <2>1, <2>3, CallStepKeepsIInv
<1>11. CASE Mark(c)
  <2> DEFINE steps == [receipt.steps EXCEPT ![x.step] = x.outcome]
             y == [x EXCEPT !.seen = steps]
  <2>1. x.phase = "mark" /\ call' = [call EXCEPT ![c] = AfterMark(y)] /\ receipt' = Marked(steps)
        /\ UNCHANGED <<effects, identity, sessions>>
    BY <1>11 DEF Mark, At
  <2>2. steps \in Checklist /\ Earned(steps, effects)
    BY <1>0, <2>1 DEF Receipt, Checklist, Call, StepStates, Earned, Sound, Lasting
  <2>3. y \in Call /\ Sound(y, effects) /\ y.phase = "mark"
    BY <1>0, <2>1, <2>2 DEF Call, Sound, InOrder
  <2>4. Sound(AfterMark(y), effects)
    BY <1>0, <2>3, AfterMarkIsSound
  <2>5. Sound(call'[c], effects') /\ \A d \in Calls : d # c => call'[d] = call[d]
    BY <2>1, <2>4 DEF IInv, TypeOK
  <2>6. /\ Earned(receipt'.steps, effects)
        /\ receipt'.status = "completed" => Completed(receipt'.steps)
    BY <1>0, <2>1, <2>2, MarkedIsSound
  <2>7. ReceiptSound' /\ IdentityGone' /\ IdentityGoesLast'
    BY <2>1, <2>6 DEF IInv, ReceiptSound, Earned, Completed, IdentityGone, IdentityGoesLast
  <2> QED BY <2>1, <2>5, <2>7, CallStepKeepsIInv
<1>12. CASE Confirm(c)
  <2> DEFINE steps == [receipt.steps EXCEPT !["sessionRevocation"] = "succeeded"]
  <2>1. Sound(call'[c], effects') /\ (\A d \in Calls : d # c => call'[d] = call[d])
        /\ UNCHANGED <<effects, identity, sessions>>
    BY <1>0, <1>12 DEF Confirm, Goto, At, IInv, TypeOK, Sound, Earned, OnStep, InOrder, Call
  <2>2. steps \in Checklist /\ Earned(steps, effects)
    BY <1>0 DEF Receipt, Checklist, StepStates, Earned, Lasting, Steps
  <2>3. /\ Earned(receipt'.steps, effects)
        /\ receipt'.status = "completed" => Completed(receipt'.steps)
    BY <1>0, <1>12, <2>2, MarkedIsSound DEF Confirm, IInv, ReceiptSound
  <2>4. ReceiptSound' /\ IdentityGone' /\ IdentityGoesLast'
    BY <2>1, <2>3 DEF IInv, ReceiptSound, Earned, Completed, IdentityGone, IdentityGoesLast
  <2> QED BY <2>1, <2>4, CallStepKeepsIInv
<1> QED BY <1>1, <1>2, <1>3, <1>4, <1>5, <1>6, <1>7, <1>8, <1>9, <1>10, <1>11, <1>12 DEF Advance

LEMMA StoppingKeepsIInv ==
  ASSUME IInv, TypeOK', NEW c \in Calls, Start(c) \/ OperationFails(c) \/ Interrupt(c)
  PROVE  IInv'
<1> DEFINE x == call[c]
<1>0. x \in Call /\ Sound(x, effects)
  BY DEF IInv, TypeOK
<1>1. CASE Start(c)
  <2>1. Sound(call'[c], effects)
    BY <1>0, <1>1 DEF Start, Goto, IInv, TypeOK, Sound, Earned, OnStep, InOrder, Call
  <2> QED BY <1>1, <2>1, PureCallStepKeepsIInv DEF Start, Goto, IInv, TypeOK
<1>2. CASE OperationFails(c)
  <2>1. x.phase \in OnStep
    BY <1>2 DEF OperationFails, At, OnStep
  <2>2. Sound(call'[c], effects)
    BY <1>0, <1>2, <2>1 DEF OperationFails, Answered, IInv, TypeOK, Sound, Earned, OnStep, InOrder, Call
  <2> QED BY <1>2, <2>2, PureCallStepKeepsIInv DEF OperationFails, Answered, IInv, TypeOK
<1>3. CASE Interrupt(c)
  <2>1. Sound(call'[c], effects)
    BY <1>0, <1>3 DEF Interrupt, Goto, IInv, TypeOK, Sound, Earned, OnStep, InOrder, Call
  <2> QED BY <1>3, <2>1, PureCallStepKeepsIInv DEF Interrupt, Goto, IInv, TypeOK
<1> QED BY <1>1, <1>2, <1>3

LEMMA NextIInv == IInv /\ [Next]_vars => IInv'
<1> SUFFICES ASSUME IInv, [Next]_vars PROVE IInv'
  OBVIOUS
<1> TypeOK'
  BY NextType DEF IInv
<1>1. ASSUME NEW c \in Calls, Start(c) \/ Advance(c) \/ OperationFails(c) \/ Interrupt(c)
      PROVE IInv'
  BY <1>1, AdvanceKeepsIInv, StoppingKeepsIInv
<1>2. ASSUME NEW q \in Requests, Serve(q) PROVE IInv'
  BY <1>2, QuietKeepsIInv DEF Serve, Admit, Provision, Reserve, Enqueue
<1>3. CASE SignIn
  BY <1>3, QuietKeepsIInv DEF SignIn
<1>4. ASSUME NEW j \in Jobs, Fetch(j) \/ RunJob(j) \/ FinishJob(j) PROVE IInv'
  BY <1>4, QuietKeepsIInv DEF Fetch, RunJob, FinishJob
<1>5. CASE UNCHANGED vars
  BY <1>5, QuietKeepsIInv DEF vars
<1> QED BY <1>1, <1>2, <1>3, <1>4, <1>5 DEF Next

\* What the receipt and the calls know has been done, and every call is past the
\* steps that must not fail before the one it is on.
THEOREM Inductive == Spec => []IInv
BY InitIInv, NextIInv, PTL DEF Spec

\* A receipt that says completed is backed by the operations, and no identity or
\* session is left.
THEOREM CompletedIsEarnedHolds == Spec => []CompletedIsEarned
<1>1. IInv => CompletedIsEarned
  BY DEF IInv, ReceiptSound, Earned, Completed, Lasting, Steps, IdentityGone, CompletedIsEarned
<1> QED BY <1>1, Inductive, PTL

\* The identity is never deleted before the jobs and the data.
THEOREM IdentityGoesLastHolds == Spec => []IdentityGoesLast
<1>1. IInv => IdentityGoesLast
  BY DEF IInv
<1> QED BY <1>1, Inductive, PTL

-----------------------------------------------------------------------------
(* AccountExport: the archives.                                            *)

\* The inductive invariant: an archive that is stored belongs to the users row
\* that is there now.
ArchivesBelong ==
  /\ ExportTypeOK
  /\ \A q \in Requests : stored[q] # 0 => Present(stored[q])

\* What no step does: leave an archive to nobody, or hand one out for a users
\* row that has gone.
Kept ==
  \A q \in Requests :
    /\ stored'[q] # 0 => account' /\ stored'[q] = row'
    /\ export[q] # "delivered" /\ export'[q] = "delivered" => Present(owner[q])

\* No archive at first.
LEMMA InitBelongs == ExportInit => ArchivesBelong
BY DEF ExportInit, ArchivesBelong, ExportTypeOK, ExportStages

\* A step of the deletion clears the archives with the row, and a row that is
\* made again finds none (AccountDeletion's Next, through its effect on account).
LEMMA DeletionKeeps == ArchivesBelong /\ Deletion => ArchivesBelong' /\ Kept
<1> SUFFICES ASSUME ArchivesBelong, Deletion PROVE ArchivesBelong' /\ Kept
  OBVIOUS
<1> USE DEF ArchivesBelong, ExportTypeOK
<1>1. row' = IF ~account /\ account' THEN row + 1 ELSE row
  BY DEF Deletion, Provisioned
<1>2. export' = export /\ owner' = owner
  BY DEF Deletion
<1>3. stored' = [q \in Requests |-> 0] \/ (stored' = stored /\ ~(account /\ ~account'))
  BY DEF Deletion
<1>4. stored' \in [Requests -> Nat] /\ row' \in Nat \ {0}
  BY <1>1, <1>3
<1>5. ASSUME NEW q \in Requests, stored'[q] # 0 PROVE account' /\ stored'[q] = row'
  <2>1. stored'[q] = stored[q] /\ ~(account /\ ~account')
    BY <1>3, <1>5
  <2>2. account /\ stored[q] = row
    BY <2>1, <1>5 DEF Present
  <2> QED
    BY <2>1, <2>2, <1>1
<1> QED
  BY <1>2, <1>4, <1>5 DEF Present, Kept

\* The steps of a request, one by one.
LEMMA ExportKeeps ==
  ASSUME ArchivesBelong, NEW q \in Requests, Export(q) PROVE ArchivesBelong' /\ Kept
<1> USE DEF ArchivesBelong, ExportTypeOK, ExportStages
<1>1. CASE ProvisionExport(q)
  <2>1. row' = IF ~account /\ account' THEN row + 1 ELSE row
    BY <1>1 DEF ProvisionExport, Provisioned
  <2>2. account' /\ stored' = stored /\ owner' = owner
    BY <1>1 DEF ProvisionExport
  <2>3. export' = [export EXCEPT ![q] = "snapshot"]
    BY <1>1 DEF ProvisionExport, Step
  <2>4. \A p \in Requests : stored'[p] # 0 => account' /\ stored'[p] = row'
    BY <2>1, <2>2 DEF Present
  <2> QED
    BY <2>1, <2>2, <2>3, <2>4 DEF Present, Kept
<1>2. CASE Store(q)
  <2>1. account' = account /\ row' = row /\ owner' = owner
    BY <1>2 DEF Store, vars
  <2>2. \/ stored' = stored
        \/ stored' = [stored EXCEPT ![q] = owner[q]] /\ Present(owner[q])
    BY <1>2 DEF Store
  <2>3. \E s \in {"granted", "refused"} : export' = [export EXCEPT ![q] = s]
    BY <1>2 DEF Store, Step
  <2> QED
    BY <2>1, <2>2, <2>3 DEF Present, Kept
<1>3. CASE Record(q)
  <2>1. account' = account /\ row' = row /\ owner' = owner /\ stored' = stored
    BY <1>3 DEF Record, vars
  <2>2. \E s \in {"delivered", "refused"} :
          export' = [export EXCEPT ![q] = s] /\ (s = "delivered" => Present(owner[q]))
    BY <1>3 DEF Record, Step
  <2> QED
    BY <2>1, <2>2 DEF Present, Kept
<1>4. CASE Snapshot(q)
  <2>1. account' = account /\ row' = row /\ stored' = stored /\ owner' \in [Requests -> Nat]
    BY <1>4 DEF Snapshot, vars
  <2>2. \E s \in {"store", "refused"} : export' = [export EXCEPT ![q] = s]
    BY <1>4 DEF Snapshot, Step
  <2> QED
    BY <2>1, <2>2 DEF Present, Kept
<1>5. CASE AdmitExport(q) \/ AdmitDownload(q) \/ Find(q)
  <2>1. account' = account /\ row' = row /\ stored' = stored /\ owner' = owner
    BY <1>5 DEF AdmitExport, AdmitDownload, Find, vars
  <2>2. \E s \in {"provision", "find", "record", "refused"} : export' = [export EXCEPT ![q] = s]
    BY <1>5 DEF AdmitExport, AdmitDownload, Find, Step
  <2> QED
    BY <2>1, <2>2 DEF Present, Kept
<1>6. CASE Expire(q)
  <2>1. /\ account' = account /\ row' = row /\ export' = export /\ owner' = owner
        /\ stored' = [stored EXCEPT ![q] = 0]
    BY <1>6 DEF Expire, vars
  <2> QED
    BY <2>1 DEF Present, Kept
<1> QED
  BY <1>1, <1>2, <1>3, <1>4, <1>5, <1>6 DEF Export

\* Stuttering changes nothing.
LEMMA StutterKeeps == ArchivesBelong /\ UNCHANGED allVars => ArchivesBelong' /\ Kept
BY DEF ArchivesBelong, ExportTypeOK, Present, Kept, allVars, exportVars, vars

\* All steps together.
LEMMA StepKeeps == ArchivesBelong /\ [ExportNext]_allVars => ArchivesBelong' /\ Kept
BY DeletionKeeps, ExportKeeps, StutterKeeps DEF ExportNext

\* An archive that is stored belongs to the account that is there.
THEOREM ArchivesBelongHolds == ExportSpec => []ArchivesBelong
<1>1. ArchivesBelong /\ [ExportNext]_allVars => ArchivesBelong'
  BY StepKeeps
<1> QED
  BY InitBelongs, <1>1, PTL DEF ExportSpec

\* No archive outlives the row of its account and none is handed out after the
\* purge, for any requests that cross any deletions (createExport,
\* downloadExport and purgeAccount of account-lifecycle-repository.ts).
THEOREM ExportsEndWithAccountHolds == ExportSpec => ExportsEndWithAccount
<1>1. ArchivesBelong /\ [ExportNext]_allVars =>
        [\A q \in Requests :
           /\ stored'[q] # 0 => account' /\ stored'[q] = row'
           /\ export[q] # "delivered" /\ export'[q] = "delivered" => Present(owner[q])]_allVars
  BY StepKeeps DEF Kept
<1> QED
  BY ArchivesBelongHolds, <1>1, PTL DEF ExportSpec, ExportsEndWithAccount

=============================================================================
