--------------------------- MODULE LiveConditions ---------------------------
(***************************************************************************)
(* Reconciling the weather impacts of one trip with fresh forecasts        *)
(* (packages/jobs/src/live-reconciliation.ts, packages/travel-data/src/    *)
(* live.ts and server/live-conditions.ts, packages/db/src/live-condition-  *)
(* impact-repository.ts).  Jobs of different refresh keys overlap: their   *)
(* transactions are READ COMMITTED, take row locks and may deadlock.       *)
(***************************************************************************)
EXTENDS Integers, FiniteSets, Sequences

CONSTANTS
  Slots,         \* <<place, date>> pairs within the horizon
  Items,         \* itinerary items of the trip
  Jobs,          \* reconciliation jobs, each with its refresh key
  Weathers,      \* forecasts: the slots with severe weather, and whether it is certain
  Plans,         \* where the items may be at first
  JobAttempts,   \* policy.maxAttempts: deliveries of one job
  MaxForecasts,  \* bound: forecasts the provider publishes
  MaxEdits       \* bound: edits of the itinerary

ASSUME LiveAssumption ==
  /\ Slots \subseteq Nat \X Nat /\ Items \subseteq Nat
  /\ Weathers \subseteq [severe : SUBSET Slots, sure : BOOLEAN]
  /\ Plans \subseteq [Items -> Slots \union {<<>>}]
  /\ JobAttempts \in Nat \ {0} /\ MaxForecasts \in Nat /\ MaxEdits \in Nat

VARIABLES
  plan,       \* [item -> its slot, Off when it is no target, Gone when deleted]
  edits,      \* edits so far
  forecasts,  \* what the provider has published, newest last
  impacts,    \* live_condition_impacts, committed: [impact key -> row]
  jobs        \* [job -> its run]

liveVars == <<plan, edits, forecasts, impacts, jobs>>

Off == <<>>
Gone == <<0>>
Places == {s[1] : s \in Slots}
\* liveConditionImpactKey: the event forecast:place:date, and the item.
ImpactKeys == Slots \X Items
\* The impacts are upserted in the order of their keys.
Before(k, l) ==
  \/ k[1][1] < l[1][1]
  \/ k[1][1] = l[1][1] /\ k[1][2] < l[1][2]
  \/ k[1] = l[1] /\ k[2] < l[2]

NoRow == [state |-> "absent", version |-> 0, first |-> 0, changed |-> 0]
Queued == [stage |-> "queued", attempt |-> 0, seen |-> <<>>, at |-> 0, version |-> 0, fresh |-> {},
         todo |-> {}, scopes |-> {}, stale |-> {}, writes |-> <<>>, alone |-> FALSE]
Ended == [Queued EXCEPT !.stage = "ended"]
Dead == [Queued EXCEPT !.stage = "dead"]

Running(j) == jobs[j].stage \notin {"queued", "ended", "dead"}
InTransaction(j) == jobs[j].stage \in {"writing", "resolving"}

\* What a statement of j sees, and the rows another transaction has locked.
View(j, k) == IF k \in DOMAIN jobs[j].writes THEN jobs[j].writes[k] ELSE impacts[k]
Locked(j, k) == \E i \in Jobs \ {j} : k \in DOMAIN jobs[i].writes

LiveTypeOK ==
  /\ plan \in [Items -> Slots \union {Off, Gone}] /\ edits \in 0 .. MaxEdits
  /\ forecasts \in Seq(Weathers)
  /\ \A k \in ImpactKeys : impacts[k].state \in {"absent", "active", "resolved"} /\ impacts[k].version <= Len(forecasts)
  /\ \A j \in Jobs : /\ jobs[j].stage \in {"queued", "asking", "writing", "resolving", "ended", "dead"}
                     /\ DOMAIN jobs[j].writes # {} => InTransaction(j)
                     /\ \A i \in Jobs \ {j} : DOMAIN jobs[j].writes \intersect DOMAIN jobs[i].writes = {}

---------------------------------------------------------------------------
\* getUpcomingLiveConditionTargets, and the trips that have one.
Targets(seen) == {i \in Items : seen[i] \in Slots}
HasTargets(seen) == Targets(seen) # {}

\* reconcile reads the clock and the targets; with none, or once the signal
\* of the job is aborted (cancelled, timed out, worker stopping), it ends.
\* Mutant: a job without targets is not skipped.
ReadSomeTargets(j) ==
  /\ jobs[j].stage = "queued" /\ HasTargets(plan)
  /\ jobs' = [jobs EXCEPT ![j].stage = "asking", ![j].seen = plan, ![j].at = Len(forecasts)]
  /\ UNCHANGED <<plan, edits, forecasts, impacts>>
ReadTargets(j) ==
  /\ jobs[j].stage = "queued"
  /\ LET J == [Queued EXCEPT !.stage = "asking", !.attempt = jobs[j].attempt + 1,
                 !.seen = plan, !.at = Len(forecasts),
                 !.alone = \A i \in Jobs : ~Running(i)]
         joined == [i \in Jobs |-> [jobs[i] EXCEPT !.alone = FALSE]] IN
     \/ HasTargets(plan) /\ jobs' = [joined EXCEPT ![j] = J]
     \/ jobs' = [jobs EXCEPT ![j] = Ended]
  /\ UNCHANGED <<plan, edits, forecasts, impacts>>

\* evaluateLiveConditions over the places whose batch is fresh: the events
\* that are severe and certain become impacts; an uncertain event only keeps
\* the impact it would have had; a mild one, or none, keeps nothing.
Matches(seen, fresh) == {k \in ImpactKeys : seen[k[2]] = k[1] /\ k[1][1] \in fresh}
\* Mutant: every event is an impact.
AnyImpacts(seen, fresh, f) == Matches(seen, fresh)
Impacts(seen, fresh, f) == {k \in Matches(seen, fresh) : f.sure /\ k[1] \in f.severe}
\* Mutant: an uncertain event is no observation.
ObservedSure(seen, fresh, f) == Impacts(seen, fresh, f)
Observed(seen, fresh, f) == IF f.sure THEN Impacts(seen, fresh, f) ELSE Matches(seen, fresh)

\* refresh asks the coordinator place by place; an answer that is stale or
\* no success observes nothing, and with no fresh batch nothing is written.
Refresh(j) ==
  /\ jobs[j].stage = "asking"
  /\ LET seen == jobs[j].seen  asked == {seen[i][1] : i \in Targets(seen)} IN
     \/ \E fresh \in (SUBSET asked) \ {{}} :
          jobs' = [jobs EXCEPT ![j].stage = "writing", ![j].version = Len(forecasts), ![j].fresh = fresh,
                     ![j].todo = Impacts(seen, fresh, forecasts[Len(forecasts)]), ![j].scopes = fresh]
     \/ jobs' = [jobs EXCEPT ![j] = Ended]
  /\ UNCHANGED <<plan, edits, forecasts, impacts>>

---------------------------------------------------------------------------
\* reconcileLiveConditionImpacts, statement by statement.
Written(w, k, row) == [l \in DOMAIN w \union {k} |-> IF l = k THEN row ELSE w[l]]
Row(J, old) == [state |-> "active", version |-> J.version, first |-> old.first, changed |-> J.at]

\* The next impact: inserted, or updated where its payload or its state
\* differs.  The insert needs the item, the update the lock of the row.
NextKey(j) == CHOOSE k \in jobs[j].todo : \A l \in jobs[j].todo \ {k} : Before(k, l)

Differs(j, k) == View(j, k).state # "active" \/ View(j, k).version # jobs[j].version

Upsert(j) ==
  /\ jobs[j].stage = "writing" /\ jobs[j].todo # {}
  /\ LET k == NextKey(j)  old == View(j, k) IN
     /\ plan[k[2]] # Gone
     /\ Differs(j, k) => ~Locked(j, k)
     /\ jobs' = [jobs EXCEPT ![j].todo = @ \ {k},
          ![j].writes = IF ~Differs(j, k) THEN @ ELSE Written(@, k,
             Row(jobs[j], IF old = NoRow THEN [first |-> jobs[j].at] ELSE old))]
  /\ UNCHANGED <<plan, edits, forecasts, impacts>>

\* The statement for one scope finds its active rows that were not observed
\* and resolves them one by one, each once its lock is free.
Stale(j, p) ==
  {k \in ImpactKeys : /\ k[1][1] = p /\ View(j, k).state = "active"
                /\ k \notin Observed(jobs[j].seen, jobs[j].fresh, forecasts[jobs[j].version])}

ResolveScope(j) ==
  /\ InTransaction(j) /\ jobs[j].todo = {} /\ jobs[j].stale = {}
  /\ \E p \in jobs[j].scopes :
       jobs' = [jobs EXCEPT ![j].stage = "resolving", ![j].scopes = @ \ {p}, ![j].stale = Stale(j, p)]
  /\ UNCHANGED <<plan, edits, forecasts, impacts>>

ResolveRow(j) ==
  /\ \E k \in jobs[j].stale :
       /\ ~Locked(j, k)
       /\ jobs' = [jobs EXCEPT ![j].stale = @ \ {k},
            ![j].writes = IF View(j, k).state # "active" THEN @
                          ELSE Written(@, k, [View(j, k) EXCEPT !.state = "resolved"])]
  /\ UNCHANGED <<plan, edits, forecasts, impacts>>

\* An abort after the evaluation no longer stops the transaction.
Commit(j) ==
  /\ InTransaction(j) /\ jobs[j].todo = {} /\ jobs[j].scopes = {} /\ jobs[j].stale = {}
  /\ impacts' = [k \in ImpactKeys |-> View(j, k)]
  /\ jobs' = [jobs EXCEPT ![j] = Ended]
  /\ UNCHANGED <<plan, edits, forecasts>>

\* The statement of j waits for a row i has locked; an UPDATE of several rows
\* meets them in any order.
WaitsFor(j, i) ==
  /\ i # j
  /\ \/ /\ jobs[j].stage = "writing" /\ jobs[j].todo # {}
        /\ Differs(j, NextKey(j)) /\ NextKey(j) \in DOMAIN jobs[i].writes
     \/ jobs[j].stale \intersect DOMAIN jobs[i].writes # {}
\* j waits for itself: it is in every set that holds whom j waits for, and
\* whom its members wait for.
Deadlocked(j) ==
  \A W \in SUBSET Jobs :
    (\A i \in W \union {j}, w \in Jobs : WaitsFor(i, w) => w \in W) => j \in W
\* The transaction fails, as the victim of a deadlock or because an item it
\* inserts for is gone; the runtime runs the job again, or dead-letters it.
Doomed(j) ==
  \/ Deadlocked(j)
  \/ jobs[j].stage = "writing" /\ jobs[j].todo # {} /\ plan[NextKey(j)[2]] = Gone
Fail(j) ==
  /\ Doomed(j)
  /\ jobs' = [jobs EXCEPT ![j] =
       IF @.attempt < JobAttempts THEN [Queued EXCEPT !.attempt = jobs[j].attempt] ELSE Dead]
  /\ UNCHANGED <<plan, edits, forecasts, impacts>>

---------------------------------------------------------------------------
\* The provider publishes a forecast; the owner moves an item, takes its
\* place away, or deletes it, and its rows with it.
Publish(f) ==
  /\ Len(forecasts) < MaxForecasts /\ f # forecasts[Len(forecasts)]
  /\ forecasts' = Append(forecasts, f)
  /\ UNCHANGED <<plan, edits, impacts, jobs>>

Edit(i, s) ==
  /\ edits < MaxEdits /\ edits' = edits + 1
  /\ plan[i] # Gone /\ plan[i] # s /\ plan' = [plan EXCEPT ![i] = s]
  /\ \/ s # Gone /\ UNCHANGED impacts
     \/ /\ s = Gone /\ \A j \in Jobs, k \in ImpactKeys : k[2] = i => k \notin DOMAIN jobs[j].writes
        /\ impacts' = [k \in ImpactKeys |-> IF k[2] = i THEN NoRow ELSE impacts[k]]
  /\ UNCHANGED <<forecasts, jobs>>

Works(j) ==
  \/ ReadTargets(j) \/ Refresh(j) \/ Upsert(j) \/ ResolveScope(j) \/ ResolveRow(j) \/ Commit(j) \/ Fail(j)

\* enqueueUpcomingLiveConditionReconciliations queued the jobs of a trip
\* with targets.  An earlier refresh may have left the impacts of the first
\* forecast, which would write nothing were it uncertain.
LiveInit ==
  /\ plan \in Plans /\ HasTargets(plan) /\ edits = 0
  /\ forecasts \in {<<f>> : f \in {w \in Weathers : w.sure}}
  /\ impacts \in {[k \in ImpactKeys |->
       IF k \in Impacts(plan, fresh, forecasts[1])
       THEN Row([version |-> 1, at |-> 1], [first |-> 1]) ELSE NoRow] : fresh \in SUBSET Places}
  /\ jobs = [j \in Jobs |-> Queued]

LiveNext ==
  \/ \E j \in Jobs : Works(j)
  \/ \E f \in Weathers : Publish(f)
  \/ \E i \in Items, s \in Slots \union {Off, Gone} : Edit(i, s)

\* A worker goes on with a job it started.
LiveSpec == LiveInit /\ [][LiveNext]_liveVars /\ \A j \in Jobs : WF_liveVars(Works(j))

---------------------------------------------------------------------------
\* An active impact rests on a forecast that was severe and certain for its
\* place and date: "never promotes stale data", low confidence included.
ActiveImpactsAreMaterial ==
  \A k \in ImpactKeys : impacts[k].state = "active" =>
    LET f == forecasts[impacts[k].version] IN f.sure /\ k[1] \in f.severe

Commits(j) == InTransaction(j) /\ jobs'[j].stage = "ended"

\* A refresh that overlaps no other leaves, in every scope it observed,
\* exactly the impacts it found and those it was uncertain of.
LoneRefreshReplaces == [][\A j \in Jobs : Commits(j) /\ jobs[j].alone =>
  LET J == jobs[j]  f == forecasts[J.version] IN
    \A k \in ImpactKeys : k[1][1] \in J.fresh /\ plan[k[2]] # Gone =>
      (impacts'[k].state = "active" <=>
         J.seen[k[2]] = k[1] /\ IF f.sure THEN k[1] \in f.severe ELSE impacts[k].state = "active")]_liveVars

\* The impacts, and the locks of those that write them.
ImpactsAreSound == LiveTypeOK /\ ActiveImpactsAreMaterial

\* Every reconciliation ends, or is dead-lettered after its attempts, whatever
\* the others lock: no wait for a row, and no deadlock, lasts.
RefreshesEnd == \A j \in Jobs : jobs[j].stage = "queued" ~> jobs[j].stage \in {"ended", "dead"}
=============================================================================
