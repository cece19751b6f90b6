--------------------------- MODULE SuggestedChanges ---------------------------
(***************************************************************************)
(* Changes of a trip that the system suggests and its owner confirms: the  *)
(* actions the assistant offers, and the replacements recommended for an   *)
(* item a live condition disrupts, which are carried out as actions too.   *)
(* A suggestion is computed from one state of the trip and applied to a    *)
(* later one, and its outcome is recorded by writes of their own; the      *)
(* owner edits, deletes and decides in between.  One trip with one owner;  *)
(* an item is the place it stands at.                                      *)
(***************************************************************************)
EXTENDS Naturals

CONSTANTS Items,
          Places,
          Impacts,      \* live_condition_impacts rows, by impact key
          ItemOf,       \* the item an impact is on
          Offers,       \* ids of the actions the assistant offers
          Calls,        \* API requests
          Gone, Same, None,
          MaxRevision,  \* bound: the owner edits no trip of a higher revision
          MaxFaults     \* bound: statements that throw and processes that stop

ASSUME ImpactAssumption == ItemOf \in [Impacts -> Items]
ASSUME NamesAssumption == /\ Gone \notin Places /\ Same \notin Places /\ Gone # Same
                          /\ None \notin Impacts \cup Offers
                          /\ Impacts \cap Offers = {}
ASSUME BoundsAssumption == MaxRevision \in Nat /\ MaxFaults \in Nat

VARIABLES
  revision,  \* trips.revision
  place,     \* the place of each item, Gone once it is deleted
  impact,    \* the place of each impact that is active and fresh, Gone if it is not
  rec,       \* the recommendation of each impact
  action,    \* assistant_actions; a recommendation is applied by the action of its key
  changed,   \* history: the actions whose change of the trip was committed
  call,
  faults

vars == <<revision, place, impact, rec, action, changed, call, faults>>

Actions == Impacts \cup Offers
Trip == [Items -> Places \cup {Gone}]
Recommendation ==
  [status: {"absent", "pending", "applying", "kept", "dismissed", "applied", "failed"},
   original: Places \cup {Gone}, alternative: Places \cup {Gone}]
\* seen is the trip the action was derived from; no column, but what its preview shows.
Action == [status: {"absent", "pending", "confirmed", "applied", "cancelled", "failed"},
           revision: Nat, item: Items \cup {None}, to: Places \cup {Gone, Same}, seen: Trip]
Phases == {"idle", "asked", "listed",                                   \* query, refresh
           "begun", "read", "previewed", "settled", "giving_up",        \* apply
           "claimed", "changed", "refused"}                             \* apply and confirm
Call == [phase: Phases, action: Actions \cup {None}, original: Places \cup {Gone},
         alternative: Places \cup {Gone}, revision: Nat, seen: Trip, todo: SUBSET Impacts]

TypeOK ==
  /\ revision \in Nat /\ place \in Trip /\ faults \in Nat
  /\ impact \in [Impacts -> Places \cup {Gone}]
  /\ rec \in [Impacts -> Recommendation]
  /\ action \in [Actions -> Action]
  /\ changed \in SUBSET Actions
  /\ call \in [Calls -> Call]

NoRecommendation == [status |-> "absent", original |-> Gone, alternative |-> Gone]
Deleted == [x \in Items |-> Gone]
NoAction == [status |-> "absent", revision |-> 0, item |-> None, to |-> Same, seen |-> Deleted]
Idle == [phase |-> "idle", action |-> None, original |-> Gone, alternative |-> Gone,
         revision |-> 0, seen |-> Deleted, todo |-> {}]

Init ==
  /\ revision = 1
  /\ place \in [Items -> Places]
  /\ impact = [i \in Impacts |-> Gone]
  /\ rec = [i \in Impacts |-> NoRecommendation]
  /\ action = [a \in Actions |-> NoAction]
  /\ changed = {}
  /\ call = [c \in Calls |-> Idle]
  /\ faults = 0

(***************************************************************************)
(* The trip.  Every change is one transaction that locks the trip and      *)
(* bumps its revision; deleting an item deletes its impacts, and with them *)
(* their recommendations.                                                  *)
(***************************************************************************)
ChangeTrip(trip) ==
  /\ revision' = revision + 1
  /\ place' = trip
  /\ impact' = [i \in Impacts |-> IF trip[ItemOf[i]] = Gone THEN Gone ELSE impact[i]]
  /\ rec' = [i \in Impacts |-> IF trip[ItemOf[i]] = Gone THEN NoRecommendation ELSE rec[i]]

\* Edits of anything else than the place of an item choose the place it has.
Edit(x, to) ==
  /\ revision < MaxRevision
  /\ place[x] # Gone
  /\ ChangeTrip([place EXCEPT ![x] = to])
  /\ UNCHANGED <<action, changed, call, faults>>

(***************************************************************************)
(* Live conditions.                                                        *)
(***************************************************************************)
Observe(i) ==
  /\ place[ItemOf[i]] # Gone
  /\ impact' = [impact EXCEPT ![i] = place[ItemOf[i]]]
  /\ UNCHANGED <<revision, place, rec, action, changed, call, faults>>

\* It is resolved, or the observation grows older than a recommendation may rest on.
Lapse(i) ==
  /\ impact[i] # Gone
  /\ impact' = [impact EXCEPT ![i] = Gone]
  /\ UNCHANGED <<revision, place, rec, action, changed, call, faults>>

Affected(i) == impact[i] # Gone /\ impact[i] = place[ItemOf[i]]

(***************************************************************************)
(* POST disruption-recommendations/refresh: the impacts without a          *)
(* recommendation are read, the model is asked about one after the other,  *)
(* and each answer is inserted.                                            *)
(***************************************************************************)
Refresh(c) ==
  LET candidates == {i \in Impacts : Affected(i) /\ rec[i].status = "absent"}
  IN /\ call[c].phase = "idle"
     /\ candidates # {}
     /\ call' = [call EXCEPT ![c] =
          [Idle EXCEPT !.phase = "listed", !.todo = candidates, !.seen = place]]
     /\ UNCHANGED <<revision, place, impact, rec, action, changed, faults>>

Inserted(i, original, alternative) ==
  IF rec[i].status = "absent"
    THEN [rec EXCEPT ![i] =
            [status |-> "pending", original |-> original, alternative |-> alternative]]
    ELSE rec

\* create: the impact and the item must still be what the answer speaks of.
Create(c, i, alternative) ==
  LET original == call[c].seen[ItemOf[i]]
      eligible == Affected(i) /\ impact[i] = original
  IN /\ call[c].phase = "listed"
     /\ i \in call[c].todo
     /\ alternative # original
     /\ IF eligible
          THEN /\ rec' = Inserted(i, original, alternative)
               /\ call' = [call EXCEPT ![c].todo = @ \ {i}]
          ELSE rec' = rec /\ call' = [call EXCEPT ![c] = Idle]
     /\ UNCHANGED <<revision, place, impact, action, changed, faults>>

\* The model has no alternative for the impact, or it fails and ends the loop.
NoAlternative(c, i) ==
  /\ call[c].phase = "listed"
  /\ \/ i \in call[c].todo /\ call' = [call EXCEPT ![c].todo = @ \ {i}]
     \/ call' = [call EXCEPT ![c] = Idle]
  /\ UNCHANGED <<revision, place, impact, rec, action, changed, faults>>

\* POST disruption-recommendations/:id/decision
Decide(i, decision) ==
  /\ rec[i].status \in {"pending", "failed"}
  /\ rec' = [rec EXCEPT ![i].status = decision]
  /\ UNCHANGED <<revision, place, impact, action, changed, call, faults>>

(***************************************************************************)
(* POST assistant/query: the trip is read, the model is asked, and what it *)
(* suggests is offered unless the trip has changed meanwhile.              *)
(***************************************************************************)
Query(c) ==
  /\ call[c].phase = "idle"
  /\ \E o \in Offers : action[o].status = "absent"
  /\ call' = [call EXCEPT ![c] =
       [Idle EXCEPT !.phase = "asked", !.revision = revision, !.seen = place]]
  /\ UNCHANGED <<revision, place, impact, rec, action, changed, faults>>

\* createPreviews inserts the actions of a call if the trip is still the one it read.
Previewed(c, a, item, to) ==
  /\ revision = call[c].revision
  /\ action' = [action EXCEPT ![a] =
       [status |-> "pending", revision |-> revision, item |-> item, to |-> to,
        seen |-> call[c].seen]]

Offer(c, o, item, to) ==
  /\ call[c].phase = "asked"
  /\ action[o].status = "absent"
  /\ call[c].seen[item] # Gone
  /\ Previewed(c, o, item, to)
  /\ call' = [call EXCEPT ![c] = Idle]
  /\ UNCHANGED <<revision, place, impact, rec, changed, faults>>

\* The model fails, suggests nothing, or the trip has changed.
OfferNothing(c) ==
  /\ call[c].phase = "asked"
  /\ call' = [call EXCEPT ![c] = Idle]
  /\ UNCHANGED <<revision, place, impact, rec, action, changed, faults>>

\* POST assistant/actions/:id/cancel
Cancel(o) ==
  /\ action[o].status = "pending"
  /\ action' = [action EXCEPT ![o].status = "cancelled"]
  /\ UNCHANGED <<revision, place, impact, rec, changed, call, faults>>

(***************************************************************************)
(* confirm: claim the action, apply it to the trip, resolve it.  It is the *)
(* request POST assistant/actions/:id/confirm, and a part of apply.        *)
(***************************************************************************)
IsApply(c) == call[c].action \in Impacts

\* How a request ends: apply records the outcome, confirm just answers.
Succeed(c) == call' = [call EXCEPT ![c] = IF IsApply(c) THEN [@ EXCEPT !.phase = "settled"] ELSE Idle]
Throw(c) == call' = [call EXCEPT ![c] = IF IsApply(c) THEN [@ EXCEPT !.phase = "giving_up"] ELSE Idle]
Goto(c, phase) == call' = [call EXCEPT ![c].phase = phase]

\* Mutant: an action in flight can be claimed again.
ClaimedAgain(a) ==
  /\ action[a].status \in {"pending", "confirmed"}
  /\ action' = [action EXCEPT ![a].status = "confirmed"]

Claimed(a) ==
  /\ action[a].status = "pending"
  /\ action' = [action EXCEPT ![a].status = "confirmed"]

Confirm(c, o) ==
  /\ call[c].phase = "idle"
  /\ Claimed(o)
  /\ call' = [call EXCEPT ![c] = [Idle EXCEPT !.phase = "claimed", !.action = o]]
  /\ UNCHANGED <<revision, place, impact, rec, changed, faults>>

\* Mutant: the revision is not compared when the action is applied.
ItemExists(a) == place[action[a].item] # Gone

Applicable(a) ==
  /\ revision = action[a].revision
  /\ place[action[a].item] # Gone

\* applyAction: updateItem, deleteItem or createItem under the revision of the preview.
ApplyAction(c) ==
  LET a == call[c].action
      to == IF action[a].to = Same THEN place[action[a].item] ELSE action[a].to
  IN /\ call[c].phase = "claimed"
     /\ Applicable(a)
     /\ ChangeTrip([place EXCEPT ![action[a].item] = to])
     /\ changed' = changed \cup {a}
     /\ Goto(c, "changed")
     /\ UNCHANGED <<action, faults>>

\* The trip has changed, the item is gone, or the place is no longer active.
RefuseAction(c) ==
  /\ call[c].phase = "claimed"
  /\ Goto(c, "refused")
  /\ UNCHANGED <<revision, place, impact, rec, action, changed, faults>>

Resolved(a, outcome) ==
  /\ action[a].status = "confirmed"
  /\ action' = [action EXCEPT ![a].status = outcome]

ResolveApplied(c) ==
  /\ call[c].phase = "changed"
  /\ Resolved(call[c].action, "applied")
  /\ Succeed(c)
  /\ UNCHANGED <<revision, place, impact, rec, changed, faults>>

\* Mutant: the failure is recorded, and not thrown on.
ResolveFailedQuietly(c) ==
  /\ call[c].phase = "refused"
  /\ Resolved(call[c].action, "failed")
  /\ Succeed(c)
  /\ UNCHANGED <<revision, place, impact, rec, changed, faults>>

ResolveFailed(c) ==
  /\ call[c].phase = "refused"
  /\ Resolved(call[c].action, "failed")
  /\ Throw(c)
  /\ UNCHANGED <<revision, place, impact, rec, changed, faults>>

(***************************************************************************)
(* POST disruption-recommendations/:id/apply: the recommendation is taken, *)
(* then the trip is read, previewed, confirmed, and the outcome recorded.  *)
(***************************************************************************)
BeginApply(c, i) ==
  /\ call[c].phase = "idle"
  /\ rec[i].status = "pending"
  /\ impact[i] # Gone
  /\ place[ItemOf[i]] = rec[i].original
  /\ rec' = [rec EXCEPT ![i].status = "applying"]
  /\ call' = [call EXCEPT ![c] = [Idle EXCEPT !.phase = "begun", !.action = i,
       !.original = rec[i].original, !.alternative = rec[i].alternative]]
  /\ UNCHANGED <<revision, place, impact, action, changed, faults>>

ReadTrip(c) ==
  /\ call[c].phase = "begun"
  /\ call' = [call EXCEPT ![c] =
       [@ EXCEPT !.phase = "read", !.revision = revision, !.seen = place]]
  /\ UNCHANGED <<revision, place, impact, rec, action, changed, faults>>

CreatePreview(c) ==
  LET i == call[c].action
  IN /\ call[c].phase = "read"
     /\ \/ Previewed(c, i, ItemOf[i], call[c].alternative) /\ Goto(c, "previewed")
        \/ revision # call[c].revision /\ action' = action /\ Throw(c)
     /\ UNCHANGED <<revision, place, impact, rec, changed, faults>>

\* The preview may have expired by the time it is claimed.
ClaimPreview(c) ==
  /\ call[c].phase = "previewed"
  /\ \/ Claimed(call[c].action) /\ Goto(c, "claimed")
     \/ action' = action /\ Throw(c)
  /\ UNCHANGED <<revision, place, impact, rec, changed, faults>>

Finished(i, outcome) ==
  /\ rec[i].status = "applying"
  /\ rec' = [rec EXCEPT ![i].status = outcome]

FinishApply(c) ==
  LET i == call[c].action
  IN /\ call[c].phase = "settled"
     /\ \/ Finished(i, "applied") /\ call' = [call EXCEPT ![c] = Idle]
        \/ rec[i].status # "applying" /\ rec' = rec /\ Throw(c)
     /\ UNCHANGED <<revision, place, impact, action, changed, faults>>

\* Mutant: the catch block only rethrows.
GiveUpQuietly(c) ==
  /\ call[c].phase = "giving_up"
  /\ call' = [call EXCEPT ![c] = Idle]
  /\ UNCHANGED <<revision, place, impact, rec, action, changed, faults>>

\* The catch block of apply; what finishApply throws there is ignored.
GiveUp(c) ==
  LET i == call[c].action
  IN /\ call[c].phase = "giving_up"
     /\ \/ Finished(i, "failed")
        \/ rec[i].status # "applying" /\ rec' = rec
     /\ call' = [call EXCEPT ![c] = Idle]
     /\ UNCHANGED <<revision, place, impact, action, changed, faults>>

(***************************************************************************)
(* Faults.  A statement that throws has not been committed.                *)
(***************************************************************************)
StatementFails(c) ==
  /\ faults < MaxFaults
  /\ faults' = faults + 1
  /\ \/ call[c].phase \in {"begun", "read", "previewed", "changed", "refused", "settled"} /\ Throw(c)
     \/ call[c].phase = "giving_up" /\ call' = [call EXCEPT ![c] = Idle]
  /\ UNCHANGED <<revision, place, impact, rec, action, changed>>

ProcessStops(c) ==
  /\ faults < MaxFaults
  /\ faults' = faults + 1
  /\ call[c].phase # "idle"
  /\ call' = [call EXCEPT ![c] = Idle]
  /\ UNCHANGED <<revision, place, impact, rec, action, changed>>

Start(c) ==
  \/ Refresh(c)
  \/ Query(c)
  \/ \E o \in Offers : Confirm(c, o)
  \/ \E i \in Impacts : BeginApply(c, i)

Proceed(c) ==
  \/ \E i \in Impacts : NoAlternative(c, i) \/ \E p \in Places : Create(c, i, p)
  \/ \E o \in Offers, x \in Items, to \in Places \cup {Gone, Same} : Offer(c, o, x, to)
  \/ OfferNothing(c)
  \/ ReadTrip(c) \/ CreatePreview(c) \/ ClaimPreview(c)
  \/ ApplyAction(c) \/ RefuseAction(c)
  \/ ResolveApplied(c) \/ ResolveFailed(c)
  \/ FinishApply(c) \/ GiveUp(c)

Owner ==
  \/ \E x \in Items, to \in Places \cup {Gone} : Edit(x, to)
  \/ \E i \in Impacts, d \in {"kept", "dismissed"} : Decide(i, d)
  \/ \E o \in Offers : Cancel(o)

Conditions == \E i \in Impacts : Observe(i) \/ Lapse(i)

Next ==
  \/ \E c \in Calls : Start(c) \/ Proceed(c) \/ StatementFails(c) \/ ProcessStops(c)
  \/ Owner
  \/ Conditions

Spec == Init /\ [][Next]_vars

\* An accepted request is carried on; nothing is assumed of owner, conditions and faults.
FairSpec == Spec /\ \A c \in Calls : WF_vars(Proceed(c))

(***************************************************************************)
(* Properties.                                                             *)
(***************************************************************************)
\* The step in which a call commits the change of its action.
Commits(c) == call[c].phase = "claimed" /\ call'[c].phase = "changed"

\* An action changes the very trip its preview was derived from (createPreviews,
\* assertRevision): no edit, and no other action, came in between.
ChangesWhatWasPreviewed ==
  [][\A c \in Calls : Commits(c) => place = action[call[c].action].seen]_vars

\* Only a recommendation that is being applied replaces an item: not one the owner has
\* kept or dismissed meanwhile, or one that failed or was applied before.
OnlyAppliedReplaces ==
  [][\A c \in Calls : Commits(c) /\ IsApply(c) => rec[call[c].action].status = "applying"]_vars

\* What an action records is what happened to the trip (claim, applyAction, resolve).
OutcomeIsTrue ==
  \A a \in Actions :
    /\ action[a].status = "applied" => a \in changed
    /\ action[a].status \in {"pending", "cancelled", "failed"} => a \notin changed

\* A recommendation recorded as applied was carried out by an action that is applied.
AppliedIsBacked ==
  \A i \in Impacts : rec[i].status = "applied" => action[i].status = "applied" /\ i \in changed

\* What the owner has decided, or had applied, is never offered again for that impact:
\* refreshes in flight do not bring it back (the unique index on the impact).
DecisionIsFinal ==
  [][\A i \in Impacts :
       rec[i].status \in {"kept", "dismissed", "applied"} =>
         rec'[i] = rec[i] \/ place'[ItemOf[i]] = Gone]_vars

\* While nothing fails, a recommendation that is being applied reaches an outcome.
ApplyConcludes ==
  \A i \in Impacts : rec[i].status = "applying" ~> (rec[i].status # "applying" \/ faults > 0)

=============================================================================
