------------------------ MODULE SuggestedChangesProofs ------------------------
(***************************************************************************)
(* What suggested changes promise, for any number of items, impacts,       *)
(* offers, requests, edits and faults.                                     *)
(***************************************************************************)
EXTENDS SuggestedChanges, TLAPS

\* An action knows the trip it was derived from by its revision; what it records of its
\* outcome is true.
ActionSound(a) ==
  LET x == action[a]
  IN /\ x.status # "absent" =>
          /\ x.item \in Items
          /\ x.revision <= revision
          /\ x.revision = revision => x.seen = place
          /\ a \in Impacts => x.item = ItemOf[a]
     /\ x.status = "applied" => a \in changed
     /\ x.status \in {"absent", "pending", "cancelled", "failed"} => a \notin changed

\* Where a request is, against the action it works on.
Stage(c) ==
  LET x == call[c]
      status == action[x.action].status
  IN /\ x.phase \in {"asked", "read"} =>
          x.revision <= revision /\ (x.revision = revision => x.seen = place)
     /\ x.phase \in {"idle", "asked", "listed"} => x.action = None
     /\ x.phase \in {"begun", "read", "previewed", "settled", "giving_up"} => x.action \in Impacts
     /\ x.phase \in {"claimed", "changed", "refused"} => x.action \in Actions
     /\ x.phase \in {"begun", "read"} => status = "absent"
     /\ x.phase \in {"claimed", "refused"} => status = "confirmed" /\ x.action \notin changed
     /\ x.phase = "changed" => status = "confirmed" /\ x.action \in changed
     /\ x.phase = "settled" => status = "applied"
     /\ x.action \in Impacts =>
          rec[x.action].status = "applying" \/ place[ItemOf[x.action]] = Gone

\* No two requests work on one action.
Exclusive ==
  \A c, d \in Calls : call[c].action = call[d].action /\ call[c].action # None => c = d

RecommendationSound(i) ==
  /\ place[ItemOf[i]] = Gone => rec[i].status = "absent"
  /\ rec[i].status \in {"absent", "pending"} /\ place[ItemOf[i]] # Gone =>
       action[i].status = "absent" /\ \A c \in Calls : call[c].action # i
  /\ rec[i].status = "applied" => action[i].status = "applied"

Sound ==
  /\ \A a \in Actions : ActionSound(a)
  /\ \A c \in Calls : Stage(c)
  /\ Exclusive
  /\ \A i \in Impacts : RecommendationSound(i)

\* The inductive invariant.
IInv == TypeOK /\ Sound
-----------------------------------------------------------------------------
(* Type correctness.                                                       *)

LEMMA MovedType ==
  ASSUME NEW x \in Call, NEW phase \in Phases PROVE [x EXCEPT !.phase = phase] \in Call
BY DEF Call

LEMMA IdleIsCall == Idle \in Call
BY DEF Call, Phases, Idle, Trip, Deleted

LEMMA SucceedType ==
  ASSUME NEW c \in Calls, call \in [Calls -> Call], Succeed(c) PROVE call' \in [Calls -> Call]
<1>1. [call[c] EXCEPT !.phase = "settled"] \in Call
  BY MovedType DEF Phases
<1> QED BY <1>1, IdleIsCall DEF Succeed

LEMMA ThrowType ==
  ASSUME NEW c \in Calls, call \in [Calls -> Call], Throw(c) PROVE call' \in [Calls -> Call]
<1>1. [call[c] EXCEPT !.phase = "giving_up"] \in Call
  BY MovedType DEF Phases
<1> QED BY <1>1, IdleIsCall DEF Throw

LEMMA GotoType ==
  ASSUME NEW c \in Calls, NEW phase \in Phases, call \in [Calls -> Call], Goto(c, phase)
  PROVE  call' \in [Calls -> Call]
BY DEF Goto, Call

LEMMA IdleType ==
  ASSUME NEW c \in Calls, call \in [Calls -> Call], call' = [call EXCEPT ![c] = Idle]
  PROVE  call' \in [Calls -> Call]
BY DEF Call, Phases, Idle, Trip, Deleted

LEMMA ChangeTripType ==
  ASSUME TypeOK, NEW trip \in Trip, ChangeTrip(trip)
  PROVE  revision' \in Nat /\ place' \in Trip /\ impact' \in [Impacts -> Places \cup {Gone}]
         /\ rec' \in [Impacts -> Recommendation]
BY DEF TypeOK, ChangeTrip, NoRecommendation, Recommendation

LEMMA StartType == ASSUME TypeOK, NEW c \in Calls, Start(c) PROVE TypeOK'
<1>1. CASE Refresh(c)
  BY <1>1 DEF Refresh, TypeOK, Call, Phases, Idle, Trip, Deleted
<1>2. CASE Query(c)
  BY <1>2 DEF Query, TypeOK, Call, Phases, Idle, Trip, Deleted
<1>3. ASSUME NEW o \in Offers, Confirm(c, o) PROVE TypeOK'
  <2>1. action' \in [Actions -> Action]
    BY <1>3 DEF Confirm, Claimed, TypeOK, Action, Actions
  <2>2. call' \in [Calls -> Call]
    BY <1>3 DEF Confirm, TypeOK, Call, Phases, Idle, Trip, Deleted, Actions
  <2> QED BY <1>3, <2>1, <2>2 DEF Confirm, TypeOK
<1>4. ASSUME NEW i \in Impacts, BeginApply(c, i) PROVE TypeOK'
  <2>1. rec' \in [Impacts -> Recommendation]
    BY <1>4 DEF BeginApply, TypeOK, Recommendation
  <2>2. call' \in [Calls -> Call]
    BY <1>4 DEF BeginApply, TypeOK, Call, Phases, Idle, Trip, Deleted, Actions, Recommendation
  <2> QED BY <1>4, <2>1, <2>2 DEF BeginApply, TypeOK
<1> QED BY <1>1, <1>2, <1>3, <1>4 DEF Start

LEMMA PreviewedType ==
  ASSUME TypeOK, NEW c \in Calls, NEW a \in Actions, NEW x \in Items,
         NEW to \in Places \cup {Gone, Same}, Previewed(c, a, x, to)
  PROVE  action' \in [Actions -> Action]
BY DEF Previewed, TypeOK, Action, Call

LEMMA ResolvedType ==
  ASSUME TypeOK, NEW a, NEW outcome \in {"applied", "failed"}, Resolved(a, outcome)
  PROVE  action' \in [Actions -> Action]
BY DEF Resolved, TypeOK, Action

LEMMA ClaimedType ==
  ASSUME TypeOK, NEW a, Claimed(a) PROVE action' \in [Actions -> Action]
BY DEF Claimed, TypeOK, Action

LEMMA FinishedType ==
  ASSUME TypeOK, NEW i, NEW outcome \in {"applied", "failed"}, Finished(i, outcome)
  PROVE  rec' \in [Impacts -> Recommendation]
BY DEF Finished, TypeOK, Recommendation

LEMMA ProceedType == ASSUME IInv, NEW c \in Calls, Proceed(c) PROVE TypeOK'
<1> TypeOK /\ Stage(c)
  BY DEF IInv, Sound
<1>1. ASSUME NEW i \in Impacts, NoAlternative(c, i) PROVE TypeOK'
  BY <1>1, IdleType DEF NoAlternative, TypeOK, Call
<1>2. ASSUME NEW i \in Impacts, NEW p \in Places, Create(c, i, p) PROVE TypeOK'
  <2>1. Inserted(i, call[c].seen[ItemOf[i]], p) \in [Impacts -> Recommendation]
    BY ImpactAssumption DEF Inserted, TypeOK, Recommendation, Call, Trip
  <2> QED BY <1>2, <2>1, IdleType DEF Create, TypeOK, Call
<1>3. ASSUME NEW o \in Offers, NEW x \in Items, NEW to \in Places \cup {Gone, Same},
             Offer(c, o, x, to)
      PROVE  TypeOK'
  BY <1>3, PreviewedType, IdleType DEF Offer, TypeOK, Actions
<1>4. CASE OfferNothing(c)
  BY <1>4, IdleType DEF OfferNothing, TypeOK
<1>5. CASE ReadTrip(c)
  <2>1. \A n \in Nat, t \in Trip :
          [call[c] EXCEPT !.phase = "read", !.revision = n, !.seen = t] \in Call
    BY DEF TypeOK, Call, Phases
  <2>2. call' \in [Calls -> Call]
    BY <1>5, <2>1 DEF ReadTrip, TypeOK
  <2> QED BY <1>5, <2>2 DEF ReadTrip, TypeOK
<1>6. CASE CreatePreview(c)
  <2>1. call[c].action \in Impacts /\ call[c].action \in Actions
    BY <1>6 DEF CreatePreview, Stage, Actions
  <2>2. ItemOf[call[c].action] \in Items /\ call[c].alternative \in Places \cup {Gone, Same}
    BY <2>1, ImpactAssumption DEF TypeOK, Call
  <2>3. call' \in [Calls -> Call]
    BY <1>6, GotoType, ThrowType DEF CreatePreview, TypeOK, Phases
  <2>4. action' \in [Actions -> Action]
    BY <1>6, <2>1, <2>2, PreviewedType DEF CreatePreview, TypeOK
  <2> QED BY <1>6, <2>3, <2>4 DEF CreatePreview, TypeOK
<1>7. CASE ClaimPreview(c)
  BY <1>7, ClaimedType, GotoType, ThrowType DEF ClaimPreview, TypeOK, Phases
<1>8. CASE ApplyAction(c)
  <2> DEFINE a == call[c].action
             to == IF action[a].to = Same THEN place[action[a].item] ELSE action[a].to
  <2>1. a \in Actions /\ action[a].status # "absent"
    BY <1>8 DEF ApplyAction, Stage
  <2>2. action[a].item \in Items
    BY <2>1 DEF IInv, Sound, ActionSound
  <2>3. [place EXCEPT ![action[a].item] = to] \in Trip
    BY <2>1, <2>2 DEF TypeOK, Trip, Action
  <2>4. call' \in [Calls -> Call]
    BY <1>8, GotoType DEF ApplyAction, TypeOK, Phases
  <2> QED BY <1>8, <2>1, <2>3, <2>4, ChangeTripType DEF ApplyAction, TypeOK
<1>9. CASE RefuseAction(c)
  BY <1>9, GotoType DEF RefuseAction, TypeOK, Phases
<1>10. CASE ResolveApplied(c)
  BY <1>10, ResolvedType, SucceedType DEF ResolveApplied, TypeOK
<1>11. CASE ResolveFailed(c)
  BY <1>11, ResolvedType, ThrowType DEF ResolveFailed, TypeOK
<1>12. CASE FinishApply(c)
  BY <1>12, FinishedType, IdleType, ThrowType DEF FinishApply, TypeOK
<1>13. CASE GiveUp(c)
  BY <1>13, FinishedType, IdleType DEF GiveUp, TypeOK
<1> QED BY <1>1, <1>2, <1>3, <1>4, <1>5, <1>6, <1>7, <1>8, <1>9, <1>10, <1>11, <1>12, <1>13 DEF Proceed

LEMMA TypeStep == ASSUME IInv, [Next]_vars PROVE TypeOK'
<1> TypeOK
  BY DEF IInv
<1>1. ASSUME NEW c \in Calls, Start(c) PROVE TypeOK'
  BY <1>1, StartType
<1>2. ASSUME NEW c \in Calls, Proceed(c) PROVE TypeOK'
  BY <1>2, ProceedType
<1>3. ASSUME NEW c \in Calls, StatementFails(c) PROVE TypeOK'
  BY <1>3, ThrowType, IdleType DEF StatementFails, TypeOK
<1>4. ASSUME NEW c \in Calls, ProcessStops(c) PROVE TypeOK'
  <2>1. call' \in [Calls -> Call]
    BY <1>4, IdleType DEF ProcessStops, TypeOK
  <2> QED BY <1>4, <2>1 DEF ProcessStops, TypeOK
<1>5. CASE Owner
  <2>1. ASSUME NEW x \in Items, NEW to \in Places \cup {Gone}, Edit(x, to) PROVE TypeOK'
    <3>1. [place EXCEPT ![x] = to] \in Trip
      BY DEF TypeOK, Trip
    <3> QED BY <2>1, <3>1, ChangeTripType DEF Edit, TypeOK
  <2>2. ASSUME NEW i \in Impacts, NEW d \in {"kept", "dismissed"}, Decide(i, d) PROVE TypeOK'
    BY <2>2 DEF Decide, TypeOK, Recommendation
  <2>3. ASSUME NEW o \in Offers, Cancel(o) PROVE TypeOK'
    BY <2>3 DEF Cancel, TypeOK, Action
  <2> QED BY <1>5, <2>1, <2>2, <2>3 DEF Owner
<1>6. CASE Conditions
  BY <1>6, ImpactAssumption DEF Conditions, Observe, Lapse, TypeOK, Trip
<1>7. CASE UNCHANGED vars
  BY <1>7 DEF vars, TypeOK
<1> QED BY <1>1, <1>2, <1>3, <1>4, <1>5, <1>6, <1>7 DEF Next

-----------------------------------------------------------------------------
(* The rest of the invariant, step by step.                                *)

\* A request that ends, whatever it was doing, disturbs nothing.
LEMMA EndStep ==
  ASSUME IInv, NEW c \in Calls, call' = [call EXCEPT ![c] = Idle],
         UNCHANGED <<revision, place, rec, action, changed>>
  PROVE  Sound'
<1> USE NamesAssumption, ImpactAssumption DEF TypeOK, Actions
<1>1. ASSUME NEW a \in Actions PROVE ActionSound(a)'
  BY DEF Idle, IInv, Sound, ActionSound, Stage
<1>2. ASSUME NEW e \in Calls PROVE Stage(e)'
  BY DEF Idle, IInv, Sound, ActionSound, Stage, Exclusive, RecommendationSound
<1>3. Exclusive'
  BY DEF Idle, IInv, Sound, ActionSound, Stage, Exclusive, RecommendationSound
<1>4. ASSUME NEW j \in Impacts PROVE RecommendationSound(j)'
  BY DEF Idle, IInv, Sound, ActionSound, Stage, Exclusive, RecommendationSound
<1> QED BY <1>1, <1>2, <1>3, <1>4 DEF Sound

\* An apply that runs into an exception still holds its recommendation.
LEMMA GivingUpStep ==
  ASSUME IInv, NEW c \in Calls, IsApply(c), call' = [call EXCEPT ![c].phase = "giving_up"],
         UNCHANGED <<revision, place, rec, action, changed>>
  PROVE  Sound'
<1> USE NamesAssumption, ImpactAssumption DEF TypeOK, Actions
<1>1. ASSUME NEW a \in Actions PROVE ActionSound(a)'
  BY DEF IsApply, IInv, Sound, ActionSound, Stage
<1>2. ASSUME NEW e \in Calls PROVE Stage(e)'
  BY DEF IsApply, IInv, Sound, ActionSound, Stage, Exclusive, RecommendationSound
<1>3. Exclusive'
  BY DEF IsApply, IInv, Sound, ActionSound, Stage, Exclusive, RecommendationSound
<1>4. ASSUME NEW j \in Impacts PROVE RecommendationSound(j)'
  BY DEF IsApply, IInv, Sound, ActionSound, Stage, Exclusive, RecommendationSound
<1> QED BY <1>1, <1>2, <1>3, <1>4 DEF Sound

LEMMA ThrowStep ==
  ASSUME IInv, NEW c \in Calls, Throw(c), UNCHANGED <<revision, place, rec, action, changed>>
  PROVE  Sound'
<1>1. CASE IsApply(c)
  <2>1. call' = [call EXCEPT ![c].phase = "giving_up"]
    BY <1>1 DEF Throw
  <2> QED BY <1>1, <2>1, GivingUpStep
<1>2. CASE ~IsApply(c)
  BY <1>2, EndStep DEF Throw
<1> QED BY <1>1, <1>2

LEMMA RefreshStep ==
  ASSUME IInv, NEW c \in Calls, Refresh(c)
  PROVE  Sound'
<1> USE NamesAssumption, ImpactAssumption DEF TypeOK, Actions
<1>1. ASSUME NEW a \in Actions PROVE ActionSound(a)'
  BY DEF Refresh, Idle, IInv, Sound, ActionSound, Stage
<1>2. ASSUME NEW e \in Calls PROVE Stage(e)'
  BY DEF Refresh, Idle, IInv, Sound, ActionSound, Stage, Exclusive, RecommendationSound
<1>3. Exclusive'
  BY DEF Refresh, Idle, IInv, Sound, ActionSound, Stage, Exclusive, RecommendationSound
<1>4. ASSUME NEW j \in Impacts PROVE RecommendationSound(j)'
  BY DEF Refresh, Idle, IInv, Sound, ActionSound, Stage, Exclusive, RecommendationSound
<1> QED BY <1>1, <1>2, <1>3, <1>4 DEF Sound

LEMMA QueryStep ==
  ASSUME IInv, NEW c \in Calls, Query(c)
  PROVE  Sound'
<1> USE NamesAssumption, ImpactAssumption DEF TypeOK, Actions
<1>1. ASSUME NEW a \in Actions PROVE ActionSound(a)'
  BY DEF Query, Idle, IInv, Sound, ActionSound, Stage
<1>2. ASSUME NEW e \in Calls PROVE Stage(e)'
  BY DEF Query, Idle, IInv, Sound, ActionSound, Stage, Exclusive, RecommendationSound
<1>3. Exclusive'
  BY DEF Query, Idle, IInv, Sound, ActionSound, Stage, Exclusive, RecommendationSound
<1>4. ASSUME NEW j \in Impacts PROVE RecommendationSound(j)'
  BY DEF Query, Idle, IInv, Sound, ActionSound, Stage, Exclusive, RecommendationSound
<1> QED BY <1>1, <1>2, <1>3, <1>4 DEF Sound

LEMMA ConfirmStep ==
  ASSUME IInv, NEW c \in Calls, NEW o \in Offers, Confirm(c, o)
  PROVE  Sound'
<1> USE NamesAssumption, ImpactAssumption DEF TypeOK, Actions
<1>1. ASSUME NEW a \in Actions PROVE ActionSound(a)'
  BY DEF Confirm, Claimed, Idle, Call, Phases, IInv, Sound, ActionSound, Stage
<1>2. ASSUME NEW e \in Calls PROVE Stage(e)'
  BY DEF Confirm, Claimed, Idle, Call, Phases, IInv, Sound, ActionSound, Stage, Exclusive, RecommendationSound
<1>3. Exclusive'
  BY DEF Confirm, Claimed, Idle, Call, Phases, IInv, Sound, ActionSound, Stage, Exclusive, RecommendationSound
<1>4. ASSUME NEW j \in Impacts PROVE RecommendationSound(j)'
  BY DEF Confirm, Claimed, Idle, Call, Phases, IInv, Sound, ActionSound, Stage, Exclusive, RecommendationSound
<1> QED BY <1>1, <1>2, <1>3, <1>4 DEF Sound

LEMMA BeginApplyStep ==
  ASSUME IInv, NEW c \in Calls, NEW i \in Impacts, BeginApply(c, i)
  PROVE  Sound'
<1> USE NamesAssumption, ImpactAssumption DEF TypeOK, Actions
<1>1. ASSUME NEW a \in Actions PROVE ActionSound(a)'
  BY DEF BeginApply, Idle, IInv, Sound, ActionSound, Stage
<1>2. ASSUME NEW e \in Calls PROVE Stage(e)'
  BY DEF BeginApply, Idle, IInv, Sound, ActionSound, Stage, Exclusive, RecommendationSound
<1>3. Exclusive'
  BY DEF BeginApply, Idle, IInv, Sound, ActionSound, Stage, Exclusive, RecommendationSound
<1>4. ASSUME NEW j \in Impacts PROVE RecommendationSound(j)'
  BY DEF BeginApply, Idle, IInv, Sound, ActionSound, Stage, Exclusive, RecommendationSound
<1> QED BY <1>1, <1>2, <1>3, <1>4 DEF Sound

LEMMA NoAlternativeStep ==
  ASSUME IInv, NEW c \in Calls, NEW i \in Impacts, NoAlternative(c, i)
  PROVE  Sound'
<1>1. CASE call' = [call EXCEPT ![c] = Idle]
  BY <1>1, EndStep DEF NoAlternative
<1>2. CASE call' = [call EXCEPT ![c].todo = @ \ {i}]
  <2>1. \A e \in Calls : call'[e].phase = call[e].phase /\ call'[e].action = call[e].action
          /\ call'[e].revision = call[e].revision /\ call'[e].seen = call[e].seen
    BY <1>2 DEF IInv, TypeOK, Call
  <2> QED BY <2>1 DEF NoAlternative, Actions, IInv, Sound, ActionSound, Stage, Exclusive, RecommendationSound
<1> QED BY <1>1, <1>2 DEF NoAlternative

LEMMA CreateStep ==
  ASSUME IInv, NEW c \in Calls, NEW i \in Impacts, NEW p \in Places, Create(c, i, p)
  PROVE  Sound'
<1> DEFINE eligible == Affected(i) /\ impact[i] = call[c].seen[ItemOf[i]]
<1>1. CASE ~eligible
  BY <1>1, EndStep DEF Create
<1>2. CASE eligible
  <2>1. \A e \in Calls : call'[e].phase = call[e].phase /\ call'[e].action = call[e].action
          /\ call'[e].revision = call[e].revision /\ call'[e].seen = call[e].seen
    BY <1>2 DEF Create, IInv, TypeOK, Call
  <2>2. \A j \in Impacts : \/ rec'[j] = rec[j]
                           \/ rec'[j].status = "pending" /\ rec[j].status = "absent"
                              /\ place[ItemOf[j]] # Gone
    <3>1. CASE rec[i].status = "absent"
      <4>1. rec' = [rec EXCEPT ![i] = [status |-> "pending", original |-> call[c].seen[ItemOf[i]],
                                       alternative |-> p]]
        BY <1>2, <3>1 DEF Create, Inserted
      <4>2. place[ItemOf[i]] # Gone
        BY <1>2 DEF Affected
      <4> QED BY <3>1, <4>1, <4>2 DEF IInv, TypeOK
    <3>2. CASE rec[i].status # "absent"
      BY <1>2, <3>2 DEF Create, Inserted
    <3> QED BY <3>1, <3>2
  <2>3. UNCHANGED <<revision, place, action, changed>>
    BY DEF Create
  <2>4. ASSUME NEW a \in Actions PROVE ActionSound(a)'
    BY <2>3 DEF IInv, Sound, ActionSound
  <2>5. ASSUME NEW e \in Calls PROVE Stage(e)'
    BY <2>1, <2>2, <2>3, ImpactAssumption DEF IInv, Sound, Stage, Actions
  <2>6. Exclusive'
    BY <2>1 DEF IInv, Sound, Exclusive
  <2>7. ASSUME NEW j \in Impacts PROVE RecommendationSound(j)'
    BY <2>1, <2>2, <2>3 DEF IInv, Sound, RecommendationSound
  <2> QED BY <2>4, <2>5, <2>6, <2>7 DEF Sound
<1> QED BY <1>1, <1>2

LEMMA OfferStep ==
  ASSUME IInv, NEW c \in Calls, NEW o \in Offers, NEW x \in Items,
         NEW to \in Places \cup {Gone, Same}, Offer(c, o, x, to)
  PROVE  Sound'
<1> USE NamesAssumption, ImpactAssumption DEF TypeOK, Actions
<1>1. ASSUME NEW a \in Actions PROVE ActionSound(a)'
  BY DEF Offer, Previewed, Idle, IInv, Sound, ActionSound, Stage
<1>2. ASSUME NEW e \in Calls PROVE Stage(e)'
  BY DEF Offer, Previewed, Idle, IInv, Sound, ActionSound, Stage, Exclusive, RecommendationSound
<1>3. Exclusive'
  BY DEF Offer, Previewed, Idle, IInv, Sound, ActionSound, Stage, Exclusive, RecommendationSound
<1>4. ASSUME NEW j \in Impacts PROVE RecommendationSound(j)'
  BY DEF Offer, Previewed, Idle, IInv, Sound, ActionSound, Stage, Exclusive, RecommendationSound
<1> QED BY <1>1, <1>2, <1>3, <1>4 DEF Sound

LEMMA OfferNothingStep ==
  ASSUME IInv, NEW c \in Calls, OfferNothing(c)
  PROVE  Sound'
BY EndStep DEF OfferNothing

LEMMA ReadTripStep ==
  ASSUME IInv, NEW c \in Calls, ReadTrip(c)
  PROVE  Sound'
<1> USE NamesAssumption, ImpactAssumption DEF TypeOK, Actions
<1>1. ASSUME NEW a \in Actions PROVE ActionSound(a)'
  BY DEF ReadTrip, IInv, Sound, ActionSound, Stage
<1>2. ASSUME NEW e \in Calls PROVE Stage(e)'
  BY DEF ReadTrip, IInv, Sound, ActionSound, Stage, Exclusive, RecommendationSound
<1>3. Exclusive'
  BY DEF ReadTrip, IInv, Sound, ActionSound, Stage, Exclusive, RecommendationSound
<1>4. ASSUME NEW j \in Impacts PROVE RecommendationSound(j)'
  BY DEF ReadTrip, IInv, Sound, ActionSound, Stage, Exclusive, RecommendationSound
<1> QED BY <1>1, <1>2, <1>3, <1>4 DEF Sound

LEMMA CreatePreviewStep ==
  ASSUME IInv, NEW c \in Calls, CreatePreview(c)
  PROVE  Sound'
<1>1. CASE UNCHANGED <<revision, place, rec, action, changed>> /\ Throw(c)
  BY <1>1, ThrowStep
<1>2. CASE Previewed(c, call[c].action, ItemOf[call[c].action], call[c].alternative)
         /\ Goto(c, "previewed")
  <2> USE NamesAssumption, ImpactAssumption DEF TypeOK, Actions
  <2>1. ASSUME NEW a \in Actions PROVE ActionSound(a)'
    BY <1>2 DEF CreatePreview, Previewed, Goto, IInv, Sound, ActionSound, Stage
  <2>2. ASSUME NEW e \in Calls PROVE Stage(e)'
    BY <1>2 DEF CreatePreview, Previewed, Goto, IInv, Sound, ActionSound, Stage, Exclusive, RecommendationSound
  <2>3. Exclusive'
    BY <1>2 DEF CreatePreview, Previewed, Goto, IInv, Sound, ActionSound, Stage, Exclusive, RecommendationSound
  <2>4. ASSUME NEW j \in Impacts PROVE RecommendationSound(j)'
    BY <1>2 DEF CreatePreview, Previewed, Goto, IInv, Sound, ActionSound, Stage, Exclusive, RecommendationSound
  <2> QED BY <2>1, <2>2, <2>3, <2>4 DEF Sound
<1> QED BY <1>1, <1>2 DEF CreatePreview

LEMMA ClaimPreviewStep ==
  ASSUME IInv, NEW c \in Calls, ClaimPreview(c)
  PROVE  Sound'
<1>1. CASE UNCHANGED <<revision, place, rec, action, changed>> /\ Throw(c)
  BY <1>1, ThrowStep
<1>2. CASE Claimed(call[c].action) /\ Goto(c, "claimed")
  <2> USE NamesAssumption, ImpactAssumption DEF TypeOK, Actions
  <2>1. ASSUME NEW a \in Actions PROVE ActionSound(a)'
    BY <1>2 DEF ClaimPreview, Claimed, Goto, IInv, Sound, ActionSound, Stage
  <2>2. ASSUME NEW e \in Calls PROVE Stage(e)'
    BY <1>2 DEF ClaimPreview, Claimed, Goto, IInv, Sound, ActionSound, Stage, Exclusive, RecommendationSound
  <2>3. Exclusive'
    BY <1>2 DEF ClaimPreview, Claimed, Goto, IInv, Sound, ActionSound, Stage, Exclusive, RecommendationSound
  <2>4. ASSUME NEW j \in Impacts PROVE RecommendationSound(j)'
    BY <1>2 DEF ClaimPreview, Claimed, Goto, IInv, Sound, ActionSound, Stage, Exclusive, RecommendationSound
  <2> QED BY <2>1, <2>2, <2>3, <2>4 DEF Sound
<1> QED BY <1>1, <1>2 DEF ClaimPreview

LEMMA ApplyActionStep ==
  ASSUME IInv, NEW c \in Calls, ApplyAction(c)
  PROVE  Sound'
<1>1. \A n \in Nat : n <= revision => n <= revision' /\ n # revision'
  BY DEF ApplyAction, Goto, ChangeTrip, IInv, TypeOK
<1>2. /\ \A j \in Impacts : rec'[j] = IF place'[ItemOf[j]] = Gone THEN NoRecommendation ELSE rec[j]
      /\ action' = action
  BY DEF ApplyAction, Goto, ChangeTrip
<1>3. \A j \in Impacts : place[ItemOf[j]] = Gone => place'[ItemOf[j]] = Gone
  <2>1. call[c].action \in Actions /\ place[action[call[c].action].item] # Gone
    BY DEF ApplyAction, Applicable, IInv, Sound, Stage
  <2> QED BY <2>1, ImpactAssumption DEF ApplyAction, ChangeTrip, IInv, TypeOK, Trip
<1>4. ASSUME NEW a \in Actions PROVE ActionSound(a)'
  <2>1. action[a].revision \in Nat
    BY DEF IInv, TypeOK, Action
  <2> QED BY <1>1, <1>2, <2>1 DEF ApplyAction, Goto, IInv, Sound, ActionSound, Stage, Actions
<1>5. /\ \A e \in Calls : call'[e].action = call[e].action
      /\ Exclusive'
  BY DEF ApplyAction, Goto, IInv, TypeOK, Sound, Exclusive, Call
<1>6. ASSUME NEW e \in Calls PROVE Stage(e)'
  <2>1. call[e].revision \in Nat
    BY DEF IInv, TypeOK, Call
  <2>2. CASE e = c
    <3>1. call'[c].phase = "changed" /\ call'[c].action = call[c].action
      BY DEF ApplyAction, Goto, IInv, TypeOK, Call
    <3>2. call[c].phase = "claimed" /\ call[c].action \in changed' /\ action' = action
      BY DEF ApplyAction
    <3> QED BY <1>2, <1>3, <2>2, <3>1, <3>2 DEF NoRecommendation, IInv, Sound, Stage
  <2>3. CASE e # c
    <3>1. changed' = changed \cup {call[c].action} /\ call'[e] = call[e] /\ call[c].phase = "claimed"
      BY <2>3 DEF ApplyAction, Goto, IInv, TypeOK
    <3>2. call[e].action # call[c].action
      BY <2>3, NamesAssumption DEF ApplyAction, IInv, Sound, Exclusive, Stage, Actions
    <3> QED BY <1>1, <1>2, <1>3, <2>1, <3>1, <3>2 DEF IInv, Sound, Stage, NoRecommendation
  <2> QED BY <2>2, <2>3
<1>7. ASSUME NEW j \in Impacts PROVE RecommendationSound(j)'
  BY <1>2, <1>3, <1>5 DEF NoRecommendation, IInv, Sound, RecommendationSound
<1> QED BY <1>4, <1>5, <1>6, <1>7 DEF Sound

LEMMA RefuseActionStep ==
  ASSUME IInv, NEW c \in Calls, RefuseAction(c)
  PROVE  Sound'
<1> USE NamesAssumption, ImpactAssumption DEF TypeOK, Actions
<1>1. ASSUME NEW a \in Actions PROVE ActionSound(a)'
  BY DEF RefuseAction, Goto, IInv, Sound, ActionSound, Stage
<1>2. ASSUME NEW e \in Calls PROVE Stage(e)'
  BY DEF RefuseAction, Goto, IInv, Sound, ActionSound, Stage, Exclusive, RecommendationSound
<1>3. Exclusive'
  BY DEF RefuseAction, Goto, IInv, Sound, ActionSound, Stage, Exclusive, RecommendationSound
<1>4. ASSUME NEW j \in Impacts PROVE RecommendationSound(j)'
  BY DEF RefuseAction, Goto, IInv, Sound, ActionSound, Stage, Exclusive, RecommendationSound
<1> QED BY <1>1, <1>2, <1>3, <1>4 DEF Sound

LEMMA ResolveAppliedStep ==
  ASSUME IInv, NEW c \in Calls, ResolveApplied(c)
  PROVE  Sound'
<1> USE NamesAssumption, ImpactAssumption DEF TypeOK, Actions
<1>1. ASSUME NEW a \in Actions PROVE ActionSound(a)'
  BY DEF ResolveApplied, Resolved, Succeed, IsApply, Idle, IInv, Sound, ActionSound, Stage
<1>2. ASSUME NEW e \in Calls PROVE Stage(e)'
  BY DEF ResolveApplied, Resolved, Succeed, IsApply, Idle, IInv, Sound, ActionSound, Stage, Exclusive, RecommendationSound
<1>3. Exclusive'
  BY DEF ResolveApplied, Resolved, Succeed, IsApply, Idle, IInv, Sound, ActionSound, Stage, Exclusive, RecommendationSound
<1>4. ASSUME NEW j \in Impacts PROVE RecommendationSound(j)'
  BY DEF ResolveApplied, Resolved, Succeed, IsApply, Idle, IInv, Sound, ActionSound, Stage, Exclusive, RecommendationSound
<1> QED BY <1>1, <1>2, <1>3, <1>4 DEF Sound

LEMMA ResolveFailedStep ==
  ASSUME IInv, NEW c \in Calls, ResolveFailed(c)
  PROVE  Sound'
<1> USE NamesAssumption, ImpactAssumption DEF TypeOK, Actions
<1>1. ASSUME NEW a \in Actions PROVE ActionSound(a)'
  BY DEF ResolveFailed, Resolved, Throw, IsApply, Idle, IInv, Sound, ActionSound, Stage
<1>2. ASSUME NEW e \in Calls PROVE Stage(e)'
  BY DEF ResolveFailed, Resolved, Throw, IsApply, Idle, IInv, Sound, ActionSound, Stage, Exclusive, RecommendationSound
<1>3. Exclusive'
  BY DEF ResolveFailed, Resolved, Throw, IsApply, Idle, IInv, Sound, ActionSound, Stage, Exclusive, RecommendationSound
<1>4. ASSUME NEW j \in Impacts PROVE RecommendationSound(j)'
  BY DEF ResolveFailed, Resolved, Throw, IsApply, Idle, IInv, Sound, ActionSound, Stage, Exclusive, RecommendationSound
<1> QED BY <1>1, <1>2, <1>3, <1>4 DEF Sound

LEMMA FinishApplyStep ==
  ASSUME IInv, NEW c \in Calls, FinishApply(c)
  PROVE  Sound'
<1>1. CASE UNCHANGED <<revision, place, rec, action, changed>> /\ Throw(c)
  BY <1>1, ThrowStep
<1>2. CASE Finished(call[c].action, "applied") /\ call' = [call EXCEPT ![c] = Idle]
  <2> USE NamesAssumption, ImpactAssumption DEF TypeOK, Actions
  <2>1. ASSUME NEW a \in Actions PROVE ActionSound(a)'
    BY <1>2 DEF FinishApply, Finished, Idle, IInv, Sound, ActionSound, Stage
  <2>2. ASSUME NEW e \in Calls PROVE Stage(e)'
    BY <1>2 DEF FinishApply, Finished, Idle, IInv, Sound, ActionSound, Stage, Exclusive, RecommendationSound
  <2>3. Exclusive'
    BY <1>2 DEF FinishApply, Finished, Idle, IInv, Sound, ActionSound, Stage, Exclusive, RecommendationSound
  <2>4. ASSUME NEW j \in Impacts PROVE RecommendationSound(j)'
    BY <1>2 DEF FinishApply, Finished, Idle, IInv, Sound, ActionSound, Stage, Exclusive, RecommendationSound
  <2> QED BY <2>1, <2>2, <2>3, <2>4 DEF Sound
<1> QED BY <1>1, <1>2 DEF FinishApply

LEMMA GiveUpStep ==
  ASSUME IInv, NEW c \in Calls, GiveUp(c)
  PROVE  Sound'
<1>1. CASE UNCHANGED <<revision, place, rec, action, changed>> /\ call' = [call EXCEPT ![c] = Idle]
  BY <1>1, EndStep
<1>2. CASE Finished(call[c].action, "failed") /\ call' = [call EXCEPT ![c] = Idle]
  <2> USE NamesAssumption, ImpactAssumption DEF TypeOK, Actions
  <2>1. ASSUME NEW a \in Actions PROVE ActionSound(a)'
    BY <1>2 DEF GiveUp, Finished, Idle, IInv, Sound, ActionSound, Stage
  <2>2. ASSUME NEW e \in Calls PROVE Stage(e)'
    BY <1>2 DEF GiveUp, Finished, Idle, IInv, Sound, ActionSound, Stage, Exclusive, RecommendationSound
  <2>3. Exclusive'
    BY <1>2 DEF GiveUp, Finished, Idle, IInv, Sound, ActionSound, Stage, Exclusive, RecommendationSound
  <2>4. ASSUME NEW j \in Impacts PROVE RecommendationSound(j)'
    BY <1>2 DEF GiveUp, Finished, Idle, IInv, Sound, ActionSound, Stage, Exclusive, RecommendationSound
  <2> QED BY <2>1, <2>2, <2>3, <2>4 DEF Sound
<1> QED BY <1>1, <1>2 DEF GiveUp

LEMMA StatementFailsStep ==
  ASSUME IInv, NEW c \in Calls, StatementFails(c)
  PROVE  Sound'
BY ThrowStep, EndStep DEF StatementFails

LEMMA ProcessStopsStep ==
  ASSUME IInv, NEW c \in Calls, ProcessStops(c)
  PROVE  Sound'
BY EndStep DEF ProcessStops

LEMMA EditStep ==
  ASSUME IInv, NEW x \in Items, NEW to \in Places \cup {Gone}, Edit(x, to)
  PROVE  Sound'
<1>1. \A n \in Nat : n <= revision => n <= revision' /\ n # revision'
  BY DEF Edit, ChangeTrip, IInv, TypeOK
<1>2. /\ \A j \in Impacts : rec'[j] = IF place'[ItemOf[j]] = Gone THEN NoRecommendation ELSE rec[j]
      /\ action' = action
  BY DEF Edit, ChangeTrip
<1>3. \A j \in Impacts : place[ItemOf[j]] = Gone => place'[ItemOf[j]] = Gone
  BY ImpactAssumption DEF Edit, ChangeTrip, IInv, TypeOK, Trip
<1>4. ASSUME NEW a \in Actions PROVE ActionSound(a)'
  <2>1. action[a].revision \in Nat
    BY DEF IInv, TypeOK, Action
  <2> QED BY <1>1, <1>2, <2>1 DEF Edit, IInv, Sound, ActionSound, Stage, Actions
<1>5. /\ \A e \in Calls : call'[e].action = call[e].action
      /\ Exclusive'
  BY DEF Edit, IInv, TypeOK, Sound, Exclusive, Call
<1>6. ASSUME NEW e \in Calls PROVE Stage(e)'
  <2>1. call[e].revision \in Nat
    BY DEF IInv, TypeOK, Call
  <2> QED BY <1>1, <1>2, <1>3, <2>1 DEF Edit, IInv, Sound, Stage, NoRecommendation
<1>7. ASSUME NEW j \in Impacts PROVE RecommendationSound(j)'
  BY <1>2, <1>3, <1>5 DEF NoRecommendation, IInv, Sound, RecommendationSound
<1> QED BY <1>4, <1>5, <1>6, <1>7 DEF Sound

LEMMA DecideStep ==
  ASSUME IInv, NEW i \in Impacts, NEW d \in {"kept", "dismissed"}, Decide(i, d)
  PROVE  Sound'
<1> USE NamesAssumption, ImpactAssumption DEF TypeOK, Actions
<1>1. ASSUME NEW a \in Actions PROVE ActionSound(a)'
  BY DEF Decide, IInv, Sound, ActionSound, Stage
<1>2. ASSUME NEW e \in Calls PROVE Stage(e)'
  BY DEF Decide, IInv, Sound, ActionSound, Stage, Exclusive, RecommendationSound
<1>3. Exclusive'
  BY DEF Decide, IInv, Sound, ActionSound, Stage, Exclusive, RecommendationSound
<1>4. ASSUME NEW j \in Impacts PROVE RecommendationSound(j)'
  BY DEF Decide, IInv, Sound, ActionSound, Stage, Exclusive, RecommendationSound
<1> QED BY <1>1, <1>2, <1>3, <1>4 DEF Sound

LEMMA CancelStep ==
  ASSUME IInv, NEW o \in Offers, Cancel(o)
  PROVE  Sound'
<1> USE NamesAssumption, ImpactAssumption DEF TypeOK, Actions
<1>1. ASSUME NEW a \in Actions PROVE ActionSound(a)'
  BY DEF Cancel, IInv, Sound, ActionSound, Stage
<1>2. ASSUME NEW e \in Calls PROVE Stage(e)'
  BY DEF Cancel, IInv, Sound, ActionSound, Stage, Exclusive, RecommendationSound
<1>3. Exclusive'
  BY DEF Cancel, IInv, Sound, ActionSound, Stage, Exclusive, RecommendationSound
<1>4. ASSUME NEW j \in Impacts PROVE RecommendationSound(j)'
  BY DEF Cancel, IInv, Sound, ActionSound, Stage, Exclusive, RecommendationSound
<1> QED BY <1>1, <1>2, <1>3, <1>4 DEF Sound

LEMMA StartSound == ASSUME IInv, NEW c \in Calls, Start(c) PROVE Sound'
BY RefreshStep, QueryStep, ConfirmStep, BeginApplyStep DEF Start

LEMMA ProceedSound == ASSUME IInv, NEW c \in Calls, Proceed(c) PROVE Sound'
BY NoAlternativeStep, CreateStep, OfferStep, OfferNothingStep, ReadTripStep, CreatePreviewStep,
   ClaimPreviewStep, ApplyActionStep, RefuseActionStep, ResolveAppliedStep, ResolveFailedStep,
   FinishApplyStep, GiveUpStep DEF Proceed

LEMMA OwnerSound == ASSUME IInv, Owner PROVE Sound'
BY EditStep, DecideStep, CancelStep DEF Owner

\* Nothing in the invariant speaks of the impacts.
LEMMA FrameSound ==
  ASSUME IInv, UNCHANGED <<revision, place, rec, action, changed, call>> PROVE Sound'
BY DEF IInv, Sound, ActionSound, Stage, Exclusive, RecommendationSound

LEMMA SoundStep == ASSUME IInv, [Next]_vars PROVE Sound'
<1>1. CASE Conditions
  BY <1>1, FrameSound DEF Conditions, Observe, Lapse
<1>2. CASE UNCHANGED vars
  BY <1>2, FrameSound DEF vars
<1> QED BY <1>1, <1>2, StartSound, ProceedSound, StatementFailsStep, ProcessStopsStep, OwnerSound DEF Next

-----------------------------------------------------------------------------
(* The theorems.                                                           *)

LEMMA InitSound == Init => IInv
<1> SUFFICES ASSUME Init PROVE IInv
  OBVIOUS
<1>1. \A a \in Actions : action[a] = NoAction
  BY DEF Init
<1>2. \A c \in Calls : call[c] = Idle
  BY DEF Init
<1>3. TypeOK
  <2>1. NoAction \in Action
    BY DEF NoAction, Action, Trip, Deleted
  <2>2. NoRecommendation \in Recommendation
    BY DEF NoRecommendation, Recommendation
  <2>3. place \in Trip
    BY DEF Init, Trip
  <2> QED BY <2>1, <2>2, <2>3, IdleIsCall DEF Init, TypeOK
<1>4. Sound
  <2>1. \A a \in Actions : ActionSound(a)
    BY <1>1 DEF ActionSound, NoAction, Init
  <2>2. \A c \in Calls : Stage(c)
    BY <1>2, NamesAssumption DEF Stage, Idle
  <2>3. Exclusive
    BY <1>2 DEF Exclusive, Idle
  <2>4. \A i \in Impacts : RecommendationSound(i)
    BY <1>1, <1>2, NamesAssumption DEF RecommendationSound, Init, NoRecommendation, NoAction, Idle, Actions
  <2> QED BY <2>1, <2>2, <2>3, <2>4 DEF Sound
<1> QED BY <1>3, <1>4 DEF IInv

\* The records of actions, requests and recommendations agree at every point of every
\* request, whatever the owner, other requests and faults do.
THEOREM Inductive == Spec => []IInv
<1>1. IInv /\ [Next]_vars => IInv'
  BY TypeStep, SoundStep DEF IInv
<1> QED BY InitSound, <1>1, PTL DEF Spec

\* The type invariant.
THEOREM TypeCorrect == Spec => []TypeOK
<1>1. IInv => TypeOK
  BY DEF IInv
<1> QED BY Inductive, <1>1, PTL

\* What an action records is what happened to the trip.
THEOREM OutcomeIsTrueHolds == Spec => []OutcomeIsTrue
<1>1. IInv => OutcomeIsTrue
  BY DEF IInv, Sound, ActionSound, OutcomeIsTrue
<1> QED BY Inductive, <1>1, PTL

\* A recommendation recorded as applied was carried out.
THEOREM AppliedIsBackedHolds == Spec => []AppliedIsBacked
<1>1. IInv => AppliedIsBacked
  BY DEF IInv, Sound, ActionSound, RecommendationSound, AppliedIsBacked, Actions
<1> QED BY Inductive, <1>1, PTL

\* The only step that commits a change is applyAction.
LEMMA CommitIsApplyAction ==
  ASSUME TypeOK, [Next]_vars, NEW c \in Calls, Commits(c) PROVE ApplyAction(c)
<1> USE DEF Commits, TypeOK, Call
<1>1. ASSUME NEW d \in Calls, Start(d) PROVE FALSE
  BY <1>1 DEF Start, Refresh, Query, Confirm, BeginApply, Idle
<1>2. ASSUME NEW d \in Calls, Proceed(d) PROVE d = c /\ ApplyAction(d)
  BY <1>2 DEF Proceed, NoAlternative, Create, Offer, OfferNothing, ReadTrip, CreatePreview,
     ClaimPreview, ApplyAction, RefuseAction, ResolveApplied, ResolveFailed, FinishApply, GiveUp,
     Succeed, Throw, Goto, Idle
<1>3. ASSUME NEW d \in Calls, StatementFails(d) \/ ProcessStops(d) PROVE FALSE
  BY <1>3 DEF StatementFails, ProcessStops, Throw, Idle
<1>4. ASSUME Owner \/ Conditions \/ UNCHANGED vars PROVE FALSE
  BY <1>4 DEF Owner, Edit, Decide, Cancel, Conditions, Observe, Lapse, vars
<1> QED BY <1>1, <1>2, <1>3, <1>4 DEF Next

\* An action changes the very trip its preview was derived from.
THEOREM ChangesWhatWasPreviewedHolds == Spec => ChangesWhatWasPreviewed
<1>1. ASSUME IInv, [Next]_vars, NEW c \in Calls, Commits(c)
      PROVE  place = action[call[c].action].seen
  <2>1. ApplyAction(c)
    BY <1>1, CommitIsApplyAction DEF IInv
  <2> QED BY <1>1, <2>1 DEF ApplyAction, Applicable, IInv, Sound, Stage, ActionSound
<1>2. IInv /\ [Next]_vars => [\A c \in Calls : Commits(c) => place = action[call[c].action].seen]_vars
  BY <1>1
<1> QED BY Inductive, <1>2, PTL DEF Spec, ChangesWhatWasPreviewed

\* Only a recommendation that is being applied replaces an item.
THEOREM OnlyAppliedReplacesHolds == Spec => OnlyAppliedReplaces
<1>1. ASSUME IInv, [Next]_vars, NEW c \in Calls, Commits(c), IsApply(c)
      PROVE  rec[call[c].action].status = "applying"
  <2>1. ApplyAction(c)
    BY <1>1, CommitIsApplyAction DEF IInv
  <2> QED BY <1>1, <2>1 DEF ApplyAction, Applicable, IsApply, IInv, Sound, Stage, ActionSound, Actions
<1>2. IInv /\ [Next]_vars =>
        [\A c \in Calls : Commits(c) /\ IsApply(c) => rec[call[c].action].status = "applying"]_vars
  BY <1>1
<1> QED BY Inductive, <1>2, PTL DEF Spec, OnlyAppliedReplaces

\* What was kept, dismissed or applied is never offered again for that impact.
THEOREM DecisionIsFinalHolds == Spec => DecisionIsFinal
<1> DEFINE Final(i) == rec[i].status \in {"kept", "dismissed", "applied"} =>
                         rec'[i] = rec[i] \/ place'[ItemOf[i]] = Gone
<1>1. ASSUME TypeOK, [Next]_vars, NEW i \in Impacts PROVE Final(i)
  <2>1. ASSUME NEW trip, ChangeTrip(trip) PROVE Final(i)
    BY <2>1 DEF ChangeTrip
  <2>2. ASSUME NEW j, NEW outcome, Finished(j, outcome) PROVE Final(i)
    BY <1>1, <2>2 DEF Finished, TypeOK
  <2>3. ASSUME NEW c \in Calls, NEW j \in Impacts, NEW p \in Places, Create(c, j, p)
        PROVE  Final(i)
    BY <1>1, <2>3 DEF Create, Inserted, TypeOK
  <2>4. ASSUME NEW c \in Calls, Start(c) PROVE Final(i)
    BY <1>1, <2>4 DEF Start, Refresh, Query, Confirm, BeginApply, TypeOK
  <2>5. ASSUME NEW c \in Calls, Proceed(c) PROVE Final(i)
    BY <2>1, <2>2, <2>3, <2>5 DEF Proceed, NoAlternative, Offer, OfferNothing, ReadTrip,
       CreatePreview, ClaimPreview, ApplyAction, RefuseAction, ResolveApplied, ResolveFailed,
       FinishApply, GiveUp
  <2>6. ASSUME NEW c \in Calls, StatementFails(c) \/ ProcessStops(c) PROVE Final(i)
    BY <2>6 DEF StatementFails, ProcessStops
  <2>7. CASE Owner
    BY <1>1, <2>1, <2>7 DEF Owner, Edit, Decide, Cancel, TypeOK
  <2>8. CASE Conditions \/ UNCHANGED vars
    BY <2>8 DEF Conditions, Observe, Lapse, vars
  <2> QED BY <1>1, <2>4, <2>5, <2>6, <2>7, <2>8 DEF Next
<1>2. TypeOK /\ [Next]_vars => [\A i \in Impacts : Final(i)]_vars
  BY <1>1
<1> QED BY TypeCorrect, <1>2, PTL DEF Spec, DecisionIsFinal

=============================================================================
