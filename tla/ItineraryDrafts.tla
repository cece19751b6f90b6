---------------------------- MODULE ItineraryDrafts ----------------------------
(***************************************************************************)
(* One run of the engine that drafts an itinerary                          *)
(* (packages/ai/src/itinerary-generation.ts over gateway.ts): a model is   *)
(* asked through the gateway, its draft is checked in one pass over its    *)
(* days and items, and a draft that cannot be travelled is sent back with  *)
(* the issues found, a bounded number of times.  What the worker makes of  *)
(* the outcome is ItineraryGeneration.                                     *)
(*                                                                         *)
(* A brief is what the engine is given: the request [from, to, transfers,  *)
(* longest, needs, budget, unit], the grounding context [evidence,         *)
(* sources], and the destinations of each.  Evidence is a set of [places,  *)
(* facts]: an item of the context tells its facts of each of its places.   *)
(* Amounts are in thousandths of the currency, unit is its minor unit.     *)
(* A draft is [sources, blocked, warned, days]; a day is [id, date, zone,  *)
(* items]; an item is [id, type, place, from, to, lasts, cost, cites].     *)
(***************************************************************************)
EXTENDS Integers, FiniteSets, Sequences, SequencesExt

CONSTANTS
  Null,       \* null: a time, duration, place, cost or budget not given
  Briefs,
  Replies,      \* the drafts a model may answer with
  MaxRepairAttempts,
  MaxWarnings   \* warnings admitted by itineraryOutputV1Schema (50)

\* The values given, by schema: identifiers and places are strings, dates and
\* times are numbers.
Costs == [min : Nat, max : Nat \union {Null}, ours : BOOLEAN]
Items == [id : STRING, type : STRING, place : STRING \union {Null}, from : Nat \union {Null},
          to : Nat \union {Null}, lasts : Nat \union {Null}, cost : Costs \union {Null}, cites : SUBSET Nat]
Days == [id : STRING, date : Nat, zone : BOOLEAN, items : Seq(Items)]

DraftConstants ==
  /\ MaxRepairAttempts \in Nat /\ MaxWarnings \in Nat
  /\ Null \notin Nat \union STRING \union Costs \union Items
  /\ \A c \in Replies : c.blocked \in BOOLEAN /\ c.days \in Seq(Days)
  /\ \A b \in Briefs :
       /\ b.from \in Nat /\ b.to \in Nat /\ b.transfers \in Nat /\ b.longest \in Nat
       /\ b.needs \in BOOLEAN /\ b.budget \in Nat \union {Null} /\ b.unit \in Nat \ {0}

VARIABLE draft  \* [pc, brief, reply, issues, repairs, retry, given]

NoBrief == [asked |-> {}, grounded |-> {}]
NoReply == [days |-> <<>>]
Idle == [pc |-> "idle", brief |-> NoBrief, reply |-> NoReply, issues |-> {}, repairs |-> 0,
         retry |-> FALSE, given |-> {}]

---------------------------------------------------------------------------
\* What the context says of a place.
Said(brief, p, keys) ==
  {f[2] : f \in {g \in UNION {e.facts : e \in {x \in brief.evidence : p \in x.places}} : g[1] \in keys}}
Known(brief) == UNION {e.places : e \in brief.evidence}

AvailabilityFor(brief, p) ==
  LET said == Said(brief, p, {"availability", "operating_status"})
  IN IF "closed" \in said THEN "closed" ELSE IF "open" \in said THEN "open" ELSE "unknown"

AccessibilityFor(brief, p) ==
  LET said == Said(brief, p, {"accessibility", "wheelchair_accessible"})
  IN IF "no" \in said THEN "inaccessible" ELSE IF "yes" \in said THEN "accessible" ELSE "unknown"

\* Math.round of an amount in the minor unit of the currency.
Minor(brief, amount) == (amount + brief.unit \div 2) \div brief.unit

Of(code, about) == [code |-> code, about |-> about]
Warnings == {"unknown_availability", "accessibility_unknown", "budget_unknown"}
Blocking(issues) == {i \in issues : i.code \notin Warnings}

\* The issue a rule finds where its condition holds.
When(condition, code, about) == IF condition THEN {Of(code, about)} ELSE {}

Stays(i) == i.type \in {"accommodation", "transport"}
Visits(i) == i.type \notin {"accommodation", "break", "transport"}
Timed(i) == i.from # Null /\ i.to # Null

---------------------------------------------------------------------------
\* validateItineraryCandidate: one pass that carries the identifiers and dates
\* met, the places with the item that first visits them, the last timed item
\* of the day, and the costs so far.

\* Mutant: an item may begin before the one before it ends, but not before it begins.
TimingByStart(s, i) == UNION {
  When((i.from = Null) # (i.to = Null), "impossible_timing", {i.id}),
  When(Timed(i) /\ i.to <= i.from, "impossible_timing", {i.id}),
  When(Timed(i) /\ s.last # Null /\ i.from < s.last.from, "impossible_timing", {i.id}),
  When(Timed(i) /\ i.lasts # Null /\ i.to - i.from - i.lasts \notin -5 .. 5, "impossible_timing", {i.id})}
Timing(s, i) == LET prior == IF s.last = Null THEN {} ELSE {s.last.id} IN UNION {
  When((i.from = Null) # (i.to = Null), "impossible_timing", {i.id}),
  When(Timed(i) /\ i.to <= i.from, "impossible_timing", {i.id}),
  When(Timed(i) /\ s.last # Null /\ i.from < s.last.to, "impossible_timing", prior \union {i.id}),
  When(Timed(i) /\ i.lasts # Null /\ i.to - i.from - i.lasts \notin -5 .. 5, "impossible_timing", {i.id})}

Placing(brief, s, i) ==
  LET before == {v \in s.seen : v.place = i.place}
      open == AvailabilityFor(brief, i.place)
      access == AccessibilityFor(brief, i.place)
  IN IF i.place = Null THEN {} ELSE UNION {
       When(i.place \notin Known(brief), "unsupported_place", {i.id}),
       When(~Stays(i) /\ before # {}, "duplicate_place", {i.id} \union {v.id : v \in before}),
       When(Visits(i) /\ open = "closed", "closed_availability", {i.id}),
       When(Visits(i) /\ open = "unknown", "unknown_availability", {i.id}),
       When(Visits(i) /\ brief.needs /\ access = "inaccessible", "accessibility_conflict", {i.id}),
       When(Visits(i) /\ brief.needs /\ access = "unknown", "accessibility_unknown", {i.id})}

Top(cost) == IF cost.max = Null THEN cost.min ELSE cost.max
Reversed(cost) == cost.max # Null /\ cost.max < cost.min

Costing(i) == IF i.cost = Null THEN {} ELSE UNION {
  When(Reversed(i.cost), "budget_conflict", {i.id}),
  When(~Reversed(i.cost) /\ ~i.cost.ours, "currency_conflict", {i.id})}

CheckItem(brief, s, i) ==
  [s EXCEPT
     !.ids = @ \union {i.id},
     !.last = IF Timed(i) THEN i ELSE @,
     !.seen = IF i.place = Null \/ Stays(i) \/ \E v \in @ : v.place = i.place
              THEN @ ELSE @ \union {[place |-> i.place, id |-> i.id]},
     !.total = IF i.cost # Null /\ ~Reversed(i.cost) /\ i.cost.ours THEN @ + Minor(brief, Top(i.cost)) ELSE @,
     !.unpriced = @ \/ (i.cost = Null /\ i.type \notin {"break", "transport"}),
     !.issues = @ \union Timing(s, i) \union Placing(brief, s, i) \union Costing(i) \union (UNION {
       When(i.id \in s.ids, "duplicate_candidate_id", {i.id}),
       When(i.type = "transport" /\ i.lasts # Null /\ i.lasts > brief.longest, "excessive_transfer", {i.id})})]

CheckItems(brief, s, items) ==
  LET after[n \in 0 .. Len(items)] == IF n = 0 THEN s ELSE CheckItem(brief, after[n - 1], items[n])
  IN after[Len(items)]

Rides(d) == {n \in DOMAIN d.items : d.items[n].type = "transport"}

CheckDay(brief, s, d) ==
  LET begun == [s EXCEPT
        !.ids = @ \union {d.id}, !.dates = @ \union {d.date}, !.last = Null,
        !.issues = @ \union (UNION {
          When(d.id \in s.ids, "duplicate_candidate_id", {d.id}),
          When(d.date \in s.dates, "duplicate_day", {d.id}),
          When(d.date \notin brief.from .. brief.to, "outside_date_window", {d.id}),
          When(~d.zone, "invalid_timezone", {d.id}),
          When(Cardinality(Rides(d)) > brief.transfers, "excessive_transfer", {d.items[n].id : n \in Rides(d)})})]
  IN CheckItems(brief, begun, d.items)

CheckDays(brief, s, days) ==
  LET after[k \in 0 .. Len(days)] == IF k = 0 THEN s ELSE CheckDay(brief, after[k - 1], days[k])
  IN after[Len(days)]

Validate(brief, c) ==
  LET start == [ids |-> {}, dates |-> {}, seen |-> {}, last |-> Null, total |-> 0, unpriced |-> FALSE,
                issues |-> UNION {When(~(c.sources \subseteq brief.sources), "unsupported_source", {}),
                                  When(c.blocked, "model_blocking_warning", {})}]
      end == CheckDays(brief, start, c.days)
  IN end.issues \union (UNION {
       When(brief.budget # Null /\ end.total > brief.budget, "budget_conflict", {}),
       When(brief.budget # Null /\ end.unpriced, "budget_unknown", {})})

\* itineraryOutputV1Schema: sources are told apart by their identifiers, and
\* items cite none but them.
ItemsOf(c) == UNION {ToSet(c.days[k].items) : k \in DOMAIN c.days}
WellFormed(c) ==
  /\ \A s, t \in c.sources : s.id = t.id => s = t
  /\ \A i \in ItemsOf(c) : i.cites \subseteq {s.id : s \in c.sources}

---------------------------------------------------------------------------
\* generate: what it was grounded for is what was requested, or it throws.
Begin == \E b \in Briefs, repaired \in 0 .. MaxRepairAttempts :
  /\ draft.pc = "idle"
  /\ draft' = [Idle EXCEPT !.pc = IF b.asked = b.grounded THEN "asking" ELSE "thrown",
                 !.brief = b, !.repairs = repaired]

\* The gateway parses an answer against the schema.
Answer == \E c \in Replies :
  /\ draft.pc = "asking" /\ WellFormed(c)
  /\ draft' = [draft EXCEPT !.pc = "judged", !.reply = c, !.issues = Validate(draft.brief, c)]

Fails(retry) == draft' = [draft EXCEPT !.pc = "failed", !.retry = retry, !.reply = NoReply, !.issues = {}]

InvalidOutput == draft.pc = "asking" /\ (\E c \in Replies : ~WellFormed(c)) /\ Fails(TRUE)

\* The provider fails, refuses, is late, or the caller gives up: whichever of
\* them comes first settles the call.
ProviderFails == draft.pc = "asking" /\ \E retry \in BOOLEAN : Fails(retry)
Timeout == draft.pc = "asking" /\ Fails(TRUE)
Cancelled == draft.pc = "asking" /\ Fails(FALSE)

\* A rejected draft goes back to the model with its blocking issues.
Repair ==
  /\ draft.pc = "judged" /\ Blocking(draft.issues) # {} /\ draft.repairs < MaxRepairAttempts
  /\ draft' = [draft EXCEPT !.pc = "asking", !.repairs = @ + 1, !.reply = NoReply, !.issues = {}]

GiveUp ==
  /\ draft.pc = "judged" /\ Blocking(draft.issues) # {} /\ draft.repairs >= MaxRepairAttempts
  /\ Fails(FALSE)

\* withValidationWarnings, parsed against the schema again, which throws.
Told(c, issues) == c.warned \union {i \in issues : i.code \in Warnings}

Deliver ==
  /\ draft.pc = "judged" /\ Blocking(draft.issues) = {}
  /\ LET told == Told(draft.reply, draft.issues)
     IN draft' = [draft EXCEPT !.pc = IF Cardinality(told) <= MaxWarnings THEN "done" ELSE "thrown", !.given = told]

DraftNext ==
  \/ Begin \/ Answer \/ InvalidOutput \/ ProviderFails \/ Timeout \/ Cancelled
  \/ Repair \/ GiveUp \/ Deliver

---------------------------------------------------------------------------
(* What a draft must be to be travelled, whatever order it is checked in.  *)

Places(c) == {i.place : i \in {x \in ItemsOf(c) : x.place # Null}}
Where(c) == UNION {{<<k, n>> : n \in DOMAIN c.days[k].items} : k \in DOMAIN c.days}
At(c, w) == c.days[w[1]].items[w[2]]

Price(brief, i) == IF i.cost = Null THEN 0 ELSE Minor(brief, Top(i.cost))
DaySpent(brief, items) ==
  LET sum[n \in 0 .. Len(items)] == IF n = 0 THEN 0 ELSE sum[n - 1] + Price(brief, items[n])
  IN sum[Len(items)]
Spent(brief, days) ==
  LET sum[k \in 0 .. Len(days)] == IF k = 0 THEN 0 ELSE sum[k - 1] + DaySpent(brief, days[k].items)
  IN sum[Len(days)]

Distinct(c) ==
  /\ \A j, k \in DOMAIN c.days : c.days[j].id = c.days[k].id \/ c.days[j].date = c.days[k].date => j = k
  /\ \A v, w \in Where(c) : At(c, v).id = At(c, w).id => v = w
  /\ {c.days[k].id : k \in DOMAIN c.days} \intersect {i.id : i \in ItemsOf(c)} = {}
  /\ \A v, w \in Where(c) : ~Stays(At(c, v)) /\ ~Stays(At(c, w)) /\ At(c, v).place = At(c, w).place
       => v = w \/ At(c, v).place = Null

\* No two items of a day overlap, and they come in the order of the day.
InTime(c) ==
  /\ \A i \in ItemsOf(c) : /\ (i.from = Null) = (i.to = Null)
                           /\ Timed(i) => i.from < i.to /\ (i.lasts # Null => i.to - i.from - i.lasts \in -5 .. 5)
  /\ \A v, w \in Where(c) : v[1] = w[1] /\ v[2] < w[2] /\ Timed(At(c, v)) /\ Timed(At(c, w)) => At(c, v).to <= At(c, w).from

Grounded(brief, c) ==
  /\ c.sources \subseteq brief.sources /\ Places(c) \subseteq Known(brief)
  /\ \A i \in ItemsOf(c) : Visits(i) /\ i.place # Null =>
       /\ "closed" \notin Said(brief, i.place, {"availability", "operating_status"})
       /\ brief.needs => "no" \notin Said(brief, i.place, {"accessibility", "wheelchair_accessible"})

Admitted(brief, c) ==
  /\ ~c.blocked
  /\ \A k \in DOMAIN c.days :
       /\ c.days[k].zone /\ c.days[k].date \in brief.from .. brief.to
       /\ Cardinality(Rides(c.days[k])) <= brief.transfers
  /\ \A i \in ItemsOf(c) : /\ i.type = "transport" /\ i.lasts # Null => i.lasts <= brief.longest
                           /\ i.cost # Null => i.cost.ours /\ ~Reversed(i.cost)
  /\ brief.budget # Null => Spent(brief, c.days) <= brief.budget

Feasible(brief, c) == Distinct(c) /\ InTime(c) /\ Grounded(brief, c) /\ Admitted(brief, c)

\* A draft passes the check exactly if it can be travelled.
VerdictIsFeasibility ==
  draft.pc = "judged" => (Blocking(draft.issues) = {} <=> Feasible(draft.brief, draft.reply))

\* A draft that is handed on tells of every place it visits on no evidence that
\* it is open, or fit for its travellers, and of a budget checked with costs
\* missing, beside all that the model warned of itself.
UnknownsAreTold == draft.pc = "done" =>
  /\ draft.reply.warned \subseteq draft.given
  /\ \A i \in ItemsOf(draft.reply) : Visits(i) /\ i.place # Null =>
       /\ "open" \notin Said(draft.brief, i.place, {"availability", "operating_status"})
            => Of("unknown_availability", {i.id}) \in draft.given
       /\ draft.brief.needs /\ "yes" \notin Said(draft.brief, i.place, {"accessibility", "wheelchair_accessible"})
            => Of("accessibility_unknown", {i.id}) \in draft.given
  /\ draft.brief.budget # Null /\ (\E i \in ItemsOf(draft.reply) : i.cost = Null /\ i.type \notin {"break", "transport"})
       => Of("budget_unknown", {}) \in draft.given

=============================================================================
