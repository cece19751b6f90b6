---------------------------- MODULE GroundedAnswers ----------------------------
(***************************************************************************)
(* Reads of the catalog while it is ingested and reviewed: the detail page *)
(* of a destination and the retrieval of evidence for a prompt, each one   *)
(* query after another without a transaction                               *)
(* (destination-repository.ts, packages/ai/src/server/postgres-grounding.ts *)
(* and packages/ai/src/grounding.ts).                                      *)
(***************************************************************************)
EXTENDS DestinationCatalog, Grounding

CONSTANTS MaxDepth, MaxPlaces, MaxRecords,  \* options of listGroundingContent
          Requests,                         \* what is asked for: [page, root, budget, kinds]
          KindOf, AuthorityOf, RelevanceOf, SourcesFor  \* of the content of a key

ASSUME AnswersAssumption ==
  /\ MaxDepth \in Nat /\ MaxPlaces \in Nat /\ MaxRecords \in Nat
  /\ \A r \in Requests :
       /\ r.page \in BOOLEAN /\ r.root \in Keys /\ r.kinds \in Seq(Kinds)
       /\ r.budget \in [items : Nat, sources : Nat, tokens : Nat]
  /\ KindOf \in [Keys -> Kinds] /\ AuthorityOf \in [Keys -> DOMAIN AuthorityScore]
  /\ RelevanceOf \in [Keys -> Nat]
  /\ \A k \in Keys : IsFiniteSet(SourcesFor[k])

VARIABLES
  ask,      \* the read in progress: [pc, of, now, scope, rows]
  crumbs,   \* the hierarchy a detail page was given
  context   \* what the last retrieval returned, with its candidates

readVars == <<ask, crumbs, context>>
answersVars == <<catalogVars, readVars>>

NoContext == [items |-> <<>>, gaps |-> {}, truncated |-> FALSE, conflict |-> FALSE,
              status |-> "none"]

NoRequest == [page |-> FALSE, root |-> 1, kinds |-> <<>>,
              budget |-> [items |-> 0, sources |-> 0, tokens |-> 0]]
NoRead == [pc |-> "idle", of |-> NoRequest, now |-> 0, scope |-> {}, rows |-> {}]

AnswersInit ==
  /\ CatalogInit
  /\ ask = NoRead
  /\ crumbs = {}
  /\ context = NoContext

-----------------------------------------------------------------------------
\* A request; its time is fixed when it is made.
Ask(r, now) ==
  /\ ask.pc = "idle"
  /\ ask' = [pc |-> IF r.page THEN "place" ELSE "scope", of |-> r, now |-> now,
             scope |-> {}, rows |-> {}]
  /\ UNCHANGED <<catalogVars, crumbs, context>>

\* getDestinationDetail, the place and its hierarchy: 404 when it is not active.
ReadPlace ==
  /\ ask.pc = "place"
  /\ ask' = [ask EXCEPT !.pc = IF place[ask.of.root].active THEN "scope" ELSE "idle"]
  /\ crumbs' = IF place[ask.of.root].active THEN Breadcrumb(ask.of.root) ELSE {}
  /\ UNCHANGED <<catalogVars, context>>

ReadScope ==
  /\ ask.pc = "scope"
  /\ ask' = [ask EXCEPT !.pc = "rows", !.scope =
               Scope({ask.of.root}, IF ask.of.page THEN 0 ELSE MaxDepth, MaxPlaces)]
  /\ UNCHANGED <<catalogVars, crumbs, context>>

ReadRows ==
  /\ ask.pc = "rows"
  /\ ask' = [ask EXCEPT !.pc = "sources",
               !.rows = {[id |-> k, text |-> content[k].text, reviewed |-> content[k].reviewed] :
                           k \in ApprovedIn(ask.scope, MaxRecords)}]
  /\ UNCHANGED <<catalogVars, crumbs, context>>

\* mapRecord
Candidate(row) ==
  [id |-> row.id, kind |-> KindOf[row.id], authority |-> AuthorityOf[row.id],
   freshness |-> FreshnessAt(row.text, ask.now),
   confidence |-> IF row.reviewed THEN 900 ELSE 750,
   relevance |-> RelevanceOf[row.id], sources |-> SourcesFor[row.id], value |-> row.text]

Candidates == {Candidate(row) : row \in ask.rows}

\* The sources of the rows, and the answer: a page shows what has not expired,
\* a retrieval selects.
Answer ==
  /\ ask.pc = "sources"
  /\ ask' = [ask EXCEPT !.pc = "done"]
  /\ context' = IF ask.of.page
                THEN [NoContext EXCEPT !.items = Ranked({c \in Candidates : Usable(c)})]
                ELSE Context(Candidates, {}, ask.of.kinds, ask.of.budget)
  /\ UNCHANGED <<catalogVars, crumbs>>

\* The database fails one of the queries; a retrieval goes on without evidence.
Fail ==
  /\ ask.pc \in {"place", "scope", "rows", "sources"}
  /\ ask' = [ask EXCEPT !.pc = IF ask.of.page THEN "idle" ELSE "done", !.rows = {}]
  /\ context' = IF ask.of.page THEN context
                ELSE Context({}, {[reason |-> "source_unavailable", kind |-> "any"]},
                             ask.of.kinds, ask.of.budget)
  /\ UNCHANGED <<catalogVars, crumbs>>

Leave ==
  /\ ask.pc = "done"
  /\ ask' = NoRead
  /\ crumbs' = {} /\ context' = NoContext
  /\ UNCHANGED catalogVars

AnswersNext ==
  \/ CatalogNext /\ UNCHANGED readVars
  \/ \E r \in Requests, now \in ingests .. ingests + FreshFor :
       Ask(r, now)
  \/ ReadPlace \/ ReadScope \/ ReadRows \/ Answer \/ Fail \/ Leave

-----------------------------------------------------------------------------
(* Properties.                                                             *)

Done == ask.pc = "done"
Shown == {context.items[i] : i \in 1 .. Len(context.items)}

\* Whatever is ingested and decided between the queries of a read, what a page
\* shows or a prompt is given was approved with just that text, and has not
\* expired at the time of the request.
OnlyApprovedIsGiven ==
  Done => \A c \in Shown : c.value \in approvals[c.id] /\ FreshnessAt(c.value, ask.now) # "expired"

\* A context that calls itself complete has evidence of every required kind,
\* the best of it fresh, has left nothing usable out, and does not contradict
\* itself.
CompleteIsComplete ==
  Done /\ context.status = "complete" =>
    /\ \A i \in 1 .. Len(ask.of.kinds) : \E c \in Shown :
         c.kind = ask.of.kinds[i] /\ c.freshness = "fresh"
    /\ {c \in Candidates : Usable(c)} = Shown
    /\ \A c, d \in Shown : c.value = d.value

\* A required kind is not crowded out: when usable evidence of one is there and
\* none was taken, the sources allowed do not admit it, or all that was taken is
\* the best of its own required kind.
RequiredKindsComeFirst ==
  Done /\ ~ask.of.page =>
    \A i \in 1 .. Len(ask.of.kinds) : \A best \in BestOf(Ranked(Candidates), ask.of.kinds[i]) :
      (\A c \in Shown : c.kind # ask.of.kinds[i]) =>
        \/ Cardinality(SourcesOf(context.items) \cup best.sources) > ask.of.budget.sources
        \/ \A c \in Shown : \E j \in 1 .. Len(ask.of.kinds) :
             c \in BestOf(Ranked(Candidates), ask.of.kinds[j])

=============================================================================
