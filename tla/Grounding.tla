------------------------------- MODULE Grounding -------------------------------
(***************************************************************************)
(* The evidence a prompt is given (packages/ai/src/grounding.ts): the      *)
(* candidates of a retrieval are ranked, the required kinds get the first  *)
(* places, the rest is filled and then cut back to the budgets, and what   *)
(* is missing is told as gaps.  One synchronous computation: operators.    *)
(*                                                                         *)
(* A candidate is [id, kind, authority, freshness, confidence, relevance,  *)
(* sources, value].  Confidence and relevance, the bonus of a title with   *)
(* it, are in thousandths; value is its statement of the one fact the      *)
(* candidates share, 0 for none.                                           *)
(* A budget is [items, sources, tokens].  The rendered context costs one   *)
(* token per item, gap and conflict beside its frame.                      *)
(***************************************************************************)
EXTENDS Integers, FiniteSets, Sequences

Kinds == {"place", "practical", "seasonality", "route"}

-----------------------------------------------------------------------------
(* Ranking.                                                                *)

AuthorityScore == [official |-> 150, curated |-> 90, licensed |-> 40]
FreshnessScore == [fresh |-> 120, stale |-> 40, unknown |-> 20, expired |-> 0]
AuthorityOrder == [official |-> 0, curated |-> 1, licensed |-> 2]

\* Math.round of a sum whose terms are tenths of a thousandth.
Rounded(tenths) == (tenths + 5) \div 10

RankScore(c) ==
  LET score == Rounded((44 * c.relevance + 9 * c.confidence) \div 10)
                 + AuthorityScore[c.authority] + FreshnessScore[c.freshness]
  IN IF score > 1000 THEN 1000 ELSE score

Before(a, b) ==
  LET ranks == <<RankScore(b) - RankScore(a),
                 AuthorityOrder[a.authority] - AuthorityOrder[b.authority],
                 b.confidence - a.confidence, a.id - b.id>>
  IN \E i \in 1 .. 4 : ranks[i] < 0 /\ \A j \in 1 .. i - 1 : ranks[j] = 0

\* In order: each candidate comes after as many as are before it.
Ranked(candidates) ==
  [i \in 1 .. Cardinality(candidates) |->
     CHOOSE c \in candidates : Cardinality({d \in candidates : Before(d, c)}) = i - 1]

-----------------------------------------------------------------------------
(* Selection.                                                              *)

Usable(c) == c.freshness # "expired"
SourcesOf(items) == UNION {items[i].sources : i \in 1 .. Len(items)}
Has(items, c) == \E i \in 1 .. Len(items) : items[i].id = c.id

\* trySelect: s is [items, truncated].
TrySelect(s, c, budget) ==
  CASE Has(s.items, c) \/ ~Usable(c) -> s
    [] ~Has(s.items, c) /\ Usable(c)
       /\ Len(s.items) < budget.items
       /\ Cardinality(SourcesOf(s.items) \cup c.sources) <= budget.sources ->
         [s EXCEPT !.items = Append(@, c)]
    [] OTHER -> [s EXCEPT !.truncated = TRUE]

\* Those of a kind, and of them the first that is usable, if there is one.
OfKind(ranked, kind) == {n \in DOMAIN ranked : ranked[n].kind = kind}
BestOf(ranked, kind) ==
  {ranked[n] : n \in {m \in OfKind(ranked, kind) :
     Usable(ranked[m]) /\ \A l \in OfKind(ranked, kind) : l < m => ~Usable(ranked[l])}}

\* The gap of a required kind, if it has one.
KindGaps(ranked, kind) ==
  CASE OfKind(ranked, kind) = {} -> {[reason |-> "missing_kind", kind |-> kind]}
    [] OfKind(ranked, kind) # {} /\ BestOf(ranked, kind) = {} ->
         {[reason |-> "expired_only", kind |-> kind]}
    [] OTHER -> {[reason |-> "stale_only", kind |-> kind] :
                   c \in {b \in BestOf(ranked, kind) : b.freshness = "stale"}}

\* Mutant: required kinds have no first pass.
RequiredLater(ranked, kinds, budget) == [items |-> <<>>, truncated |-> FALSE]

TryBest(s, ranked, kind, budget) ==
  IF BestOf(ranked, kind) = {} THEN s
  ELSE TrySelect(s, CHOOSE c \in BestOf(ranked, kind) : TRUE, budget)

Required(ranked, kinds, budget) ==
  LET after[n \in 0 .. Len(kinds)] ==
        IF n = 0 THEN [items |-> <<>>, truncated |-> FALSE]
        ELSE TryBest(after[n - 1], ranked, kinds[n], budget)
  IN after[Len(kinds)]

\* The rest in order of rank; once the items are full the loop ends, and what
\* was not selected counts as truncated, expired evidence too.
TryNext(s, ranked, n, budget) ==
  IF Len(s.items) >= budget.items
  THEN [s EXCEPT !.truncated = \E i \in 1 .. Len(ranked) : ~Has(s.items, ranked[i])]
  ELSE TrySelect(s, ranked[n], budget)

Fill(s, ranked, budget) ==
  LET after[n \in 0 .. Len(ranked)] ==
        IF n = 0 THEN s ELSE TryNext(after[n - 1], ranked, n, budget)
  IN after[Len(ranked)]

Conflicting(items) ==
  Cardinality({items[i].value : i \in 1 .. Len(items)} \ {0}) > 1

Cost(items, gaps) ==
  Len(items) + Cardinality(gaps) + IF Conflicting(items) THEN 1 ELSE 0

\* The lowest in rank go while the rendered text is over the tokens.
Fitting(items, gaps, budget) ==
  {n \in 0 .. Len(items) : Cost(SubSeq(items, 1, n), gaps) <= budget.tokens}
Cut(items, gaps, budget) ==
  LET fits == Fitting(items, gaps, budget)
      n == IF fits = {} THEN 0 ELSE CHOOSE m \in fits : \A k \in fits : k <= m
  IN SubSeq(items, 1, n)

\* retrieve, of the candidates of the sources that answered and the gaps the
\* sources reported.
Context(candidates, reported, kinds, budget) ==
  LET ranked == Ranked(candidates)
      gaps == reported \cup UNION {KindGaps(ranked, kinds[i]) : i \in 1 .. Len(kinds)}
      full == Fill(Required(ranked, kinds, budget), ranked, budget)
      items == Cut(full.items, gaps, budget)
      truncated == \/ full.truncated
                   \/ Len(items) < Len(full.items)
                   \/ Cost(items, gaps) > budget.tokens
      told == IF truncated THEN gaps \cup {[reason |-> "budget_exhausted", kind |-> "any"]}
              ELSE gaps
      missing == \E i \in 1 .. Len(kinds) : \A j \in 1 .. Len(items) : items[j].kind # kinds[i]
  IN [items |-> items, gaps |-> told, truncated |-> truncated,
      conflict |-> Conflicting(items),
      status |-> CASE items = <<>> -> "empty"
                   [] items # <<>> /\ (told # {} \/ Conflicting(items) \/ missing) -> "partial"
                   [] OTHER -> "complete"]

=============================================================================
