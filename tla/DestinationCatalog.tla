-------------------------- MODULE DestinationCatalog --------------------------
(***************************************************************************)
(* The curated destination catalog: an ingestion writes the places of a    *)
(* catalog in one transaction and quarantines what it cannot place         *)
(* (packages/db/src/destination-ingestion.ts), editors review the content, *)
(* and readers take a bounded slice of it in one query after another       *)
(* (packages/db/src/destination-repository.ts).                            *)
(*                                                                         *)
(* A record of a catalog is known by its position, 1 .. NumKeys, which     *)
(* stands for its key.  A key inserts a place once at the most, and that   *)
(* place goes by the number of the key; which place a key means after that *)
(* is what place_provider_ids says, and another record may change it.  A   *)
(* place has one content row; its text and its refresh time are those of   *)
(* the ingestion that wrote it.  Ingestions are atomic: two of them that   *)
(* share a freshness policy are serialized by the lock on its row.         *)
(***************************************************************************)
EXTENDS Integers, FiniteSets, Sequences, SequencesExt

CONSTANTS NumKeys,       \* records a catalog may hold
          Catalogs,      \* the catalogs that are ingested
          MaxIngests,    \* bound on the ingestions
          MaxEdits,      \* bound on the editors' decisions
          FreshFor,      \* of the freshness policy, in time steps
          ExpireAfter

Keys == 1 .. NumKeys
Top == 0                       \* the parent of a place without one
None == 0                      \* the place of a key without one
Texts == 0 .. MaxIngests       \* 0: never written
Records == [kind : {"absent", "bad", "place"}, parent : Keys \cup {Top},
            known : BOOLEAN, active : BOOLEAN, names : SUBSET Keys]

ASSUME CatalogAssumption ==
  /\ NumKeys \in Nat \ {0} /\ MaxIngests \in Nat /\ MaxEdits \in Nat
  /\ FreshFor \in Nat \ {0} /\ ExpireAfter \in Nat /\ ExpireAfter > FreshFor
  /\ Catalogs \subseteq [Keys -> Records]

VARIABLES
  identity,      \* rows of place_provider_ids: the place of a key
  place,         \* rows of places: [known, parent, active]
  content,       \* rows of destination_content
  quarantine,    \* status of the row of destination_ingestion_quarantine
  ingests, edits,
  sound, listed, \* of the last catalog: the records to place, all of them
  mixed,         \* places that a record of another key has written
  approvals      \* the texts an editor approved, per place

catalogVars == <<identity, mixed, place, content, quarantine, ingests, edits, sound, listed, approvals>>

PlaceRows == [known : BOOLEAN, parent : Keys \cup {Top}, active : BOOLEAN]
ContentRows == [text : Texts, quality : {"none", "in_review", "approved", "rejected"},
                reviewed : BOOLEAN]
QuarantineStates == {"none", "pending", "resolved"}

NoPlace == [known |-> FALSE, parent |-> Top, active |-> FALSE]
NoContent == [text |-> 0, quality |-> "none", reviewed |-> FALSE]

CatalogInit ==
  /\ identity = [k \in Keys |-> None] /\ mixed = {}
  /\ place = [k \in Keys |-> NoPlace]
  /\ content = [k \in Keys |-> NoContent]
  /\ quarantine = [k \in Keys |-> "none"]
  /\ ingests = 0 /\ edits = 0
  /\ sound = {} /\ listed = {}
  /\ approvals = [k \in Keys |-> {}]

-----------------------------------------------------------------------------
(* Ingestion.                                                              *)

\* Mutant: the upsert leaves the quality as it was.
RefreshedAsRated(row, text) ==
  IF row.reviewed THEN row
  ELSE [row EXCEPT !.text = text, !.quality = IF @ = "none" THEN "in_review" ELSE @]

\* What an ingestion writes to the content of a placed record: nothing to
\* a reviewed row, and otherwise a row that waits for a review.
Refreshed(row, text) ==
  IF row.reviewed THEN row ELSE [text |-> text, quality |-> "in_review", reviewed |-> FALSE]

\* A record waits while its parent has no place in this run.
Waits(c, s, k) == c[k].parent # Top /\ s.at[c[k].parent] = None

\* The place of a key, one that is inserted if it has none.
PlaceOf(s, k) == IF s.identity[k] = None THEN k ELSE s.identity[k]

\* The upserts of one record: its place, under its parent's, its own identity
\* and the ones it names (which may be the keys of other records), its content.
\* The table refuses a place that is its own parent.
Write(c, s, k) ==
  LET id == PlaceOf(s, k)
      parent == IF c[k].parent = Top THEN Top ELSE s.at[c[k].parent]
  IN [pending |-> s.pending \ {k},
      at |-> [s.at EXCEPT ![k] = id],
      identity |-> [j \in Keys |-> IF j = k \/ j \in c[k].names THEN id ELSE s.identity[j]],
      place |-> [s.place EXCEPT ![id] =
                   [known |-> TRUE, parent |-> parent, active |-> c[k].active]],
      content |-> [s.content EXCEPT ![id] = Refreshed(@, ingests + 1)],
      refused |-> s.refused \/ parent = id]

\* Mutant: a record that waits for its parent is placed at the top for now.
PlaceOneAnyway(c, s, k) ==
  CASE k \notin s.pending -> s
    [] k \in s.pending /\ ~c[k].known -> [s EXCEPT !.pending = @ \ {k}]
    [] OTHER -> Write(c, s, k)

\* One place of a pass: it waits for its parent, is rejected for a missing
\* policy or source, or is written.
PlaceOne(c, s, k) ==
  CASE k \notin s.pending \/ Waits(c, s, k) -> s
    [] k \in s.pending /\ ~Waits(c, s, k) /\ ~c[k].known -> [s EXCEPT !.pending = @ \ {k}]
    [] OTHER -> Write(c, s, k)

\* A pass over the pending places, from the last to the first.
Pass(c, s) ==
  LET after[n \in Nat] ==
        IF n = 0 THEN s ELSE PlaceOne(c, after[n - 1], NumKeys + 1 - n)
  IN after[NumKeys]

\* Passes are made until one makes no progress, so one for each key is enough.
Unplaced(c) ==
  [pending |-> {k \in Keys : c[k].kind = "place"}, at |-> [k \in Keys |-> None],
   identity |-> identity, place |-> place, content |-> content, refused |-> FALSE]
Placed(c) ==
  LET passed[n \in Nat] == IF n = 0 THEN Unplaced(c) ELSE Pass(c, passed[n - 1])
  IN passed[NumKeys]

Quarantined(c, placed, k) ==
  CASE c[k].kind = "absent" -> quarantine[k]
    [] k \in placed -> IF quarantine[k] = "pending" THEN "resolved" ELSE quarantine[k]
    [] OTHER -> "pending"

\* The records to place, by definition: a record without a fault, on a chain
\* of such records that ends at the top.
Above(parents, k) == IF k = Top THEN Top ELSE parents[k].parent
Climb(parents, k, n) ==
  LET at[m \in Nat] == IF m = 0 THEN k ELSE Above(parents, at[m - 1])
  IN at[n]

Sound(c) ==
  {k \in Keys : /\ Climb(c, k, NumKeys) = Top
                /\ \A n \in 0 .. NumKeys : LET p == Climb(c, k, n) IN
                     p = Top \/ (c[p].kind = "place" /\ c[p].known)}

\* A catalog that is accepted; a refused one changes nothing.
Ingest(c) ==
  LET done == Placed(c) IN
  /\ ingests < MaxIngests /\ ~done.refused
  /\ ingests' = ingests + 1
  /\ identity' = done.identity /\ place' = done.place /\ content' = done.content
  /\ quarantine' = [k \in Keys |-> Quarantined(c, {j \in Keys : done.at[j] # None}, k)]
  /\ mixed' = mixed \cup {p \in Keys : \E k \in Keys \ {p} : done.at[k] = p}
  /\ sound' = Sound(c)
  /\ listed' = {k \in Keys : c[k].kind # "absent"}
  /\ UNCHANGED <<edits, approvals>>

-----------------------------------------------------------------------------
(* Editors, who decide on rows outside src/.                               *)

Decide(k, quality, reviewed) ==
  /\ edits < MaxEdits /\ content[k].text # 0
  /\ edits' = edits + 1
  /\ content' = [content EXCEPT ![k].quality = quality, ![k].reviewed = reviewed]
  /\ approvals' = IF quality = "approved"
                  THEN [approvals EXCEPT ![k] = @ \cup {content[k].text}] ELSE approvals
  /\ UNCHANGED <<identity, mixed, place, quarantine, ingests, sound, listed>>

Approve(k) == \E reviewed \in BOOLEAN : Decide(k, "approved", reviewed)
Withdraw(k) == content[k].quality = "approved" /\ Decide(k, "rejected", content[k].reviewed)

CatalogNext ==
  \/ \E c \in Catalogs : Ingest(c)
  \/ \E k \in Keys : Approve(k) \/ Withdraw(k)

-----------------------------------------------------------------------------
(* Reads.                                                                  *)

\* Places of the next depth, of a frontier.
Children(frontier) == {k \in Keys : place[k].active /\ place[k].parent \in frontier}

\* The places a query covers: the active ones it names and, level by level,
\* their active children, no more than maxPlaces of them in all.
Bounded(S, n) == {k \in S : Cardinality({j \in S : j < k}) < n}

Deeper(s, maxPlaces) ==
  LET found == Bounded(Children(s.frontier), maxPlaces - Cardinality(s.all)) \ s.all
  IN [all |-> s.all \cup found, frontier |-> found]

Scope(roots, maxDepth, maxPlaces) ==
  LET start == Bounded({k \in roots : place[k].active}, maxPlaces)
      level[d \in 0 .. maxDepth] ==
        IF d = 0 THEN [all |-> start, frontier |-> start] ELSE Deeper(level[d - 1], maxPlaces)
  IN level[maxDepth].all

\* The approved rows of those places, in the order of the places.
ApprovedIn(scope, maxRecords) ==
  Bounded({k \in scope : content[k].text # 0 /\ content[k].quality = "approved"}, maxRecords)

\* By the times the policy of the row gave it when it was written.
StaleAt(text) == text + FreshFor
ExpiresAt(text) == text + ExpireAfter

FreshnessAt(text, now) ==
  CASE ExpiresAt(text) <= now -> "expired"
    [] ExpiresAt(text) > now /\ StaleAt(text) <= now -> "stale"
    [] OTHER -> "fresh"

\* The ancestors a page shows: up to the first that is not active.
Breadcrumb(k) ==
  LET Up(s, n) == IF s.at = Top \/ s.at \in s.seen \/ ~place[s.at].active THEN s
                  ELSE [seen |-> s.seen \cup {s.at}, at |-> place[s.at].parent]
  IN FoldLeft(Up, [seen |-> {k}, at |-> place[k].parent], [n \in Keys |-> n]).seen \ {k}

-----------------------------------------------------------------------------
(* Properties.                                                             *)

CatalogTypeOK ==
  /\ identity \in [Keys -> Keys \cup {None}] /\ mixed \subseteq Keys
  /\ place \in [Keys -> PlaceRows]
  /\ content \in [Keys -> ContentRows]
  /\ quarantine \in [Keys -> QuarantineStates]
  /\ ingests \in 0 .. MaxIngests /\ edits \in 0 .. MaxEdits
  /\ sound \subseteq Keys /\ listed \subseteq Keys
  /\ approvals \in [Keys -> SUBSET Texts]

\* Whatever catalogs follow each other, with records left out, parents swapped
\* and keys taken over, every chain of parents ends at the top, unless it comes
\* to a place that records of two keys have written.
HierarchyIsRooted ==
  \A p \in Keys : \E n \in 0 .. NumKeys : Climb(place, p, n) \in mixed \cup {Top}

\* The passes place just the records that are sound, whatever their order, and
\* of the last catalog the quarantine holds just the others as pending.
RejectionsAreTold ==
  \A k \in listed : /\ (k \in sound) = (quarantine[k] # "pending")
                    /\ k \in sound => identity[k] # None /\ place[identity[k]].known

\* A row that is approved holds a text an editor approved: an ingestion never
\* puts a new text under an old approval.
ApprovalIsForItsText ==
  \A k \in Keys : content[k].quality = "approved" => content[k].text \in approvals[k]

\* An ingestion leaves reviewed rows alone, of whatever quality they are.
ReviewedRowsStay ==
  [][\A k \in Keys : ingests' # ingests /\ content[k].reviewed => content'[k] = content[k]]_catalogVars

=============================================================================
