--------------------------- MODULE OrderedLists ---------------------------
(***************************************************************************)
(* What the order of a trip's parts promises (packages/db/src/             *)
(* trip-repository.ts): its stops, its days and the items of each day are  *)
(* lists that change by one insertion, removal or move at a time, and      *)
(* every change is a new revision of the trip.                             *)
(***************************************************************************)
EXTENDS Integers, Sequences, SequencesExt

CONSTANTS Parents, Elements, Days, DayList

VARIABLES lists, revision

vars == <<lists, revision>>

Places(p) == 1 .. Len(lists[p])

\* No element is in two places.
Init ==
  /\ lists \in [Parents -> Seq(Elements)] /\ revision = 1
  /\ \A p, q \in Parents : \A j \in Places(p), k \in Places(q) :
       lists[p][j] = lists[q][k] => p = q /\ j = k

Held(x) == \E p \in Parents : x \in ToSet(lists[p])
With(l, p, s) == [q \in Parents |-> IF q = p THEN s ELSE l[q]]
Bump == revision' = revision + 1

Insert(p, x) ==
  /\ ~Held(x)
  /\ \E k \in 1 .. Len(lists[p]) + 1 : lists' = With(lists, p, InsertAt(lists[p], k, x))
  /\ Bump

Take(p) ==
  /\ \E j \in Places(p) :
       lists[p][j] \notin Days /\ lists' = With(lists, p, RemoveAt(lists[p], j))
  /\ Bump

Move(p, q) ==
  /\ \E j \in Places(p) :
       LET taken == With(lists, p, RemoveAt(lists[p], j))
       IN \E k \in 1 .. Len(taken[q]) + 1 :
            lists' = With(taken, q, InsertAt(taken[q], k, lists[p][j]))
  /\ Bump

\* One element takes the place of another, anywhere in the list.
Replace(p, x) ==
  /\ ~Held(x)
  /\ \E j, k \in Places(p) : lists' = With(lists, p, InsertAt(RemoveAt(lists[p], j), k, x))
  /\ Bump

\* A day goes with its items.
DropDay ==
  /\ \E j \in Places(DayList) :
       lists' = With(With(lists, DayList, RemoveAt(lists[DayList], j)), lists[DayList][j], <<>>)
  /\ Bump

\* A change of something else, and the end of the trip.
Touch == UNCHANGED lists /\ Bump
Drop == lists' = [p \in Parents |-> <<>>] /\ UNCHANGED revision

Next ==
  \/ Touch \/ Drop \/ DropDay
  \/ \E p \in Parents : Take(p) \/ \E q \in Parents : Move(p, q)
  \/ \E p \in Parents, x \in Elements : Insert(p, x) \/ Replace(p, x)

Spec == Init /\ [][Next]_vars
=============================================================================
