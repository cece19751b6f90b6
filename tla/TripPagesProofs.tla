--------------------------- MODULE TripPagesProofs ---------------------------
(***************************************************************************)
(* What the pages of a tab owe the trip, for any rows, other tabs and      *)
(* tries.  The workspace: what the page holds is a state the trip had,     *)
(* under the revision it had then, unless it missed what became of an item *)
(* its user changed, and the page reckons places as the repository does    *)
(* (ViewIsSaved, AppliedAsSeen).  The planner from a sentence: under the   *)
(* revision it holds, the trip has the reviewed dates and the first of the *)
(* reviewed stops, as many as were answered (QueuedAsReviewed).  The       *)
(* planner by hand: under the revision it holds, it knows the trip's stops *)
(* in their order and the dates that have a day, and so does a save under  *)
(* way (PlanIsSaved).                                                      *)
(***************************************************************************)
EXTENDS TripPages, TripRepositoryProofs, NaturalsInduction, WellFoundedInduction

-----------------------------------------------------------------------------
(* The order of a day as its page reckons it.                              *)

\* A place is made of its parent and its order.
LEMMA PlaceIs ==
  ASSUME NEW q \in Place
  PROVE  q = At(q.in, q.at) /\ q.at \in Nat
  BY DEF Place, At

\* Below any place of a list stand as many rows as its number says.
LEMMA RankOf ==
  ASSUME NEW pos \in [Rows -> Place], NEW p \in Parents, NEW n \in Nat, Listed(pos, p, n),
         NEW a \in 0 .. n, NEW S, S = {z \in Rows : pos[z].in = p /\ pos[z].at < a}
  PROVE  IsFiniteSet(S) /\ Cardinality(S) = a
<1> DEFINE new == [z \in Rows |-> IF pos[z].in = p /\ pos[z].at >= a THEN At("deleted", 0)
                                  ELSE pos[z]]
<1>0. a \in Nat /\ a <= n /\ \A z \in Rows : pos[z].at \in Nat
  BY DEF Place
<1>1. At("deleted", 0) \in Place /\ At("deleted", 0).in # p
  BY PlaceOf, Kinds
<1>2. /\ new \in [Rows -> Place]
      /\ \A z \in Rows : new[z].in = p <=> pos[z].in = p /\ pos[z].at < a
      /\ \A z \in Rows : new[z].in = p => new[z] = pos[z]
  <2>1. new \in [Rows -> Place]
    BY <1>1
  <2>2. ASSUME NEW z \in Rows
        PROVE  /\ new[z].in = p <=> pos[z].in = p /\ pos[z].at < a
               /\ new[z].in = p => new[z] = pos[z]
    <3>1. CASE pos[z].in = p /\ pos[z].at >= a
      <4>1. new[z] = At("deleted", 0) /\ ~(pos[z].at < a)
        BY <1>0, <3>1
      <4> QED BY <1>1, <4>1
    <3>2. CASE ~(pos[z].in = p /\ pos[z].at >= a)
      <4>1. new[z] = pos[z]
        BY <3>2
      <4> QED BY <1>0, <3>2, <4>1
    <3> QED BY <3>1, <3>2
  <2> QED BY <2>1, <2>2
<1> HIDE DEF new
<1>3. Listed(new, p, a)
  <2>1. Single(new, p) /\ Below(new, p, a)
    BY <1>2 DEF Listed, Single, Below
  <2>2. ASSUME NEW k \in 0 .. a - 1
        PROVE  \E x \in Rows : new[x].in = p /\ new[x].at = k
    <3>1. k \in 0 .. n - 1 /\ k < a
      BY <1>0
    <3>2. PICK x \in Rows : pos[x].in = p /\ pos[x].at = k
      BY <3>1 DEF Listed
    <3> QED BY <1>2, <3>1, <3>2
  <2> QED BY <2>1, <2>2 DEF Listed
<1>4. Cardinality(Under(new, p)) = a
  BY <1>0, <1>2, <1>3, ListedCount
<1>5. S = Under(new, p)
  BY <1>2 DEF Under
<1>6. IsFiniteSet(S)
  BY RowsAssumption, FS_Subset
<1> QED BY <1>4, <1>5, <1>6

\* The items of a day are what hangs under it.
LEMMA DayItemsUnder ==
  ASSUME NEW pos, Fitting(pos), NEW d \in Days
  PROVE  DayItems(pos, d) = Under(pos, d)
<1>1. \A x \in Rows : pos[x].in = d => x \in Items
  BY KindOf
<1> QED BY <1>1 DEF DayItems, Under, Rows

\* The rank of an item among the others of its day: its number, less one behind
\* the one left out.
LEMMA RankIs ==
  ASSUME NEW pos \in [Rows -> Place], Fitting(pos), Lists(pos), NEW d \in Days, NEW x \in Items,
         NEW y \in Items, pos[y].in = d
  PROVE  Rank(pos, d, x, y) =
           IF pos[x].in = d /\ pos[x].at < pos[y].at THEN pos[y].at - 1 ELSE pos[y].at
<1> DEFINE a == pos[y].at
           S == {z \in Rows : pos[z].in = d /\ pos[z].at < a}
           R == {z \in DayItems(pos, d) \ {x} : pos[z].at < pos[y].at}
<1>0. d \in Parents /\ x \in Rows /\ y \in Rows /\ a \in Nat /\ \A z \in Rows : pos[z].at \in Nat
  BY Kinds DEF Rows, Place
<1>1. PICK n \in Nat : Listed(pos, d, n)
  BY <1>0 DEF Lists
<1>2. a \in 0 .. n
  BY <1>0, <1>1 DEF Listed, Below
<1>3. IsFiniteSet(S) /\ Cardinality(S) = a
  BY <1>0, <1>1, <1>2, RankOf
<1>4. R = S \ {x}
  BY DayItemsUnder DEF Under
<1>5. Rank(pos, d, x, y) = Cardinality(R)
  BY DEF Rank
<1> HIDE DEF S, R
<1>6. CASE x \in S
  <2>1. Cardinality(S \ {x}) = a - 1
    BY <1>3, <1>6, FS_RemoveElement
  <2>2. pos[x].in = d /\ pos[x].at < pos[y].at
    BY <1>6 DEF S
  <2> QED BY <1>4, <1>5, <2>1, <2>2
<1>7. CASE x \notin S
  <2>1. S \ {x} = S
    BY <1>7
  <2>2. ~(pos[x].in = d /\ pos[x].at < pos[y].at)
    BY <1>0, <1>7 DEF S
  <2> QED BY <1>3, <1>4, <1>5, <2>1, <2>2
<1> QED BY <1>6, <1>7

\* A new item on the page stands as the repository puts it,
LEMMA PageInserts ==
  ASSUME NEW pos \in [Rows -> Place], Fitting(pos), Lists(pos), NEW d \in Days, NEW x \in Items,
         pos[x].in # d, NEW k \in Nat, NEW new \in [Rows -> Place],
         Opened(pos, new, d, x, k), Kept(pos, new, {x}, {d})
  PROVE  new = OrderedWithMove(pos, d, x, k)
<1> DEFINE r(y) == Rank(pos, d, x, y)
           after(y) == IF y = x THEN At(d, k)
                       ELSE IF y \in DayItems(pos, d)
                       THEN At(d, IF r(y) < k THEN r(y) ELSE r(y) + 1)
                       ELSE pos[y]
<1>1. OrderedWithMove(pos, d, x, k) = [y \in Rows |-> after(y)]
  BY DEF OrderedWithMove
<1>2. ASSUME NEW y \in Rows
      PROVE  new[y] = after(y)
  <2>1. new[y] = At(new[y].in, new[y].at) /\ new[y].at \in Nat /\ pos[y].at \in Nat
    BY PlaceIs
  <2>2. CASE y = x
    BY <2>1, <2>2 DEF Opened
  <2>3. CASE y # x /\ pos[y].in = d
    <3>1. y \in Items /\ y \in DayItems(pos, d)
      BY <2>3, KindOf, DayItemsUnder DEF Under
    <3>2. Rank(pos, d, x, y) = pos[y].at
      BY <2>3, <3>1, RankIs
    <3>3. new[y].in = d /\ new[y].at = IF pos[y].at >= k THEN pos[y].at + 1 ELSE pos[y].at
      BY <2>3 DEF Opened
    <3>4. new[y].at = IF pos[y].at < k THEN pos[y].at ELSE pos[y].at + 1
      BY <2>1, <3>3
    <3>5. after(y) = At(d, new[y].at)
      BY <2>3, <3>1, <3>2, <3>4
    <3> HIDE DEF after
    <3> QED BY <2>1, <3>3, <3>5
  <2>4. CASE y # x /\ pos[y].in # d
    <3>1. y \notin DayItems(pos, d)
      BY <2>4 DEF DayItems
    <3>2. new[y] = pos[y]
      BY <2>4 DEF Kept
    <3> QED BY <2>4, <3>1, <3>2
  <2> QED BY <2>2, <2>3, <2>4
<1> QED BY <1>1, <1>2

\* a moved one and the items it passes too,
LEMMA PageMoves ==
  ASSUME NEW pos \in [Rows -> Place], Fitting(pos), Lists(pos), NEW d \in Days, NEW x \in Items,
         pos[x].in = d, NEW k \in Nat, NEW new \in [Rows -> Place],
         Moved(pos, new, d, x, k), Kept(pos, new, {}, {d})
  PROVE  new = OrderedWithMove(pos, d, x, k)
<1> DEFINE r(y) == Rank(pos, d, x, y)
           after(y) == IF y = x THEN At(d, k)
                       ELSE IF y \in DayItems(pos, d)
                       THEN At(d, IF r(y) < k THEN r(y) ELSE r(y) + 1)
                       ELSE pos[y]
<1>0. PICK n \in Nat : Listed(pos, d, n)
  BY Kinds DEF Lists
<1>1. OrderedWithMove(pos, d, x, k) = [y \in Rows |-> after(y)]
  BY DEF OrderedWithMove
<1>2. ASSUME NEW y \in Rows
      PROVE  new[y] = after(y)
  <2>1. /\ new[y] = At(new[y].in, new[y].at) /\ new[y].at \in Nat /\ pos[y].at \in Nat
        /\ x \in Rows /\ pos[x].at \in Nat
    BY PlaceIs DEF Rows
  <2>2. CASE y = x
    BY <2>1, <2>2 DEF Moved
  <2>3. CASE y # x /\ pos[y].in = d
    <3>1. y \in Items /\ y \in DayItems(pos, d)
      BY <2>3, KindOf, DayItemsUnder DEF Under
    <3>2. PICK m : m = Rank(pos, d, x, y)
      OBVIOUS
    <3>3. m = IF pos[x].at < pos[y].at THEN pos[y].at - 1 ELSE pos[y].at
      BY <2>3, <3>1, <3>2, RankIs
    <3>4. new[y].in = d /\ new[y].at = Stepped(pos[y].at, pos[x].at, k)
      BY <2>3 DEF Moved
    <3>5. pos[y].at # pos[x].at
      BY <1>0, <2>1, <2>3 DEF Listed, Single
    <3>6. new[y].at = IF m < k THEN m ELSE m + 1
      BY <2>1, <3>3, <3>4, <3>5 DEF Stepped
    <3>7. after(y) = At(d, new[y].at)
      BY <2>3, <3>1, <3>2, <3>6
    <3> HIDE DEF after
    <3> QED BY <2>1, <3>4, <3>7
  <2>4. CASE y # x /\ pos[y].in # d
    <3>1. y \notin DayItems(pos, d)
      BY <2>4 DEF DayItems
    <3>2. new[y] = pos[y]
      BY <2>4 DEF Kept
    <3> QED BY <2>4, <3>1, <3>2
  <2> QED BY <2>2, <2>3, <2>4
<1> QED BY <1>1, <1>2

\* and where one is taken out the others close up.
LEMMA PageRemoves ==
  ASSUME NEW pos \in [Rows -> Place], Fitting(pos), Lists(pos), NEW d \in Days, NEW x \in Items,
         pos[x].in = d, NEW new \in [Rows -> Place], new[x] = At("deleted", 0),
         ClosedUp(pos, new, d, x, pos[x].at), Kept(pos, new, {x}, {d})
  PROVE  new = WithoutItem(pos, d, x)
<1> DEFINE after(y) == IF y = x THEN At("deleted", 0)
                       ELSE IF y \in DayItems(pos, d)
                       THEN At(d, Rank(pos, d, x, y)) ELSE pos[y]
<1>1. WithoutItem(pos, d, x) = [y \in Rows |-> after(y)]
  BY DEF WithoutItem
<1>2. ASSUME NEW y \in Rows
      PROVE  new[y] = after(y)
  <2>1. /\ new[y] = At(new[y].in, new[y].at) /\ new[y].at \in Nat /\ pos[y].at \in Nat
        /\ x \in Rows /\ pos[x].at \in Nat
    BY PlaceIs DEF Rows
  <2>2. CASE y = x
    BY <2>2
  <2>3. CASE y # x /\ pos[y].in = d
    <3>1. y \in Items /\ y \in DayItems(pos, d)
      BY <2>3, KindOf, DayItemsUnder DEF Under
    <3>2. PICK m : m = Rank(pos, d, x, y)
      OBVIOUS
    <3>3. m = IF pos[x].at < pos[y].at THEN pos[y].at - 1 ELSE pos[y].at
      BY <2>3, <3>1, <3>2, RankIs
    <3>4. new[y].in = d /\ new[y].at = IF pos[y].at > pos[x].at THEN pos[y].at - 1 ELSE pos[y].at
      BY <2>3 DEF ClosedUp
    <3>5. new[y].at = m
      BY <2>1, <3>3, <3>4
    <3>6. after(y) = At(d, new[y].at)
      BY <2>3, <3>1, <3>2, <3>5
    <3> HIDE DEF after
    <3> QED BY <2>1, <3>4, <3>6
  <2>4. CASE y # x /\ pos[y].in # d
    <3>1. y \notin DayItems(pos, d)
      BY <2>4 DEF DayItems
    <3>2. new[y] = pos[y]
      BY <2>4 DEF Kept
    <3> QED BY <2>4, <3>1, <3>2
  <2> QED BY <2>2, <2>3, <2>4
<1> QED BY <1>1, <1>2

-----------------------------------------------------------------------------
(* What the operations on items leave, in the rows and under the next      *)
(* revision.                                                               *)

\* The trip before an operation, and the next revision after it.
Advanced == exists /\ exists' /\ revision' = revision + 1 /\ place' \in [Rows -> Place]

\* createItem puts the item among those of its day.
LEMMA CreateItemPlaces ==
  ASSUME IInv, NEW x \in Items, NEW d \in Days, NEW k \in Nat, NEW c \in Texts,
         CreateItem(revision, x, d, k, c)
  PROVE  /\ Advanced /\ place[x].in = "unsaved" /\ text' = [text EXCEPT ![x] = c]
         /\ Opened(place, place', d, x, k) /\ Kept(place, place', {x}, {d})
<1>0. PICK t \in Tx : /\ t = Begin /\ t.pos = place /\ t.clear = TRUE
                      /\ Lists(t.pos) /\ Fitting(t.pos)
  BY BeginSound
<1>1. PICK u : u = Put(ShiftForInsert(t, d, k), x, d, k)
  OBVIOUS
<1>2. PICK n : n = Cardinality(Under(t.pos, d))
  OBVIOUS
<1>3. d \in Parents /\ x \in Rows /\ t.pos \in [Rows -> Place]
  BY Kinds DEF Rows, Tx
<1>4. n \in Nat /\ n < Offset /\ Listed(t.pos, d, n)
  BY <1>0, <1>2, <1>3, ListOf
<1>5. t.pos[x].in = "unsaved" /\ k \in 0 .. n /\ t.pos[x].in # d
  BY <1>0, <1>2, Kinds DEF CreateItem, Total
<1>6. Added(t, u, d, x, n, k)
  BY <1>1, <1>3, <1>4, <1>5, InsertSound
<1>7. Bump(u) /\ exists /\ exists' = exists /\ text' = [text EXCEPT ![x] = c]
  BY <1>0, <1>1 DEF CreateItem, Locked
<1>8. u.pos \in [Rows -> Place] /\ Opened(t.pos, u.pos, d, x, k) /\ Kept(t.pos, u.pos, {x}, {d})
  BY <1>6 DEF Added, Tx
<1> QED BY <1>0, <1>5, <1>7, <1>8 DEF Bump, Advanced

\* updateItem moves it within its day, or leaves the others under their days.
LEMMA UpdateItemPlaces ==
  ASSUME IInv, NEW x \in Items, NEW d \in Days, NEW k \in Nat, NEW c,
         UpdateItem(revision, x, d, k, c)
  PROVE  /\ Advanced /\ place[x].in \in Days /\ text' = [text EXCEPT ![x] = c]
         /\ SameParents(place, place', {x})
         /\ place[x].in = d => Moved(place, place', d, x, k) /\ Kept(place, place', {}, {d})
<1>0. PICK t \in Tx : /\ t = Begin /\ t.pos = place /\ t.clear = TRUE
                      /\ Lists(t.pos) /\ Fitting(t.pos)
  BY BeginSound
<1>1. PICK n : n = Cardinality(Under(t.pos, d))
  OBVIOUS
<1>2. d \in Parents /\ x \in Rows /\ t.pos \in [Rows -> Place]
  BY Kinds DEF Rows, Tx
<1>3. n \in Nat /\ n < Offset /\ Listed(t.pos, d, n)
  BY <1>0, <1>1, <1>2, ListOf
<1>4. /\ exists /\ exists' = exists /\ text' = [text EXCEPT ![x] = c]
      /\ t.pos[x].in \in Days /\ t.pos[x].in \in Parents
  BY <1>0, Kinds DEF UpdateItem, Locked
<1>5. CASE t.pos[x].in = d
  <2>1. PICK u : u = MoveOrderedRow(t, x, d, k)
    OBVIOUS
  <2>2. Bump(u) /\ k \in 0 .. n - 1
    BY <1>0, <1>1, <1>5, <2>1 DEF UpdateItem, Total
  <2>3. Rearranged(t, u, d, x, n, k)
    BY <1>2, <1>3, <1>5, <2>1, <2>2, MoveSound
  <2>4. /\ u.pos \in [Rows -> Place]
        /\ Moved(t.pos, u.pos, d, x, k) /\ Kept(t.pos, u.pos, {}, {d})
    BY <2>3 DEF Rearranged, Tx
  <2>5. SameParents(t.pos, u.pos, {x})
    BY <2>4 DEF Kept, SameParents
  <2> QED BY <1>0, <1>4, <2>2, <2>4, <2>5 DEF Bump, Advanced
<1>6. CASE t.pos[x].in # d
  <2>1. PICK u : u = MoveToDay(t, x, d, k)
    OBVIOUS
  <2>2. Bump(u) /\ k \in 0 .. Cardinality(Under(t.pos, d))
    BY <1>0, <1>6, <2>1 DEF UpdateItem, Total
  <2>3. PICK p : p = t.pos[x].in
    OBVIOUS
  <2>4. Done(t, u, {x})
    BY <1>0, <1>2, <1>4, <1>6, <2>1, <2>2, <2>3, TransferLists
  <2>5. u.pos \in [Rows -> Place] /\ SameParents(t.pos, u.pos, {x})
    BY <2>4 DEF Done, Tx
  <2> QED BY <1>0, <1>4, <1>6, <2>2, <2>5 DEF Bump, Advanced
<1> QED BY <1>5, <1>6

\* deleteItem takes it out, and its day closes up.
LEMMA DeleteItemPlaces ==
  ASSUME IInv, NEW x \in Items, DeleteItem(revision, x)
  PROVE  /\ Advanced /\ place[x].in \in Days /\ UNCHANGED text /\ place'[x] = At("deleted", 0)
         /\ ClosedUp(place, place', place[x].in, x, place[x].at)
         /\ Kept(place, place', {x}, {place[x].in})
<1>0. PICK t \in Tx : /\ t = Begin /\ t.pos = place /\ t.clear = TRUE
                      /\ Lists(t.pos) /\ Fitting(t.pos)
  BY BeginSound
<1>1. PICK p, gone, u : /\ p = t.pos[x].in /\ gone = {x}
                        /\ u = CloseOrderGap(Without(t, gone), p, t.pos[x].at)
  OBVIOUS
<1>2. x \in Rows /\ p \in Days /\ p \in Parents /\ t.pos \in [Rows -> Place]
  BY <1>0, <1>1, Kinds DEF DeleteItem, Rows, Tx
<1>3. PICK n \in Nat : n < Offset /\ Listed(t.pos, p, n)
  BY <1>0, <1>2, ListOf
<1>4. gone \in SUBSET Rows /\ x \in gone /\ \A y \in gone \ {x} : t.pos[y].in # p
  BY <1>1, <1>2
<1>5. Removed(t, u, gone, x, p, n)
  BY <1>1, <1>2, <1>3, <1>4, RemoveSound
<1>6. Bump(u) /\ exists /\ exists' = exists /\ text' = text
  BY <1>0, <1>1 DEF DeleteItem, Locked
<1>7. /\ u.pos \in [Rows -> Place] /\ u.pos[x] = At("deleted", 0)
      /\ ClosedUp(t.pos, u.pos, p, x, t.pos[x].at) /\ Kept(t.pos, u.pos, {x}, {p})
  BY <1>1, <1>4, <1>5 DEF Removed, Tx
<1> QED BY <1>0, <1>1, <1>2, <1>6, <1>7 DEF Bump, Advanced

\* deleteDay takes the day out with its items, the other rows stay under their parents.
LEMMA DeleteDayPlaces ==
  ASSUME IInv, NEW x \in Days, DeleteDay(revision, x)
  PROVE  /\ Advanced /\ UNCHANGED text
         /\ \A y \in Rows : place'[y].in \in {place[y].in, "deleted"}
<1>0. PICK t \in Tx : /\ t = Begin /\ t.pos = place /\ t.clear = TRUE
                      /\ Lists(t.pos) /\ Fitting(t.pos)
  BY BeginSound
<1>1. PICK p, gone, Q, u : /\ p = "days" /\ gone = {x} \union Under(t.pos, x) /\ Q = {x}
                           /\ u = CloseOrderGap(Without(t, gone), p, t.pos[x].at)
  OBVIOUS
<1>2. x \in Rows /\ t.pos[x].in = p /\ p \in Parents /\ x \in Parents \ {p}
  BY <1>0, <1>1, Kinds DEF DeleteDay, Rows
<1>3. gone \in SUBSET Rows /\ Q \in SUBSET (Parents \ {p}) /\ x \in gone
  BY <1>1, <1>2 DEF Under
<1>4. Leaves(t, gone, x, p, Q)
  BY <1>1, <1>2 DEF Leaves, Under
<1>5. Done(t, u, gone) /\ \A y \in gone : u.pos[y].in = "deleted"
  <2>1. u = CloseOrderGap(Without(t, gone), p, t.pos[x].at) /\ Lists(t.pos)
    BY <1>0, <1>1
  <2> QED BY <1>2, <1>3, <1>4, <2>1, RemoveLists
<1>6. Bump(u) /\ exists /\ exists' = exists /\ text' = text
  BY <1>0, <1>1 DEF DeleteDay, Locked
<1>7. u.pos \in [Rows -> Place] /\ \A y \in Rows : u.pos[y].in \in {t.pos[y].in, "deleted"}
  BY <1>5 DEF Done, Tx, SameParents
<1> QED BY <1>0, <1>6, <1>7 DEF Bump, Advanced

-----------------------------------------------------------------------------
(* What a page holds of the trip: a state the trip had, with the revision  *)
(* it had then, as long as the page could show every change it saved.      *)

Trip(r, p, c, v) == [rev |-> r, place |-> p, text |-> c, missed |-> v]
Trips == [rev : Nat, place : [Rows -> Place], text : [Items -> Texts], missed : SUBSET Items]

\* t is the trip of an earlier revision, or the trip as it is, or lacks what
\* became of a change.
Shows(t, e, r, p, c) ==
  /\ t \in Trips /\ t.rev <= r
  /\ e /\ t.missed = {} /\ t.rev = r => t.place = p /\ t.text = c
Faithful(t) == Shows(t, exists, revision, place, text)

\* A page that adds, edits, removes and moves an item.
Adding(b, d, x, k, c) ==
  LET n == Cardinality(DayItems(b.place, d))
  IN [b EXCEPT !.place = OrderedWithMove(@, d, x, IF k < n THEN k ELSE n), !.text[x] = c]
Editing(b, d, x, k, c) ==
  IF x \in DayItems(b.place, d) THEN [b EXCEPT !.text[x] = c, !.place[x] = At(d, k)] ELSE b
Removing(b, d, x) ==
  IF x \in DayItems(b.place, d) THEN [b EXCEPT !.place = WithoutItem(@, d, x)] ELSE b
Moving(b, d, x, k) == [b EXCEPT !.place = OrderedWithMove(@, d, x, k)]

\* A change in flight: what was asked for, of a page b that became a.
Change(s, op, x, d, k, c, b, a, r) ==
  [stage |-> s, op |-> op, item |-> x, day |-> d, at |-> k, text |-> c,
   before |-> b, after |-> a, rev |-> r]
Asked(op, x, d, k, c, b, a) ==
  /\ x \in Items /\ d \in Days /\ k \in Nat /\ Faithful(b)
  /\ \/ op = "create" /\ c \in Texts /\ b.place[x].in = "unsaved" /\ a = Adding(b, d, x, k, c)
     \/ op = "update" /\ c \in Texts /\ a = Editing(b, d, x, k, c)
     \/ op = "delete" /\ a = Removing(b, d, x)
     \/ op = "move" /\ b.place[x].in = d /\ a = Moving(b, d, x, k)

\* Taken, of any change.
TakenOf(w) ==
  LET d == w.day
      x == w.item
  IN IF x \in DayItems(w.after.place, d)
     THEN [w.after EXCEPT !.rev = w.rev, !.text[x] = w.text,
             !.place[x] = At(d, IF w.op = "move" THEN @.at ELSE w.at)]
     ELSE [w.after EXCEPT !.rev = w.rev, !.missed = @ \union ({x} \ DayItems(w.before.place, d))]

\* The invariant of a page, part by part.
LoadOk == loading = NoLoad \/ loading.trip = NoTrip \/ Faithful(loading.trip)
EditorOk ==
  \/ editor = NoEditor
  \/ \E d \in Days : editor = [mode |-> "add", day |-> d]
  \/ \E m \in {"duplicate", "edit", "remove"}, d \in Days, x \in Items, k \in Nat :
       editor = [mode |-> m, day |-> d, item |-> x, at |-> k]
ViewOk ==
  /\ view = NoTrip => shown # "ready" /\ editor = NoEditor /\ call = NoCall
  /\ call.stage \in {"none", "reload", "reloaded"} => view = NoTrip \/ Faithful(view)
CallOk ==
  \/ call = NoCall \/ call = [stage |-> "reload"]
  \/ \E t : call = [stage |-> "reloaded", trip |-> t] /\ Faithful(t)
  \/ \E op, x, d, k, c, b, a :
       call = Change("sent", op, x, d, k, c, b, a, 0) /\ Asked(op, x, d, k, c, b, a)
  \/ \E op, x, d, k, c, b, a, r :
       call = Change("saved", op, x, d, k, c, b, a, r) /\ Faithful(b) /\ Faithful(Taken)
  \/ \E op, x, d, k, c, b, a, r :
       call = Change("failed", op, x, d, k, c, b, a, r) /\ Faithful(b)
PageInv == IInv /\ LoadOk /\ EditorOk /\ ViewOk /\ CallOk

\* What any operation does to the trip: a new revision, or its end.
Grown ==
  /\ IInv' /\ revision' >= revision
  /\ exists' => exists /\ revision' = revision + 1
Onward == IInv /\ (Grown \/ UNCHANGED saved)

-----------------------------------------------------------------------------
\* A trip a page holds is a record of its revision, its rows and their contents.
LEMMA TripIs ==
  ASSUME NEW t \in Trips
  PROVE  /\ t = Trip(t.rev, t.place, t.text, t.missed) /\ t # NoTrip /\ t.missed \subseteq Items
         /\ t.rev \in Nat /\ t.place \in [Rows -> Place] /\ t.text \in [Items -> Texts]
  BY DEF Trips, Trip, NoTrip

\* A function with one value changed.
Assigned(f, x, y) == [f EXCEPT ![x] = y]

\* What the page shows after a change, as a record.
LEMMA AddingIs ==
  ASSUME NEW b \in Trips, NEW d, NEW x, NEW k, NEW c, NEW n, n = Cardinality(DayItems(b.place, d)),
         NEW q, q = OrderedWithMove(b.place, d, x, IF k < n THEN k ELSE n),
         NEW f, f = Assigned(b.text, x, c)
  PROVE  Adding(b, d, x, k, c) = Trip(b.rev, q, f, b.missed)
<1>1. PICK r, p, e, h : /\ b = Trip(r, p, e, h)
                        /\ b.rev = r /\ b.place = p /\ b.text = e /\ b.missed = h
  BY TripIs
<1>2. b = [rev |-> r, place |-> p, text |-> e, missed |-> h]
  BY <1>1 DEF Trip
<1>3. q = OrderedWithMove(p, d, x, IF k < n THEN k ELSE n) /\ f = [e EXCEPT ![x] = c]
  BY <1>1 DEF Assigned
<1>4. Adding(b, d, x, k, c) = [b EXCEPT !.place = q, !.text[x] = c]
  BY <1>1, <1>3 DEF Adding
<1>5. @ = [[b EXCEPT !.place = q] EXCEPT !.text[x] = c]
  BY <1>2
<1>6. [b EXCEPT !.place = q] = [rev |-> r, place |-> q, text |-> e, missed |-> h]
  BY <1>2
<1> QED BY <1>1, <1>3, <1>4, <1>5, <1>6 DEF Trip

LEMMA EditingIs ==
  ASSUME NEW b \in Trips, NEW d, NEW x, NEW k, NEW c,
         NEW y, y = At(d, k), NEW q, q = Assigned(b.place, x, y), NEW f, f = Assigned(b.text, x, c)
  PROVE  /\ x \in DayItems(b.place, d) => Editing(b, d, x, k, c) = Trip(b.rev, q, f, b.missed)
         /\ x \notin DayItems(b.place, d) => Editing(b, d, x, k, c) = b
<1>1. PICK r, p, e, h : /\ b = Trip(r, p, e, h)
                        /\ b.rev = r /\ b.place = p /\ b.text = e /\ b.missed = h
  BY TripIs
<1>2. b = [rev |-> r, place |-> p, text |-> e, missed |-> h]
  BY <1>1 DEF Trip
<1>3. y = At(d, k)
  OBVIOUS
<1>4. PICK v : v = [b EXCEPT !.text[x] = c]
  OBVIOUS
<1>5. v = [rev |-> r, place |-> p, text |-> [e EXCEPT ![x] = c], missed |-> h]
  BY <1>2, <1>4
<1>6. [b EXCEPT !.text[x] = c, !.place[x] = y] = [v EXCEPT !.place[x] = y]
  BY <1>4, Zenon
<1>7. @ = [rev |-> r, place |-> [p EXCEPT ![x] = y], text |-> [e EXCEPT ![x] = c], missed |-> h]
  BY ONLY <1>5
<1>8. Editing(b, d, x, k, c) =
        IF x \in DayItems(b.place, d) THEN [b EXCEPT !.text[x] = c, !.place[x] = y] ELSE b
  BY <1>3, Zenon DEF Editing
<1> QED BY <1>1, <1>3, <1>6, <1>7, <1>8, Zenon DEF Trip, Assigned

LEMMA RemovingIs ==
  ASSUME NEW b \in Trips, NEW d, NEW x
  PROVE  Removing(b, d, x) =
           IF x \in DayItems(b.place, d)
           THEN Trip(b.rev, WithoutItem(b.place, d, x), b.text, b.missed) ELSE b
<1>1. PICK r, p, e, h : /\ b = Trip(r, p, e, h)
                        /\ b.rev = r /\ b.place = p /\ b.text = e /\ b.missed = h
  BY TripIs
<1>2. b = [rev |-> r, place |-> p, text |-> e, missed |-> h]
  BY <1>1 DEF Trip
<1> QED BY <1>1, <1>2 DEF Removing, Trip

LEMMA MovingIs ==
  ASSUME NEW b \in Trips, NEW d, NEW x, NEW k
  PROVE  Moving(b, d, x, k) = Trip(b.rev, OrderedWithMove(b.place, d, x, k), b.text, b.missed)
<1>1. PICK r, p, e, h : /\ b = Trip(r, p, e, h)
                        /\ b.rev = r /\ b.place = p /\ b.text = e /\ b.missed = h
  BY TripIs
<1>2. b = [rev |-> r, place |-> p, text |-> e, missed |-> h]
  BY <1>1 DEF Trip
<1> QED BY <1>1, <1>2 DEF Moving, Trip

\* A function of rows with one value changed.
LEMMA AssignedIs ==
  ASSUME NEW S, NEW T, NEW f \in [S -> T], NEW x \in S, NEW y \in T
  PROVE  /\ Assigned(f, x, y) \in [S -> T] /\ Assigned(f, x, y)[x] = y
         /\ \A z \in S \ {x} : Assigned(f, x, y)[z] = f[z]
  BY DEF Assigned

\* The page places rows where rows can be, whatever it shows.
LEMMA PageReckons ==
  ASSUME NEW pos \in [Rows -> Place], NEW d \in Days, NEW x \in Items, NEW k \in Nat
  PROVE  /\ OrderedWithMove(pos, d, x, k) \in [Rows -> Place]
         /\ WithoutItem(pos, d, x) \in [Rows -> Place]
<1>1. ASSUME NEW y PROVE Rank(pos, d, x, y) \in Nat
  <2>1. PICK S : S = {z \in DayItems(pos, d) \ {x} : pos[z].at < pos[y].at}
    OBVIOUS
  <2>2. S \subseteq Rows
    BY <2>1 DEF DayItems, Rows
  <2>3. IsFiniteSet(S)
    BY <2>2, RowsAssumption, FS_Subset
  <2>4. Cardinality(S) \in Nat
    BY <2>3, FS_CardinalityType
  <2> QED BY <2>1, <2>4 DEF Rank
<1>2. \A n \in Nat : At(d, n) \in Place /\ At("deleted", n) \in Place
  BY PlaceOf, Kinds
<1>3. ASSUME NEW y \in Rows
      PROVE  (IF y = x THEN At(d, k)
              ELSE IF y \in DayItems(pos, d)
              THEN LET r == Rank(pos, d, x, y) IN At(d, IF r < k THEN r ELSE r + 1)
              ELSE pos[y]) \in Place
  <2>1. PICK r \in Nat : r = Rank(pos, d, x, y)
    BY <1>1
  <2>2. At(d, k) \in Place /\ At(d, IF r < k THEN r ELSE r + 1) \in Place /\ pos[y] \in Place
    BY <1>2
  <2> QED BY <2>1, <2>2
<1>4. ASSUME NEW y \in Rows
      PROVE  (IF y = x THEN At("deleted", 0)
              ELSE IF y \in DayItems(pos, d) THEN At(d, Rank(pos, d, x, y)) ELSE pos[y]) \in Place
  BY <1>1, <1>2
<1> QED BY <1>3, <1>4 DEF OrderedWithMove, WithoutItem

\* What the page shows after a change is a trip, and misses what it missed.
LEMMA ChangeIs ==
  ASSUME NEW op, NEW x, NEW d, NEW k, NEW c, NEW b, NEW a, Asked(op, x, d, k, c, b, a)
  PROVE  a \in Trips /\ a.missed = b.missed
<1>1. b \in Trips /\ x \in Items /\ d \in Days /\ k \in Nat /\ x \in Rows
  BY DEF Asked, Faithful, Shows, Rows
<1>2. /\ b.rev \in Nat /\ b.place \in [Rows -> Place] /\ b.text \in [Items -> Texts]
      /\ b.missed \subseteq Items
  BY <1>1, TripIs
<1>3. ASSUME NEW p \in [Rows -> Place], NEW e \in [Items -> Texts], a = Trip(b.rev, p, e, b.missed)
      PROVE  a \in Trips /\ a.missed = b.missed
  BY <1>2, <1>3 DEF Trip, Trips
<1>4. CASE op = "create"
  <2>1. PICK n : n = Cardinality(DayItems(b.place, d))
    OBVIOUS
  <2>2. n \in Nat
    <3>1. DayItems(b.place, d) \subseteq Rows
      BY DEF DayItems, Rows
    <3> QED BY <2>1, <3>1, RowsAssumption, FS_Subset, FS_CardinalityType
  <2>3. a = Adding(b, d, x, k, c) /\ c \in Texts
    BY <1>4 DEF Asked
  <2>4. PICK m \in Nat : m = IF k < n THEN k ELSE n
    BY <1>1, <2>2
  <2>5. PICK q, f : q = OrderedWithMove(b.place, d, x, m) /\ f = Assigned(b.text, x, c)
    OBVIOUS
  <2>6. a = Trip(b.rev, q, f, b.missed)
    BY <1>1, <2>1, <2>3, <2>4, <2>5, AddingIs
  <2>7. q \in [Rows -> Place] /\ f \in [Items -> Texts]
    BY <1>1, <1>2, <2>3, <2>5, PageReckons, AssignedIs
  <2> QED BY <1>3, <2>6, <2>7
<1>5. CASE op = "update"
  <2>1. PICK y, q, f : y = At(d, k) /\ q = Assigned(b.place, x, y) /\ f = Assigned(b.text, x, c)
    OBVIOUS
  <2>2. a = Editing(b, d, x, k, c) /\ c \in Texts
    BY <1>5 DEF Asked
  <2>3. CASE x \in DayItems(b.place, d)
    <3>1. a = Trip(b.rev, q, f, b.missed)
      BY <1>1, <2>1, <2>2, <2>3, EditingIs
    <3>2. y \in Place
      BY <1>1, <2>1, PlaceOf, Kinds
    <3>3. q \in [Rows -> Place] /\ f \in [Items -> Texts]
      BY <1>1, <1>2, <2>1, <2>2, <3>2, AssignedIs
    <3> QED BY <1>3, <3>1, <3>3
  <2>4. CASE x \notin DayItems(b.place, d)
    BY <1>1, <2>1, <2>2, <2>4, EditingIs
  <2> QED BY <2>3, <2>4
<1>6. CASE op = "delete"
  <2>1. a = Removing(b, d, x)
    BY <1>6 DEF Asked
  <2>2. WithoutItem(b.place, d, x) \in [Rows -> Place]
    BY <1>1, <1>2, PageReckons
  <2> QED BY <1>1, <1>2, <1>3, <2>1, <2>2, RemovingIs
<1>7. CASE op = "move"
  <2>1. a = Moving(b, d, x, k)
    BY <1>7 DEF Asked
  <2>2. OrderedWithMove(b.place, d, x, k) \in [Rows -> Place]
    BY <1>1, <1>2, PageReckons
  <2> QED BY <1>1, <1>2, <1>3, <2>1, <2>2, MovingIs
<1> QED BY <1>4, <1>5, <1>6, <1>7 DEF Asked

\* What a page misses after an answer about x that it looked for in the day d of b.
MissedToo(v, b, x, d) == v \union ({x} \ DayItems(b.place, d))

\* The page with the answer taken in, as a record.
LEMMA TakenIs ==
  ASSUME NEW op, NEW x \in Items, NEW d, NEW k, NEW c, NEW b, NEW r0, NEW p \in [Rows -> Place],
         NEW e, NEW v, NEW r,
         NEW w, w = Change("saved", op, x, d, k, c, b, Trip(r0, p, e, v), r),
         NEW y, y = At(d, IF op = "move" THEN p[x].at ELSE k),
         NEW q, q = Assigned(p, x, y), NEW f, f = Assigned(e, x, c)
  PROVE  /\ p[x].in = d => TakenOf(w) = Trip(r, q, f, v)
         /\ p[x].in # d => TakenOf(w) = Trip(r, p, e, MissedToo(v, b, x, d))
<1>1. /\ w.day = d /\ w.item = x /\ w.rev = r /\ w.text = c /\ w.op = op /\ w.at = k
      /\ w.after = [rev |-> r0, place |-> p, text |-> e, missed |-> v] /\ w.before = b
  BY DEF Change, Trip
<1>2. x \in DayItems(p, d) <=> p[x].in = d
  BY DEF DayItems
<1>3. PICK a : a = w.after
  OBVIOUS
<1>4. a = [rev |-> r0, place |-> p, text |-> e, missed |-> v]
  BY <1>1, <1>3
<1>5. CASE p[x].in = d
  <2>1. TakenOf(w) = [a EXCEPT !.rev = r, !.text[x] = c, !.place[x] = y]
    <3>1. x \in DayItems(a.place, d) /\ a.place = p
      BY <1>2, <1>4, <1>5
    <3>2. TakenOf(w) = [a EXCEPT !.rev = r, !.text[x] = c,
             !.place[x] = At(d, IF op = "move" THEN @.at ELSE k)]
      BY <1>1, <1>3, <3>1, Zenon DEF TakenOf
    <3>3. a.place[x].at = p[x].at
      BY <3>1
    <3>4. [[a EXCEPT !.rev = r] EXCEPT !.text[x] = c].place[x].at = p[x].at
      BY <1>4
    <3> QED BY <3>2, <3>3, <3>4, Zenon
  <2>2. PICK m : m = [a EXCEPT !.rev = r]
    OBVIOUS
  <2>3. m = [rev |-> r, place |-> p, text |-> e, missed |-> v]
    BY <1>4, <2>2
  <2>a. PICK u : u = [m EXCEPT !.text[x] = c]
    OBVIOUS
  <2>4. u = [rev |-> r, place |-> p, text |-> [e EXCEPT ![x] = c], missed |-> v]
    BY ONLY <2>3, <2>a
  <2>5. TakenOf(w) = [u EXCEPT !.place[x] = y]
    BY <2>1, <2>2, <2>a, Zenon
  <2>6. @ = [rev |-> r, place |-> [p EXCEPT ![x] = y], text |-> [e EXCEPT ![x] = c], missed |-> v]
    BY ONLY <2>4
  <2> QED BY <1>5, <2>5, <2>6 DEF Trip, Assigned
<1>6. CASE p[x].in # d
  <2>1. PICK z : z = {x} \ DayItems(b.place, d)
    OBVIOUS
  <2>2. TakenOf(w) = [a EXCEPT !.rev = r, !.missed = @ \union z]
    <3>1. x \notin DayItems(w.after.place, w.day)
      BY <1>1, <1>2, <1>6
    <3>2. w.item = x /\ w.day = d /\ w.after = a /\ w.before = b /\ w.rev = r
      BY <1>1, <1>3
    <3> QED BY <2>1, <3>1, <3>2, Zenon DEF TakenOf
  <2>3. PICK m : m = [a EXCEPT !.rev = r]
    OBVIOUS
  <2>4. m = [rev |-> r, place |-> p, text |-> e, missed |-> v]
    BY ONLY <1>4, <2>3
  <2>5. TakenOf(w) = [m EXCEPT !.missed = @ \union z]
    BY <2>2, <2>3, Zenon
  <2>6. @ = [rev |-> r, place |-> p, text |-> e, missed |-> v \union z]
    BY ONLY <2>4
  <2>7. v \union z = MissedToo(v, b, x, d)
    BY <2>1 DEF MissedToo
  <2> QED BY <1>6, <2>5, <2>6, <2>7 DEF Trip
<1> QED BY <1>5, <1>6

-----------------------------------------------------------------------------
(* What the steps do to the trip and to the pages that hold a state of it. *)

\* A page that held a state of the trip still does.
LEMMA ShowsStays ==
  ASSUME Onward, NEW t, Faithful(t)
  PROVE  Shows(t, exists', revision', place', text')
<1>1. /\ t \in Trips /\ t.rev \in Nat /\ t.rev <= revision /\ revision \in Nat
      /\ exists /\ t.missed = {} /\ t.rev = revision => t.place = place /\ t.text = text
  BY TripIs DEF Faithful, Shows, Onward, IInv, TypeOK
<1>2. CASE Grown
  <2>1. revision' \in Nat
    BY <1>2 DEF Grown, IInv, TypeOK
  <2>2. t.rev <= revision' /\ ~(exists' /\ t.rev = revision')
    BY <1>1, <1>2, <2>1 DEF Grown
  <2> QED BY <1>1, <2>2 DEF Shows
<1>3. CASE UNCHANGED saved
  BY <1>1, <1>3 DEF Shows, saved
<1> QED BY <1>2, <1>3 DEF Onward

\* A state that misses nothing under the current revision is the trip as it is.
LEMMA ShowsNow ==
  ASSUME NEW t, Faithful(t), exists, t.missed = {}, t.rev = revision
  PROVE  t = Trip(revision, place, text, {}) /\ t.place = place /\ t.text = text
<1>1. t \in Trips /\ t.place = place /\ t.text = text
  BY DEF Faithful, Shows
<1> QED BY <1>1, TripIs

\* The trip as it is, is such a state.
LEMMA NowShows ==
  ASSUME IInv
  PROVE  Faithful(Trip(revision, place, text, {}))
<1>1. revision \in Nat /\ place \in [Rows -> Place] /\ text \in [Items -> Texts]
  BY DEF IInv, TypeOK
<1>2. PICK t : t = Trip(revision, place, text, {})
  OBVIOUS
<1>3. t \in Trips /\ t.rev = revision /\ t.place = place /\ t.text = text
  BY <1>1, <1>2 DEF Trip, Trips
<1>4. Faithful(t)
  BY <1>1, <1>3 DEF Faithful, Shows
<1> QED BY <1>2, <1>4

\* Every operation on the items or a day makes a new revision.
LEMMA OperationGrows ==
  ASSUME IInv, IInv',
         \/ \E x \in Items, d \in Days, k \in Nat, c \in Texts : CreateItem(revision, x, d, k, c)
         \/ \E x \in Items, d \in Days, k \in Nat : \E c : UpdateItem(revision, x, d, k, c)
         \/ \E x \in Items : DeleteItem(revision, x)
         \/ \E d \in Days, n \in Dates, k \in Nat : CreateDay(revision, d, n, k)
         \/ \E d \in Days : DeleteDay(revision, d)
  PROVE  Grown
<1>1. exists /\ UNCHANGED exists /\ revision' = revision + 1
  BY DEF CreateItem, UpdateItem, DeleteItem, CreateDay, DeleteDay, Locked, Bump
<1> QED BY <1>1 DEF Grown, IInv, TypeOK

\* An operation of another client.
LEMMA ElsewhereGrows ==
  ASSUME IInv, Elsewhere
  PROVE  Grown
<1>0. /\ Cardinality(Items) \in Nat /\ Cardinality(Days) \in Nat
      /\ revision \in Nat /\ text \in [Items -> Texts]
  <2>1. IsFiniteSet(Items) /\ IsFiniteSet(Days)
    BY RowsAssumption, FS_Subset DEF Rows
  <2>2. Cardinality(Items) \in Nat /\ Cardinality(Days) \in Nat
    BY <2>1, FS_CardinalityType
  <2> QED BY <2>2 DEF IInv, TypeOK
<1>1. \A k \in 0 .. Cardinality(Items) : k \in Nat
  BY <1>0
<1>2. \A k \in 0 .. Cardinality(Days) : k \in Nat
  BY <1>0
<1>3. ASSUME NEW x \in Items, NEW d \in Days, CreateItem(revision, x, d, 0, text[x])
      PROVE  Grown
  <2>1. 0 \in Nat /\ text[x] \in Texts
    BY <1>0
  <2> QED BY <1>3, <2>1, CreateItemSound, OperationGrows
<1>4. ASSUME NEW x \in Items, NEW d \in Days, NEW k \in 0 .. Cardinality(Items), NEW c \in Texts,
             UpdateItem(revision, x, d, k, c)
      PROVE  Grown
  BY <1>1, <1>4, UpdateItemSound, OperationGrows
<1>5. ASSUME NEW x \in Items, DeleteItem(revision, x)
      PROVE  Grown
  BY <1>5, DeleteItemSound, OperationGrows
<1>6. ASSUME NEW d \in Days, NEW n \in Dates, NEW k \in 0 .. Cardinality(Days),
             CreateDay(revision, d, n, k)
      PROVE  Grown
  BY <1>2, <1>6, CreateDaySound, OperationGrows
<1>7. ASSUME NEW d \in Days, DeleteDay(revision, d)
      PROVE  Grown
  BY <1>7, DeleteDaySound, OperationGrows
<1>8. CASE DeleteTrip(revision)
  <2>1. IInv'
    BY <1>8, DeleteTripSound
  <2>2. exists' = FALSE /\ revision' = revision
    BY <1>8 DEF DeleteTrip
  <2> QED BY <1>0, <2>1, <2>2 DEF Grown
<1> QED BY <1>3, <1>4, <1>5, <1>6, <1>7, <1>8 DEF Elsewhere

\* An operation answered: the change becomes a saved one, with what was saved.
Served(w, r, m, e) ==
  [w EXCEPT !.stage = "saved", !.rev = r, !.at = m, !.text = e]
LEMMA ServedIs ==
  ASSUME NEW op, NEW x, NEW d, NEW k, NEW c, NEW b, NEW a, NEW r, NEW m, NEW e, NEW w,
         w = Change("sent", op, x, d, k, c, b, a, 0)
  PROVE  Served(w, r, m, e) = Change("saved", op, x, d, m, e, b, a, r)
<1>0. w = [stage |-> "sent", op |-> op, item |-> x, day |-> d, at |-> k, text |-> c,
           before |-> b, after |-> a, rev |-> 0]
  BY DEF Change
<1>1. PICK v1 : v1 = [w EXCEPT !.stage = "saved"]
  OBVIOUS
<1>2. v1 = [stage |-> "saved", op |-> op, item |-> x, day |-> d, at |-> k, text |-> c,
            before |-> b, after |-> a, rev |-> 0]
  BY ONLY <1>0, <1>1
<1>3. PICK v2 : v2 = [v1 EXCEPT !.rev = r]
  OBVIOUS
<1>4. v2 = [stage |-> "saved", op |-> op, item |-> x, day |-> d, at |-> k, text |-> c,
            before |-> b, after |-> a, rev |-> r]
  BY ONLY <1>2, <1>3
<1>5. PICK v3 : v3 = [v2 EXCEPT !.at = m]
  OBVIOUS
<1>6. v3 = [stage |-> "saved", op |-> op, item |-> x, day |-> d, at |-> m, text |-> c,
            before |-> b, after |-> a, rev |-> r]
  BY ONLY <1>4, <1>5
<1>7. Served(w, r, m, e) = [v3 EXCEPT !.text = e]
  BY <1>1, <1>3, <1>5, Zenon DEF Served
<1>8. [v3 EXCEPT !.text = e] = Change("saved", op, x, d, m, e, b, a, r)
  BY ONLY <1>6 DEF Change
<1> QED BY <1>7, <1>8

\* A function is not changed by the value it has.
LEMMA AssignedSame ==
  ASSUME NEW S, NEW T, NEW f \in [S -> T], NEW x \in S
  PROVE  Assigned(f, x, f[x]) = f
  BY DEF Assigned

\* A new item: the page showed the rows it was put among, and takes it as it was put.
LEMMA ServeCreate ==
  ASSUME IInv, NEW x \in Items, NEW d \in Days, NEW k \in Nat, NEW c \in Texts,
         CreateItem(revision, x, d, k, c), NEW b, b = Trip(revision, place, text, {}),
         NEW a, a = Adding(b, d, x, k, c),
         NEW w, w = Change("saved", "create", x, d, place'[x].at, text'[x], b, a, revision')
  PROVE  Grown /\ TakenOf(w) = Trip(revision', place', text', {})
<1>1. IInv'
  BY CreateItemSound
<1>2. /\ Advanced /\ place[x].in = "unsaved" /\ text' = Assigned(text, x, c)
      /\ Opened(place, place', d, x, k) /\ Kept(place, place', {x}, {d})
  BY CreateItemPlaces DEF Assigned
<1>3. /\ place \in [Rows -> Place] /\ place' \in [Rows -> Place] /\ revision \in Nat
      /\ text \in [Items -> Texts] /\ text' \in [Items -> Texts] /\ x \in Rows
  BY <1>1, <1>2 DEF IInv, TypeOK, Rows, Advanced
<1>4. Fitting(place) /\ Lists(place) /\ d # "unsaved" /\ d # "deleted" /\ "unsaved" \notin Days
  BY BeginSound, RowsAssumption
<1>5. Grown
  BY <1>1, OperationGrows
<1>6. place' = OrderedWithMove(place, d, x, k)
  <2>1. place[x].in # d
    BY <1>2, <1>4
  <2> QED BY <1>2, <1>3, <1>4, <2>1, PageInserts
<1>7. PICK n : n = Cardinality(DayItems(b.place, d))
  OBVIOUS
<1>8. b \in Trips /\ b.rev = revision /\ b.place = place /\ b.text = text /\ b.missed = {}
  BY <1>3 DEF Trip, Trips
<1>9. k = IF k < n THEN k ELSE n
  <2>1. n = Cardinality(Under(place, d)) /\ k \in 0 .. Cardinality(Under(place, d))
    BY <1>4, <1>7, <1>8, DayItemsUnder DEF CreateItem, Total
  <2>2. n \in Nat
    BY <1>3, <1>4, <2>1, ListOf, Kinds
  <2> QED BY <2>1, <2>2
<1>10. place' = OrderedWithMove(b.place, d, x, IF k < n THEN k ELSE n)
  BY <1>6, <1>8, <1>9
<1>11. a = Trip(revision, place', text', {})
  <2>1. PICK q, f : q = place' /\ f = text'
    OBVIOUS
  <2>2. q = OrderedWithMove(b.place, d, x, IF k < n THEN k ELSE n) /\ f = Assigned(b.text, x, c)
    BY <1>2, <1>8, <1>10, <2>1
  <2>3. Adding(b, d, x, k, c) = Trip(b.rev, q, f, {})
    BY <1>7, <1>8, <2>2, AddingIs
  <2> QED BY <1>8, <2>1, <2>3
<1>12. PICK p, e, r, y : /\ p = place' /\ e = text' /\ r = revision'
                         /\ y = At(d, IF "create" = "move" THEN p[x].at ELSE place'[x].at)
  OBVIOUS
<1>13. y = p[x] /\ p[x].in = d
  BY <1>2, <1>3, <1>12, PlaceIs DEF Opened
<1>14. p = Assigned(p, x, y) /\ e = Assigned(e, x, text'[x])
  <2>1. p \in [Rows -> Place] /\ e \in [Items -> Texts]
    BY <1>3, <1>12
  <2>2. Assigned(p, x, p[x]) = p
    BY ONLY <1>3, <2>1, AssignedSame
  <2>3. Assigned(e, x, e[x]) = e
    BY ONLY <2>1, x \in Items, AssignedSame
  <2> QED BY <1>12, <1>13, <2>2, <2>3
<1>15. TakenOf(w) = Trip(r, p, e, {})
  <2>1. PICK m, g, o : m = place'[x].at /\ g = text'[x] /\ o = {}
    OBVIOUS
  <2>2. w = Change("saved", "create", x, d, m, g, b, Trip(revision, p, e, o), r)
    BY <1>11, <1>12, <2>1
  <2>3. p \in [Rows -> Place] /\ y = At(d, IF "create" = "move" THEN p[x].at ELSE m)
    BY <1>3, <1>12, <2>1
  <2>4. p = Assigned(p, x, y) /\ e = Assigned(e, x, g) /\ p[x].in = d
    BY <1>13, <1>14, <2>1
  <2>5. TakenOf(w) = Trip(r, p, e, o)
    BY ONLY <2>2, <2>3, <2>4, x \in Items, TakenIs
  <2> QED BY <2>1, <2>5
<1> QED BY <1>5, <1>12, <1>15

\* Other contents: the page shows the item with them, and where it still is.
LEMMA ServeUpdate ==
  ASSUME IInv, NEW x \in Items, NEW d \in Days, NEW k \in Nat, NEW c \in Texts,
         place[x].in = d, UpdateItem(revision, x, place[x].in, place[x].at, c),
         NEW b, b = Trip(revision, place, text, {}), NEW a, a = Editing(b, d, x, k, c),
         NEW w, w = Change("saved", "update", x, d, place'[x].at, text'[x], b, a, revision')
  PROVE  Grown /\ TakenOf(w) = Trip(revision', place', text', {})
<1>0. place[x].in = d /\ d \notin {"deleted", "unsaved"}
  BY RowsAssumption
<1>1. place \in [Rows -> Place] /\ text \in [Items -> Texts] /\ x \in Rows /\ revision \in Nat
  BY DEF IInv, TypeOK, Rows
<1>2. PICK m \in Nat : m = place[x].at
  BY <1>1, PlaceIs
<1>3. UpdateItem(revision, x, d, m, c)
  BY <1>0, <1>2
<1>4. IInv'
  BY <1>3, UpdateItemSound
<1>5. /\ Advanced /\ text' = Assigned(text, x, c) /\ SameParents(place, place', {x})
      /\ Moved(place, place', d, x, m) /\ Kept(place, place', {}, {d})
  BY <1>0, <1>3, UpdateItemPlaces DEF Assigned
<1>6. place' \in [Rows -> Place] /\ text' \in [Items -> Texts]
  BY <1>4 DEF IInv, TypeOK
<1>7. place' = place
  <2>1. ASSUME NEW y \in Rows
        PROVE  place'[y] = place[y]
    <3>1. /\ place'[y] = At(place'[y].in, place'[y].at) /\ place[y] = At(place[y].in, place[y].at)
          /\ place[y].at \in Nat
      BY <1>1, <1>6, PlaceIs
    <3>2. CASE y = x
      BY <1>0, <1>2, <1>5, <3>1, <3>2 DEF Moved
    <3>3. CASE y # x /\ place[y].in = d
      <4>1. place'[y].in = d /\ place'[y].at = Stepped(place[y].at, m, m)
        BY <1>2, <1>5, <3>3 DEF Moved
      <4>2. Stepped(place[y].at, m, m) = place[y].at
        BY <3>1 DEF Stepped
      <4> QED BY <3>1, <3>3, <4>1, <4>2
    <3>4. CASE place[y].in # d
      BY <1>5, <3>4 DEF Kept
    <3> QED BY <3>2, <3>3, <3>4
  <2> QED BY <1>1, <1>6, <2>1
<1>8. Grown
  BY <1>3, <1>4, OperationGrows
<1>9. b \in Trips /\ b.rev = revision /\ b.place = place /\ b.text = text /\ b.missed = {}
  BY <1>1 DEF Trip, Trips
<1>10. PICK y, p, f : y = At(d, k) /\ p = Assigned(place, x, y) /\ f = text'
  OBVIOUS
<1>11. y \in Place /\ y.in = d
  BY <1>10, PlaceOf, Kinds DEF At
<1>12. p \in [Rows -> Place] /\ p[x] = y /\ \A z \in Rows \ {x} : p[z] = place[z]
  <2>1. place \in [Rows -> Place] /\ x \in Rows /\ y \in Place
    BY <1>1, <1>11
  <2>2. PICK s : s = place
    OBVIOUS
  <2>3. s \in [Rows -> Place] /\ x \in Rows /\ y \in Place
    BY <2>1, <2>2
  <2>4. /\ Assigned(s, x, y) \in [Rows -> Place] /\ Assigned(s, x, y)[x] = y
        /\ \A z \in Rows \ {x} : Assigned(s, x, y)[z] = s[z]
    BY ONLY <2>3 DEF Assigned
  <2> QED BY <1>10, <2>2, <2>4
<1>13. a = Trip(revision, p, f, {})
  <2>1. x \in DayItems(b.place, d)
    BY <1>0, <1>9 DEF DayItems
  <2>2. p = Assigned(b.place, x, y) /\ f = Assigned(b.text, x, c)
    BY <1>5, <1>9, <1>10
  <2>3. Editing(b, d, x, k, c) = Trip(b.rev, p, f, {})
    BY <1>9, <1>10, <2>1, <2>2, EditingIs
  <2> QED BY <1>9, <2>3
<1>14. PICK h, g, r, v : h = place'[x].at /\ g = text'[x] /\ r = revision' /\ v = At(d, h)
  OBVIOUS
<1>15. v = place[x]
  BY <1>0, <1>1, <1>7, <1>14, PlaceIs
<1>16. Assigned(p, x, v) = place'
  <2>1. v \in Place
    BY <1>1, <1>15
  <2>2. Assigned(p, x, v) \in [Rows -> Place] /\ Assigned(p, x, v)[x] = v
        /\ \A z \in Rows \ {x} : Assigned(p, x, v)[z] = p[z]
    BY ONLY <1>1, <1>12, <2>1, AssignedIs
  <2> QED BY <1>1, <1>7, <1>12, <1>15, <2>2
<1>17. Assigned(f, x, g) = f
  <2>1. f \in [Items -> Texts] /\ g = f[x]
    BY <1>6, <1>10, <1>14
  <2>2. Assigned(f, x, f[x]) = f
    BY ONLY <2>1, x \in Items, AssignedSame
  <2> QED BY ONLY <2>1, <2>2
<1>18. PICK q : q = place'
  OBVIOUS
<1>19. TakenOf(w) = Trip(r, q, f, {})
  <2>0. PICK o : o = {}
    OBVIOUS
  <2>1. w = Change("saved", "update", x, d, h, g, b, Trip(revision, p, f, o), r)
    BY <1>13, <1>14, <2>0
  <2>2. v = At(d, IF "update" = "move" THEN p[x].at ELSE h) /\ p[x].in = d
    BY <1>11, <1>12, <1>14
  <2>3. q = Assigned(p, x, v) /\ f = Assigned(f, x, g)
    BY <1>16, <1>17, <1>18
  <2>4. TakenOf(w) = Trip(r, q, f, o)
    BY ONLY <1>12, <2>1, <2>2, <2>3, x \in Items, TakenIs
  <2> QED BY <2>0, <2>4
<1> QED BY <1>8, <1>10, <1>14, <1>18, <1>19

\* Another position: the page moved the item as the repository does.
LEMMA ServeMove ==
  ASSUME IInv, NEW x \in Items, NEW d \in Days, NEW k \in Nat, NEW c,
         place[x].in = d, UpdateItem(revision, x, d, k, text[x]),
         NEW b, b = Trip(revision, place, text, {}), NEW a, a = Moving(b, d, x, k),
         NEW w, w = Change("saved", "move", x, d, place'[x].at, text'[x], b, a, revision')
  PROVE  Grown /\ TakenOf(w) = Trip(revision', place', text', {})
<1>0. place[x].in = d /\ d \notin {"deleted", "unsaved"}
  BY RowsAssumption
<1>1. /\ place \in [Rows -> Place] /\ text \in [Items -> Texts] /\ x \in Rows /\ revision \in Nat
      /\ text[x] \in Texts
  BY DEF IInv, TypeOK, Rows
<1>2. IInv'
  BY <1>1, UpdateItemSound
<1>3. /\ Advanced /\ text' = Assigned(text, x, text[x]) /\ SameParents(place, place', {x})
      /\ Moved(place, place', d, x, k) /\ Kept(place, place', {}, {d})
  BY <1>0, UpdateItemPlaces DEF Assigned
<1>4. place' \in [Rows -> Place] /\ text' \in [Items -> Texts]
  BY <1>2 DEF IInv, TypeOK
<1>5. text' = text
  <2>1. Assigned(text, x, text[x]) = text
    BY ONLY <1>1, x \in Items, AssignedSame
  <2> QED BY <1>3, <2>1
<1>6. place' = OrderedWithMove(place, d, x, k)
  <2>1. Fitting(place) /\ Lists(place)
    BY BeginSound
  <2> QED BY <1>0, <1>1, <1>3, <1>4, <2>1, PageMoves
<1>7. Grown
  BY <1>1, <1>2, OperationGrows
<1>8. b \in Trips /\ b.rev = revision /\ b.place = place /\ b.text = text /\ b.missed = {}
  BY <1>1 DEF Trip, Trips
<1>9. PICK p, f, h, g, r : /\ p = place' /\ f = text'
                           /\ h = place'[x].at /\ g = text'[x] /\ r = revision'
  OBVIOUS
<1>10. a = Trip(revision, p, f, {})
  BY <1>5, <1>6, <1>8, <1>9, MovingIs
<1>11. PICK v : v = At(d, IF "move" = "move" THEN p[x].at ELSE h)
  OBVIOUS
<1>12. p[x].in = d /\ v = p[x] /\ p \in [Rows -> Place] /\ f \in [Items -> Texts] /\ g = f[x]
  BY <1>1, <1>3, <1>4, <1>9, <1>11, PlaceIs DEF Moved
<1>13. p = Assigned(p, x, v)
  <2>1. p \in [Rows -> Place] /\ x \in Rows
    BY <1>1, <1>12
  <2>2. Assigned(p, x, p[x]) = p
    BY ONLY <2>1, AssignedSame
  <2> QED BY <1>12, <2>2
<1>14. f = Assigned(f, x, g)
  <2>1. f \in [Items -> Texts] /\ g = f[x]
    BY ONLY <1>12
  <2>2. Assigned(f, x, f[x]) = f
    BY ONLY <2>1, x \in Items, AssignedSame
  <2> QED BY ONLY <2>1, <2>2
<1>15. TakenOf(w) = Trip(r, p, f, {})
  <2>0. PICK o : o = {}
    OBVIOUS
  <2>1. w = Change("saved", "move", x, d, h, g, b, Trip(revision, p, f, o), r)
    BY <1>9, <1>10, <2>0
  <2>2. TakenOf(w) = Trip(r, p, f, o)
    BY ONLY <1>11, <1>12, <1>13, <1>14, <2>1, x \in Items, TakenIs
  <2> QED BY <2>0, <2>2
<1> QED BY <1>7, <1>9, <1>15

\* A removal: the page closed the gap as the repository does.
LEMMA ServeDelete ==
  ASSUME IInv, NEW x \in Items, NEW d \in Days, NEW k, place[x].in = d, DeleteItem(revision, x),
         NEW b, b = Trip(revision, place, text, {}), NEW a, a = Removing(b, d, x),
         NEW w, w = Change("saved", "delete", x, d, place'[x].at, text'[x], b, a, revision')
  PROVE  Grown /\ TakenOf(w) = Trip(revision', place', text', {})
<1>1. /\ place \in [Rows -> Place] /\ text \in [Items -> Texts] /\ x \in Rows /\ revision \in Nat
  BY DEF IInv, TypeOK, Rows
<1>2. IInv'
  BY DeleteItemSound
<1>3. /\ Advanced /\ UNCHANGED text /\ place'[x] = At("deleted", 0) /\ place[x].in \in Days
      /\ ClosedUp(place, place', place[x].in, x, place[x].at)
      /\ Kept(place, place', {x}, {place[x].in})
  BY DeleteItemPlaces
<1>4. place[x].in = d /\ d # "deleted"
  BY <1>3, RowsAssumption
<1>5. place' \in [Rows -> Place] /\ place'[x].in = "deleted"
  BY <1>2, <1>3 DEF IInv, TypeOK, At
<1>6. place' = WithoutItem(place, d, x)
  <2>1. Fitting(place) /\ Lists(place)
    BY BeginSound
  <2>2. ClosedUp(place, place', d, x, place[x].at) /\ Kept(place, place', {x}, {d})
    BY <1>3, <1>4
  <2> QED BY <1>1, <1>3, <1>4, <1>5, <2>1, <2>2, PageRemoves
<1>7. Grown
  BY <1>2, OperationGrows
<1>8. b \in Trips /\ b.rev = revision /\ b.place = place /\ b.text = text /\ b.missed = {}
  BY <1>1 DEF Trip, Trips
<1>9. PICK p, f, h, g, r : /\ p = place' /\ f = text'
                           /\ h = place'[x].at /\ g = text'[x] /\ r = revision'
  OBVIOUS
<1>10. a = Trip(revision, p, f, {})
  <2>1. x \in DayItems(b.place, d)
    BY <1>4, <1>8 DEF DayItems
  <2>2. Removing(b, d, x) = Trip(b.rev, WithoutItem(b.place, d, x), b.text, {})
    BY <1>8, <2>1, RemovingIs
  <2> QED BY <1>3, <1>6, <1>8, <1>9, <2>2
<1>11. p[x].in # d /\ p \in [Rows -> Place]
  BY <1>4, <1>5, <1>9
<1>12. PICK v, q, e : /\ v = At(d, IF "delete" = "move" THEN p[x].at ELSE h)
                      /\ q = Assigned(p, x, v) /\ e = Assigned(f, x, g)
  OBVIOUS
<1>13. TakenOf(w) = Trip(r, p, f, {})
  <2>1. w = Change("saved", "delete", x, d, h, g, b, Trip(revision, p, f, {}), r)
    BY <1>9, <1>10
  <2>2. MissedToo({}, b, x, d) = {}
    BY <1>4, <1>8 DEF DayItems, MissedToo
  <2>3. TakenOf(w) = Trip(r, p, f, MissedToo({}, b, x, d))
    BY <1>11, <1>12, <2>1, TakenIs
  <2> QED BY <2>2, <2>3
<1> QED BY <1>7, <1>9, <1>13

\* What a page is that carries revision r and misses something.
Lacking(t, r) == t \in Trips /\ t.rev = r /\ t.missed # {}
Unseen(a, b, x, d) == a.missed # {} \/ (a.place[x].in # d /\ x \notin DayItems(b.place, d))

\* An answer the page can take in for what it holds, but not for all of it: the
\* change is of an item it did not have there, or the page missed one before.
LEMMA ServePartly ==
  ASSUME NEW op, NEW x \in Items, NEW d \in Days, NEW k \in Nat, NEW c \in Texts,
         NEW b \in Trips, NEW a \in Trips, NEW r \in Nat,
         Unseen(a, b, x, d), NEW w, w = Change("saved", op, x, d, k, c, b, a, r)
  PROVE  Lacking(TakenOf(w), r)
<1>1. PICK r0, p, e, v : a = Trip(r0, p, e, v) /\ p = a.place /\ e = a.text /\ v = a.missed
  BY TripIs
<1>2. p \in [Rows -> Place] /\ e \in [Items -> Texts] /\ v \subseteq Items /\ x \in Rows
  BY <1>1, TripIs DEF Rows
<1>3. PICK y, q, f : /\ y = At(d, IF op = "move" THEN p[x].at ELSE k)
                     /\ q = Assigned(p, x, y) /\ f = Assigned(e, x, c)
  OBVIOUS
<1>4. y \in Place /\ p[x].at \in Nat
  <2>1. p[x].at \in Nat
    BY <1>2, PlaceIs
  <2> QED BY <1>3, <2>1, PlaceOf, Kinds
<1>5. q \in [Rows -> Place] /\ f \in [Items -> Texts]
  BY <1>2, <1>3, <1>4, AssignedIs
<1>6. w = Change("saved", op, x, d, k, c, b, Trip(r0, p, e, v), r)
  BY <1>1
<1>7. /\ p[x].in = d => TakenOf(w) = Trip(r, q, f, v)
      /\ p[x].in # d => TakenOf(w) = Trip(r, p, e, MissedToo(v, b, x, d))
  BY <1>2, <1>3, <1>6, TakenIs
<1>8. v # {} \/ (p[x].in # d /\ x \notin DayItems(b.place, d))
  BY <1>1 DEF Unseen
<1>9. PICK u : /\ u \subseteq Items /\ u # {}
               /\ TakenOf(w) = Trip(r, q, f, u) \/ TakenOf(w) = Trip(r, p, e, u)
  <2>1. CASE p[x].in = d
    BY <1>2, <1>7, <1>8, <2>1
  <2>2. CASE p[x].in # d
    <3>1. PICK u : u = MissedToo(v, b, x, d)
      OBVIOUS
    <3>2. u \subseteq Items /\ u # {}
      BY <1>2, <1>8, <3>1 DEF MissedToo
    <3> QED BY <1>7, <2>2, <3>1, <3>2
  <2> QED BY <2>1, <2>2
<1> QED BY <1>2, <1>5, <1>9 DEF Trip, Trips, Lacking

-----------------------------------------------------------------------------
(* The steps of the page and of the API keep what a page knows.            *)

\* What a change in flight is, stage by stage.
LEMMA CallIs ==
  ASSUME CallOk
  PROVE  /\ call.stage = "none" <=> call = NoCall
         /\ call.stage = "reload" => call = [stage |-> "reload"]
         /\ call.stage = "reloaded" => call = [stage |-> "reloaded", trip |-> call.trip]
                                       /\ Faithful(call.trip)
         /\ call.stage = "sent" =>
              \E op, x, d, k, c, b, a :
                call = Change("sent", op, x, d, k, c, b, a, 0) /\ Asked(op, x, d, k, c, b, a)
         /\ call.stage = "saved" =>
              \E op, x, d, k, c, b, a, r :
                call = Change("saved", op, x, d, k, c, b, a, r) /\ Faithful(b) /\ Faithful(Taken)
         /\ call.stage = "failed" =>
              \E op, x, d, k, c, b, a, r :
                call = Change("failed", op, x, d, k, c, b, a, r) /\ Faithful(b)
<1>1. CASE call = NoCall
  BY <1>1 DEF NoCall
<1>2. CASE call = [stage |-> "reload"]
  BY <1>2 DEF NoCall
<1>3. CASE \E t : call = [stage |-> "reloaded", trip |-> t] /\ Faithful(t)
  BY <1>3 DEF NoCall
<1>4. CASE \E op, x, d, k, c, b, a :
             call = Change("sent", op, x, d, k, c, b, a, 0) /\ Asked(op, x, d, k, c, b, a)
  <2>1. call.stage = "sent" /\ call # NoCall
    BY <1>4 DEF Change, NoCall
  <2> QED BY <1>4, <2>1
<1>5. CASE \E op, x, d, k, c, b, a, r :
             call = Change("saved", op, x, d, k, c, b, a, r) /\ Faithful(b) /\ Faithful(Taken)
  <2>1. call.stage = "saved" /\ call # NoCall
    BY <1>5 DEF Change, NoCall
  <2> QED BY <1>5, <2>1
<1>6. CASE \E op, x, d, k, c, b, a, r :
             call = Change("failed", op, x, d, k, c, b, a, r) /\ Faithful(b)
  <2>1. call.stage = "failed" /\ call # NoCall
    BY <1>6 DEF Change, NoCall
  <2> QED BY <1>6, <2>1
<1> QED BY <1>1, <1>2, <1>3, <1>4, <1>5, <1>6 DEF CallOk

\* The page before a change.
LEMMA BeforeIs ==
  ASSUME CallOk, call.stage \in {"sent", "saved", "failed"}
  PROVE  Faithful(call.before) /\ call # NoCall
<1>1. CASE call.stage = "sent"
  BY <1>1, CallIs DEF Change, Asked, NoCall
<1>2. CASE call.stage = "saved"
  BY <1>2, CallIs DEF Change, NoCall
<1>3. CASE call.stage = "failed"
  BY <1>3, CallIs DEF Change, NoCall
<1> QED BY <1>1, <1>2, <1>3

\* A state faithful to the trip is so after the next step, if it stays.
LEMMA FaithfulStays ==
  ASSUME Onward
  PROVE  /\ Faithful(view) /\ UNCHANGED view => Faithful(view)'
         /\ Faithful(loading.trip) /\ UNCHANGED loading => Faithful(loading.trip)'
         /\ Faithful(Taken) /\ UNCHANGED call => Faithful(Taken)'
<1>1. ASSUME Faithful(view), UNCHANGED view PROVE Faithful(view)'
  BY <1>1, ShowsStays DEF Faithful
<1>2. ASSUME Faithful(loading.trip), UNCHANGED loading PROVE Faithful(loading.trip)'
  <2>1. PICK t : t = loading.trip
    OBVIOUS
  <2>2. Shows(t, exists', revision', place', text')
    BY <1>2, <2>1, ShowsStays
  <2> QED BY <1>2, <2>1, <2>2 DEF Faithful
<1>3. ASSUME Faithful(Taken), UNCHANGED call PROVE Faithful(Taken)'
  <2>1. PICK t : t = Taken
    OBVIOUS
  <2>2. Shows(t, exists', revision', place', text')
    BY <1>3, <2>1, ShowsStays
  <2>3. Taken' = Taken
    BY <1>3 DEF Taken
  <2> QED BY <2>1, <2>2, <2>3 DEF Faithful
<1> QED BY <1>1, <1>2, <1>3

\* What was asked for stays possible.
LEMMA AskedStays ==
  ASSUME Onward, NEW op, NEW x, NEW d, NEW k, NEW c, NEW b, NEW a, Asked(op, x, d, k, c, b, a)
  PROVE  Asked(op, x, d, k, c, b, a)'
<1>1. x \in Items /\ d \in Days /\ k \in Nat /\ Faithful(b)
  BY DEF Asked
<1>2. Faithful(b)'
  BY <1>1, ShowsStays DEF Faithful
<1> QED BY <1>1, <1>2 DEF Asked

\* The parts of the page that a step leaves alone.
LEMMA PartsStay ==
  ASSUME PageInv, Onward
  PROVE  /\ IInv'
         /\ UNCHANGED loading => LoadOk'
         /\ UNCHANGED editor => EditorOk'
         /\ UNCHANGED call => CallOk'
         /\ UNCHANGED <<view, call, editor>> /\ (shown' = shown \/ shown' # "ready") => ViewOk'
<1>1. IInv'
  BY Unchanged DEF Onward, Grown
<1>2. ASSUME UNCHANGED loading PROVE LoadOk'
  BY <1>2, FaithfulStays DEF PageInv, LoadOk, NoLoad, NoTrip
<1>3. ASSUME UNCHANGED editor PROVE EditorOk'
  <2>1. CASE editor = NoEditor
    BY <1>3, <2>1 DEF EditorOk, NoEditor
  <2>2. CASE \E d \in Days : editor = [mode |-> "add", day |-> d]
    BY <1>3, <2>2 DEF EditorOk
  <2>3. CASE \E m \in {"duplicate", "edit", "remove"}, d \in Days, x \in Items, k \in Nat :
               editor = [mode |-> m, day |-> d, item |-> x, at |-> k]
    BY <1>3, <2>3 DEF EditorOk
  <2> QED BY <2>1, <2>2, <2>3 DEF PageInv, EditorOk
<1>4. ASSUME UNCHANGED call PROVE CallOk'
  <2>1. CASE call = NoCall \/ call = [stage |-> "reload"]
    BY <1>4, <2>1 DEF CallOk, NoCall
  <2>2. CASE \E t : call = [stage |-> "reloaded", trip |-> t] /\ Faithful(t)
    <3>1. PICK t : call = [stage |-> "reloaded", trip |-> t] /\ Faithful(t)
      BY <2>2
    <3>2. Faithful(t)'
      BY <3>1, ShowsStays DEF Faithful
    <3> QED BY <1>4, <3>1, <3>2 DEF CallOk
  <2>3. CASE \E op, x, d, k, c, b, a :
               call = Change("sent", op, x, d, k, c, b, a, 0) /\ Asked(op, x, d, k, c, b, a)
    <3>1. PICK op, x, d, k, c, b, a :
            call = Change("sent", op, x, d, k, c, b, a, 0) /\ Asked(op, x, d, k, c, b, a)
      BY <2>3
    <3>2. Asked(op, x, d, k, c, b, a)'
      BY <3>1, AskedStays
    <3>3. call' = Change("sent", op, x, d, k, c, b, a, 0)
      BY <1>4, <3>1
    <3> QED BY <3>2, <3>3 DEF CallOk, Change
  <2>4. CASE \E op, x, d, k, c, b, a, r :
               call = Change("saved", op, x, d, k, c, b, a, r) /\ Faithful(b) /\ Faithful(Taken)
    <3>1. PICK op, x, d, k, c, b, a, r :
            call = Change("saved", op, x, d, k, c, b, a, r) /\ Faithful(b) /\ Faithful(Taken)
      BY <2>4
    <3>2. Faithful(b)' /\ Faithful(Taken)'
      BY <1>4, <3>1, ShowsStays, FaithfulStays DEF Faithful
    <3>3. call' = Change("saved", op, x, d, k, c, b, a, r)
      BY <1>4, <3>1
    <3> QED BY <3>2, <3>3 DEF CallOk, Change
  <2>5. CASE \E op, x, d, k, c, b, a, r :
               call = Change("failed", op, x, d, k, c, b, a, r) /\ Faithful(b)
    <3>1. PICK op, x, d, k, c, b, a, r :
            call = Change("failed", op, x, d, k, c, b, a, r) /\ Faithful(b)
      BY <2>5
    <3>2. Faithful(b)'
      BY <3>1, ShowsStays DEF Faithful
    <3>3. call' = Change("failed", op, x, d, k, c, b, a, r)
      BY <1>4, <3>1
    <3> QED BY <3>2, <3>3 DEF CallOk, Change
  <2> QED BY <2>1, <2>2, <2>3, <2>4, <2>5 DEF PageInv, CallOk
<1>5. ASSUME UNCHANGED <<view, call, editor>>, shown' = shown \/ shown' # "ready" PROVE ViewOk'
  BY <1>5, FaithfulStays DEF PageInv, ViewOk, NoTrip, NoEditor, NoCall
<1> QED BY <1>1, <1>2, <1>3, <1>4, <1>5

\* The operation asked for makes a new revision.
LEMMA ApplyGrows ==
  ASSUME IInv, call.stage = "sent", NEW op, NEW x, NEW d, NEW k, NEW c, NEW b, NEW a,
         call = Change("sent", op, x, d, k, c, b, a, 0), Asked(op, x, d, k, c, b, a),
         Apply(revision, x)
  PROVE  Grown
<1>1. call.op = op /\ call.day = d /\ call.at = k /\ call.text = c
  BY DEF Change
<1>2. x \in Items /\ d \in Days /\ k \in Nat /\ x \in Rows
  BY DEF Asked, Rows
<1>3. place[x].at \in Nat /\ text[x] \in Texts
  <2>1. place \in [Rows -> Place] /\ text \in [Items -> Texts]
    BY DEF IInv, TypeOK
  <2> QED BY <1>2, <2>1, PlaceIs
<1>4. CASE op = "create"
  <2>1. c \in Texts /\ CreateItem(revision, x, d, k, c)
    BY <1>1, <1>4 DEF Asked, Apply
  <2> QED BY <1>2, <2>1, CreateItemSound, OperationGrows
<1>5. CASE op = "update"
  <2>1. /\ c \in Texts /\ UpdateItem(revision, x, place[x].in, place[x].at, c)
        /\ place[x].in \in Days
    BY <1>1, <1>5 DEF Asked, Apply, UpdateItem
  <2> QED BY <1>2, <1>3, <2>1, UpdateItemSound, OperationGrows
<1>6. CASE op = "delete"
  <2>1. DeleteItem(revision, x)
    BY <1>1, <1>6 DEF Apply
  <2> QED BY <1>2, <2>1, DeleteItemSound, OperationGrows
<1>7. CASE op = "move"
  <2>1. UpdateItem(revision, x, place[x].in, k, text[x]) /\ place[x].in \in Days
    BY <1>1, <1>7 DEF Apply, UpdateItem
  <2> QED BY <1>2, <1>3, <2>1, UpdateItemSound, OperationGrows
<1> QED BY <1>4, <1>5, <1>6, <1>7 DEF Asked

\* The answer to a change: the repository had the rows the page saw, and the page
\* that takes the answer shows the rows as they are now, or misses something.
LEMMA ServeKeeps ==
  ASSUME PageInv, Serve
  PROVE  /\ call.before.missed = {} => call.before.place = place /\ call.before.text = text
         /\ PageInv'
<1>0. IInv /\ CallOk /\ call.stage = "sent"
  BY DEF PageInv, Serve
<1>1. PICK op, x, d, k, c, b, a :
        call = Change("sent", op, x, d, k, c, b, a, 0) /\ Asked(op, x, d, k, c, b, a)
  BY <1>0, CallIs
<1>2. /\ call.op = op /\ call.item = x /\ call.day = d /\ call.at = k /\ call.text = c
      /\ call.before = b
  BY <1>1 DEF Change
<1>3. /\ x \in Items /\ d \in Days /\ k \in Nat /\ Faithful(b)
  BY <1>1 DEF Asked
<1>4. Fits /\ Apply(b.rev, x)
  BY <1>2 DEF Serve
<1>5. exists /\ b.rev = revision
  <2>1. exists
    BY <1>4 DEF Fits
  <2>2. Locked(b.rev)
    BY <1>4 DEF Apply, CreateItem, UpdateItem, DeleteItem
  <2> QED BY <2>1, <2>2 DEF Locked
<1>6. b.missed = {} => /\ b = Trip(revision, place, text, {})
                         /\ b.place = place /\ b.text = text
  BY <1>3, <1>5, ShowsNow
<1>7. PICK w : w = Change("saved", op, x, d, place'[x].at, text'[x], b, a, revision')
  OBVIOUS
<1>8. call' = w
  <2>1. call' = [call EXCEPT !.stage = "saved", !.rev = revision',
                             !.at = place'[x].at, !.text = text'[x]]
    BY <1>2 DEF Serve
  <2>2. PICK v, r, m, e : v = call /\ r = revision' /\ m = place'[x].at /\ e = text'[x]
    OBVIOUS
  <2>3. v = Change("sent", op, x, d, k, c, b, a, 0)
    BY <1>1, <2>2
  <2>4. Served(v, r, m, e) = Change("saved", op, x, d, m, e, b, a, r)
    BY ONLY <2>3, ServedIs
  <2>5. call' = Served(v, r, m, e)
    BY <2>1, <2>2, Zenon DEF Served
  <2> QED BY <1>7, <2>2, <2>4, <2>5
<1>9. Grown
  BY <1>0, <1>1, <1>4, <1>5, ApplyGrows
<1>10. Onward
  BY <1>0, <1>9 DEF Onward
<1>a. /\ IInv' /\ revision' \in Nat /\ place' \in [Rows -> Place] /\ text' \in [Items -> Texts]
      /\ place'[x].at \in Nat /\ text'[x] \in Texts /\ b \in Trips /\ b.missed \subseteq Items
  <2>1. IInv' /\ revision' \in Nat /\ place' \in [Rows -> Place] /\ text' \in [Items -> Texts]
    BY <1>9 DEF Grown, IInv, TypeOK
  <2>2. x \in Rows /\ b \in Trips
    BY <1>3 DEF Faithful, Shows, Rows
  <2>3. place'[x].at \in Nat
    BY <2>1, <2>2, PlaceIs
  <2> QED BY <1>3, <2>1, <2>2, <2>3, TripIs
<1>b. PICK t : t = TakenOf(w)
  OBVIOUS
<1>c. Shows(t, exists', revision', place', text')
  <2>1. ASSUME t = Trip(revision', place', text', {})
        PROVE  Shows(t, exists', revision', place', text')
    <3>1. t \in Trips /\ t.rev = revision' /\ t.place = place' /\ t.text = text'
      BY <1>a, <2>1 DEF Trip, Trips
    <3> QED BY <1>a, <3>1 DEF Shows
  <2>2. ASSUME b.missed # {} \/ (op \in {"update", "delete"} /\ b.place[x].in # d)
        PROVE  Shows(t, exists', revision', place', text')
    <3>1. a \in Trips /\ a.missed = b.missed
      BY <1>1, ChangeIs
    <3>2. Unseen(a, b, x, d)
      <4>1. CASE b.missed # {}
        BY <3>1, <4>1 DEF Unseen
      <4>2. CASE op \in {"update", "delete"} /\ b.place[x].in # d
        <5>1. x \notin DayItems(b.place, d)
          BY <4>2 DEF DayItems
        <5>2. a = b
          BY <1>1, <4>2, <5>1 DEF Asked, Editing, Removing
        <5> QED BY <4>2, <5>1, <5>2 DEF Unseen
      <4> QED BY <2>2, <4>1, <4>2
    <3>3. PICK k1 \in Nat, c1 \in Texts, r1 \in Nat :
            k1 = place'[x].at /\ c1 = text'[x] /\ r1 = revision'
      BY <1>a
    <3>4. w = Change("saved", op, x, d, k1, c1, b, a, r1)
      BY <1>7, <3>3
    <3>5. Lacking(t, r1)
      <4>1. x \in Items /\ d \in Days /\ b \in Trips
        BY <1>3, <1>a
      <4>2. a \in Trips
        BY <3>1
      <4> QED BY ONLY <4>1, <4>2, <1>b, <3>2, <3>4, k1 \in Nat, c1 \in Texts, r1 \in Nat,
                      ServePartly
    <3> QED BY <1>a, <3>3, <3>5 DEF Shows, Lacking
  <2>3. CASE b.missed = {} /\ ~(op \in {"update", "delete"} /\ b.place[x].in # d)
    <3>1. CASE op = "create"
      <4>1. c \in Texts /\ a = Adding(b, d, x, k, c) /\ CreateItem(revision, x, d, k, c)
        BY <1>1, <1>2, <1>4, <1>5, <3>1 DEF Asked, Apply
      <4>2. TakenOf(w) = Trip(revision', place', text', {})
        BY <1>0, <1>3, <1>6, <1>7, <2>3, <3>1, <4>1, ServeCreate
      <4> QED BY <1>b, <2>1, <4>2
    <3>2. CASE op = "update"
      <4>1. /\ c \in Texts /\ place[x].in = d /\ a = Editing(b, d, x, k, c)
            /\ UpdateItem(revision, x, place[x].in, place[x].at, c)
        BY <1>1, <1>2, <1>4, <1>5, <1>6, <2>3, <3>2 DEF Asked, Apply
      <4>2. TakenOf(w) = Trip(revision', place', text', {})
        BY <1>0, <1>3, <1>6, <1>7, <2>3, <3>2, <4>1, ServeUpdate
      <4> QED BY <1>b, <2>1, <4>2
    <3>3. CASE op = "delete"
      <4>1. place[x].in = d /\ a = Removing(b, d, x) /\ DeleteItem(revision, x)
        BY <1>1, <1>2, <1>4, <1>5, <1>6, <2>3, <3>3 DEF Asked, Apply
      <4>2. TakenOf(w) = Trip(revision', place', text', {})
        BY <1>0, <1>3, <1>6, <1>7, <2>3, <3>3, <4>1, ServeDelete
      <4> QED BY <1>b, <2>1, <4>2
    <3>4. CASE op = "move"
      <4>1. /\ place[x].in = d /\ a = Moving(b, d, x, k)
            /\ UpdateItem(revision, x, place[x].in, k, text[x])
        BY <1>1, <1>2, <1>4, <1>5, <1>6, <2>3, <3>4 DEF Asked, Apply
      <4>2. UpdateItem(revision, x, d, k, text[x])
        BY <4>1
      <4>3. TakenOf(w) = Trip(revision', place', text', {})
        BY <1>0, <1>3, <1>6, <1>7, <2>3, <3>4, <4>1, <4>2, ServeMove
      <4> QED BY <1>b, <2>1, <4>3
    <3> QED BY <1>1, <3>1, <3>2, <3>3, <3>4 DEF Asked
  <2> QED BY <1>a, <2>2, <2>3
<1>11. Faithful(Taken)' /\ Faithful(b)'
  <2>1. Taken' = TakenOf(call')
    BY DEF Taken, TakenOf
  <2>2. Taken' = t
    BY <1>8, <1>b, <2>1
  <2> QED BY <1>3, <1>10, <1>c, <2>2, ShowsStays DEF Faithful
<1>12. CallOk'
  BY <1>7, <1>8, <1>11 DEF CallOk, Change
<1>13. ViewOk'
  <2>1. call # NoCall /\ call'.stage = "saved"
    BY <1>0, <1>7, <1>8, BeforeIs DEF Change
  <2>2. view # NoTrip /\ view' = view
    BY <2>1 DEF PageInv, ViewOk, Serve
  <2>3. NoTrip' = NoTrip
    BY DEF NoTrip
  <2> QED BY <2>1, <2>2, <2>3 DEF ViewOk
<1>14. LoadOk' /\ EditorOk' /\ IInv'
  BY <1>10, PartsStay DEF Serve
<1> QED BY <1>2, <1>6, <1>12, <1>13, <1>14 DEF PageInv

\* Another client's operation leaves the page alone.
LEMMA ElsewhereKeeps ==
  ASSUME PageInv, Elsewhere
  PROVE  PageInv'
<1>1. Onward
  BY ElsewhereGrows DEF Onward, PageInv
<1>2. UNCHANGED <<shown, view, loading, editor, call>>
  BY DEF Elsewhere, page
<1> QED BY <1>1, <1>2, PartsStay DEF PageInv

\* A load of the trip keeps the invariant, from the request to its end.
LEMMA LoadKeeps ==
  ASSUME PageInv, Load \/ Loaded \/ LoadFails
  PROVE  PageInv'
<1>1. Onward /\ IInv
  BY DEF Onward, PageInv, Load, Loaded, LoadFails
<1>2. CASE Load
  <2>1. UNCHANGED <<view, editor, call>> /\ (shown' = shown \/ shown' # "ready")
    BY <1>2 DEF Load
  <2>2. LoadOk'
    <3>1. UNCHANGED saved /\ loading'.trip = IF exists THEN Snapshot ELSE NoTrip
      BY <1>2 DEF Load
    <3>2. Snapshot = Trip(revision, place, text, {})
      BY DEF Snapshot, Trip
    <3>3. CASE exists
      <4>1. Faithful(Trip(revision, place, text, {}))
        BY <1>1, NowShows
      <4>2. Faithful(loading'.trip)
        BY <3>1, <3>2, <3>3, <4>1
      <4>3. Faithful(loading.trip)'
        BY <3>1, <4>2 DEF Faithful, Shows, saved
      <4> QED BY <4>3 DEF LoadOk
    <3>4. CASE ~exists
      BY <3>1, <3>4 DEF LoadOk, NoTrip
    <3> QED BY <3>3, <3>4
  <2> QED BY <1>1, <2>1, <2>2, PartsStay DEF PageInv
<1>3. CASE Loaded
  <2>1. UNCHANGED <<saved, editor, call>> /\ view' = loading.trip /\ loading' = NoLoad
    BY <1>3 DEF Loaded
  <2>2. Faithful(loading.trip)
    BY <1>3 DEF Loaded, PageInv, LoadOk
  <2>3. Faithful(view)' /\ view' # NoTrip
    <3>1. view' # NoTrip
      BY <1>3, <2>1 DEF Loaded
    <3> QED BY <2>1, <2>2, <3>1 DEF Faithful, Shows, saved
  <2>4. LoadOk' /\ ViewOk'
    BY <2>1, <2>3 DEF LoadOk, ViewOk, NoLoad, NoTrip
  <2> QED BY <1>1, <2>1, <2>4, PartsStay DEF PageInv
<1>4. CASE LoadFails
  <2>1. UNCHANGED <<view, editor, call>> /\ loading' = NoLoad
    BY <1>4 DEF LoadFails
  <2>2. shown' = shown \/ shown' # "ready"
    BY <1>4 DEF LoadFails
  <2>3. LoadOk'
    BY <2>1 DEF LoadOk, NoLoad
  <2> QED BY <1>1, <2>1, <2>2, <2>3, PartsStay DEF PageInv
<1> QED BY <1>2, <1>3, <1>4

\* An editor that opens shows an item where it is.
LEMMA EditorKeeps ==
  ASSUME PageInv, OpenEditor \/ CloseEditor
  PROVE  PageInv'
<1>1. Onward /\ UNCHANGED <<saved, shown, view, loading, call>> /\ call = NoCall
  BY DEF Onward, PageInv, OpenEditor, CloseEditor
<1>2. EditorOk' /\ (view = NoTrip => editor' = NoEditor)
  <2>1. CASE OpenEditor
    <3>1. PICK m \in {"add", "duplicate", "edit", "remove"}, d \in Days :
            /\ shown = "ready" /\ d \in ShownDays
            /\ IF m = "add"
               THEN editor' = [mode |-> "add", day |-> d]
               ELSE \E x \in DayItems(view.place, d) :
                      editor' = [mode |-> m, day |-> d, item |-> x, at |-> view.place[x].at]
      BY <2>1 DEF OpenEditor
    <3>2. view # NoTrip /\ Faithful(view)
      BY <1>1, <3>1 DEF PageInv, ViewOk, NoCall
    <3>3. CASE m = "add"
      BY <3>1, <3>2, <3>3 DEF EditorOk
    <3>4. CASE m # "add"
      <4>1. PICK x \in DayItems(view.place, d) :
              editor' = [mode |-> m, day |-> d, item |-> x, at |-> view.place[x].at]
        BY <3>1, <3>4
      <4>2. PICK k : k = view.place[x].at
        OBVIOUS
      <4>3. x \in Items /\ k \in Nat /\ view.place[x].in = d
        <5>1. x \in Items /\ x \in Rows /\ view.place[x].in = d
          BY DEF DayItems, Rows
        <5>2. view.place \in [Rows -> Place]
          BY <3>2, TripIs DEF Faithful, Shows
        <5> QED BY <4>2, <5>1, <5>2, PlaceIs
      <4>6. editor' = [mode |-> m, day |-> d, item |-> x, at |-> k]
            /\ m \in {"duplicate", "edit", "remove"}
        BY <3>1, <3>4, <4>1, <4>2
      <4>7. \E n \in {"duplicate", "edit", "remove"}, e \in Days, y \in Items, j \in Nat :
              editor' = [mode |-> n, day |-> e, item |-> y, at |-> j]
        BY <4>3, <4>6
      <4>8. EditorOk'
        BY <4>7 DEF EditorOk
      <4> QED BY <3>2, <4>8
    <3> QED BY <3>3, <3>4
  <2>2. CASE CloseEditor
    BY <2>2 DEF CloseEditor, EditorOk, NoEditor
  <2> QED BY <2>1, <2>2
<1>3. ViewOk'
  BY <1>1, <1>2, FaithfulStays DEF PageInv, ViewOk, NoTrip, NoCall, NoEditor
<1> QED BY <1>1, <1>2, <1>3, PartsStay DEF PageInv

\* A change that the page shows and sends is one of those it makes.
LEMMA SubmitKeeps ==
  ASSUME PageInv, NEW op, NEW x, NEW d, NEW k, NEW c, NEW a,
         Submit(op, x, d, k, c, a), Asked(op, x, d, k, c, view, a)
  PROVE  PageInv'
<1>1. /\ Onward /\ UNCHANGED <<loading, editor>>
      /\ view' = a /\ call' = Change("sent", op, x, d, k, c, view, a, 0)
  BY DEF Onward, PageInv, Submit, Change
<1>2. PICK b : b = view
  OBVIOUS
<1>3. Asked(op, x, d, k, c, b, a)
  BY <1>2
<1>4. Asked(op, x, d, k, c, b, a)'
  BY <1>1, <1>3, AskedStays
<1>5. call' = Change("sent", op, x, d, k, c, b, a, 0)
  BY <1>1, <1>2
<1>6. CallOk'
  BY <1>4, <1>5 DEF CallOk, Change
<1>7. ViewOk'
  <2>1. a # NoTrip
    BY <1>3, ChangeIs, TripIs
  <2>2. call'.stage = "sent" /\ view' # NoTrip
    BY <1>1, <2>1 DEF Change
  <2>3. NoTrip' = NoTrip
    BY DEF NoTrip
  <2> QED BY <2>2, <2>3 DEF ViewOk
<1> QED BY <1>1, <1>6, <1>7, PartsStay DEF PageInv

\* The editor of an item, when it is open.
LEMMA EditorIs ==
  ASSUME EditorOk, editor # NoEditor
  PROVE  /\ editor.day \in Days
         /\ editor.mode # "add" => editor.item \in Items /\ editor.at \in Nat
<1>1. CASE \E d \in Days : editor = [mode |-> "add", day |-> d]
  BY <1>1
<1>2. CASE \E m \in {"duplicate", "edit", "remove"}, d \in Days, x \in Items, k \in Nat :
             editor = [mode |-> m, day |-> d, item |-> x, at |-> k]
  BY <1>2
<1> QED BY <1>1, <1>2 DEF EditorOk

\* The changes a page makes are of the trip it shows.
LEMMA ChangesKeep ==
  ASSUME PageInv, SubmitAdd \/ SubmitEdit \/ ConfirmRemove \/ MoveItem
  PROVE  PageInv'
<1>1. call = NoCall
  <2>1. SubmitAdd => call = NoCall
    BY ZenonT(40) DEF SubmitAdd, Submit
  <2>2. SubmitEdit \/ ConfirmRemove => call = NoCall
    BY ZenonT(40) DEF SubmitEdit, ConfirmRemove, Submit
  <2>3. MoveItem => call = NoCall
    BY DEF MoveItem, Submit
  <2> QED BY <2>1, <2>2, <2>3
<1>2. view # NoTrip => Faithful(view)
  BY <1>1 DEF PageInv, ViewOk, NoCall
<1>3. \A p, d : Cardinality(DayItems(p, d)) \in Nat
  <2>1. \A p, d : DayItems(p, d) \subseteq Rows
    BY DEF DayItems, Rows
  <2>2. \A p, d : IsFiniteSet(DayItems(p, d))
    BY <2>1, RowsAssumption, FS_Subset
  <2> QED BY <2>2, FS_CardinalityType
<1>4. editor # NoEditor => Faithful(view)
  BY <1>2 DEF PageInv, ViewOk
<1>5. EditorOk
  BY DEF PageInv
<1>6. CASE SubmitAdd
  <2>1. PICK x \in Items, d \in Days, c \in Drafts :
          /\ editor.mode \in {"add", "duplicate"}
          /\ place[x].in = "unsaved" /\ view.place[x].in = "unsaved"
          /\ LET total == Cardinality(DayItems(view.place, d))
                 k == IF editor.mode = "add" THEN total ELSE editor.at + 1
                 clamped == IF k < total THEN k ELSE total
             IN Submit("create", x, d, k, c,
                  [view EXCEPT !.place = OrderedWithMove(@, d, x, clamped), !.text[x] = c])
    BY <1>6 DEF SubmitAdd
  <2>2. editor # NoEditor
    BY <2>1 DEF NoEditor
  <2>3. PICK n, k : /\ n = Cardinality(DayItems(view.place, d))
                    /\ k = IF editor.mode = "add" THEN n ELSE editor.at + 1
    OBVIOUS
  <2>4. k \in Nat /\ c \in Texts
    BY <1>3, <1>5, <2>1, <2>2, <2>3, EditorIs DEF Drafts
  <2>5. PICK a : a = Adding(view, d, x, k, c)
    OBVIOUS
  <2>6. Submit("create", x, d, k, c, a)
    BY <2>1, <2>3, <2>5, Zenon DEF Adding
  <2>7. Asked("create", x, d, k, c, view, a)
    BY <1>4, <2>1, <2>2, <2>4, <2>5 DEF Asked
  <2> QED BY <2>6, <2>7, SubmitKeeps
<1>7. CASE SubmitEdit
  <2>1. PICK c \in Drafts :
          /\ editor.mode = "edit"
          /\ LET x == editor.item
             IN Submit("update", x, editor.day, editor.at, c,
                  IF x \in DayItems(view.place, editor.day)
                  THEN [view EXCEPT !.text[x] = c, !.place[x] = At(editor.day, editor.at)]
                    ELSE view)
    BY <1>7 DEF SubmitEdit
  <2>2. editor # NoEditor
    BY <2>1 DEF NoEditor
  <2>3. PICK d, x, k : d = editor.day /\ x = editor.item /\ k = editor.at
    OBVIOUS
  <2>4. d \in Days /\ x \in Items /\ k \in Nat /\ c \in Texts
    BY <1>5, <2>1, <2>2, <2>3, EditorIs DEF Drafts
  <2>5. PICK a : a = Editing(view, d, x, k, c)
    OBVIOUS
  <2>6. Submit("update", x, d, k, c, a)
    BY <2>1, <2>3, <2>5, Zenon DEF Editing
  <2>7. Asked("update", x, d, k, c, view, a)
    BY <1>4, <2>2, <2>4, <2>5 DEF Asked
  <2> QED BY <2>6, <2>7, SubmitKeeps
<1>8. CASE ConfirmRemove
  <2>1. /\ editor.mode = "remove"
        /\ LET x == editor.item
           IN Submit("delete", x, editor.day, 0, "kept",
                IF x \in DayItems(view.place, editor.day)
                THEN [view EXCEPT !.place = WithoutItem(@, editor.day, x)] ELSE view)
    BY <1>8 DEF ConfirmRemove
  <2>2. editor # NoEditor
    BY <2>1 DEF NoEditor
  <2>3. PICK d, x : d = editor.day /\ x = editor.item
    OBVIOUS
  <2>4. d \in Days /\ x \in Items /\ 0 \in Nat
    BY <1>5, <2>1, <2>2, <2>3, EditorIs
  <2>5. PICK a : a = Removing(view, d, x)
    OBVIOUS
  <2>6. Submit("delete", x, d, 0, "kept", a)
    BY <2>1, <2>3, <2>5, Zenon DEF Removing
  <2>7. Asked("delete", x, d, 0, "kept", view, a)
    BY <1>4, <2>2, <2>4, <2>5 DEF Asked
  <2> QED BY <2>6, <2>7, SubmitKeeps
<1>9. CASE MoveItem
  <2>1. PICK x \in Items, k \in 0 .. Cardinality(Items) :
          /\ shown = "ready" /\ view.place[x].in \in ShownDays
          /\ Submit("move", x, view.place[x].in, k, "kept",
               [view EXCEPT !.place = OrderedWithMove(@, view.place[x].in, x, k)])
    BY <1>9 DEF MoveItem
  <2>2. Faithful(view)
    BY <1>2, <2>1 DEF PageInv, ViewOk
  <2>3. PICK d : d = view.place[x].in
    OBVIOUS
  <2>4. d \in Days /\ k \in Nat
    <3>1. Cardinality(Items) \in Nat
      BY RowsAssumption, FS_Subset, FS_CardinalityType DEF Rows
    <3> QED BY <2>1, <2>3, <3>1 DEF ShownDays
  <2>5. PICK a : a = Moving(view, d, x, k)
    OBVIOUS
  <2>6. Submit("move", x, d, k, "kept", a)
    BY <2>1, <2>3, <2>5, Zenon DEF Moving
  <2>7. Asked("move", x, d, k, "kept", view, a)
    BY <2>2, <2>3, <2>4, <2>5 DEF Asked
  <2> QED BY <2>6, <2>7, SubmitKeeps
<1> QED BY <1>6, <1>7, <1>8, <1>9

\* A page that takes up a state the trip had.
LEMMA ViewTakes ==
  ASSUME Onward, NEW t, Faithful(t), view' = t
  PROVE  ViewOk'
<1>1. Faithful(view)'
  BY ShowsStays DEF Faithful
<1>2. view' # NoTrip
  BY TripIs DEF Faithful, Shows
<1> QED BY <1>1, <1>2 DEF ViewOk, NoTrip

\* A change whose answer is lost, or is no, keeps the page to go back to.
LEMMA FailKeeps ==
  ASSUME PageInv, Fail \/ Lose
  PROVE  PageInv' /\ call'.stage = "failed"
<1>1. /\ Onward /\ UNCHANGED <<loading, editor, view>> /\ call.stage \in {"sent", "saved"}
      /\ call' = [call EXCEPT !.stage = "failed"] /\ CallOk
  BY DEF Onward, PageInv, Fail, Lose
<1>2. PICK op, x, d, k, c, b, a, s, r : call = Change(s, op, x, d, k, c, b, a, r) /\ Faithful(b)
  BY <1>1, CallIs DEF Asked
<1>3. call' = Change("failed", op, x, d, k, c, b, a, r)
  BY <1>1, <1>2 DEF Change
<1>4. Faithful(b)'
  BY <1>1, <1>2, ShowsStays DEF Faithful
<1>5. CallOk'
  BY <1>3, <1>4 DEF CallOk, Change
<1>6. call'.stage = "failed"
  BY <1>3 DEF Change
<1>7. ViewOk'
  <2>1. view # NoTrip
    BY <1>1, BeforeIs DEF PageInv, ViewOk
  <2> QED BY <1>1, <1>6, <2>1 DEF ViewOk, NoTrip
<1> QED BY <1>1, <1>5, <1>6, <1>7, PartsStay DEF PageInv

\* Every end of a change leaves a page that shows a state of the trip.
LEMMA SettlesKeep ==
  ASSUME PageInv, Settles
  PROVE  PageInv' /\ call'.stage \in {"none", "reload", "reloaded"}
<1>1. Onward /\ UNCHANGED <<saved, shown, loading>> /\ IInv
  BY DEF Onward, PageInv, Settles, Saved, Restored, Conflict, Reread, Reloaded, ReloadFails
<1>2. CallOk /\ EditorOk
  BY DEF PageInv
<1>3. CASE Saved
  <2>1. Faithful(Taken) /\ view' = Taken /\ call' = NoCall
    BY <1>2, <1>3, CallIs DEF Saved
  <2>2. ViewOk'
    BY <1>1, <2>1, ViewTakes
  <2>3. CallOk' /\ call'.stage = "none"
    BY <2>1 DEF CallOk, NoCall
  <2>4. EditorOk'
    <3>1. CASE editor' = editor
      BY <1>1, <3>1, PartsStay
    <3>2. CASE editor' = NoEditor
      BY <3>2 DEF EditorOk, NoEditor
    <3> QED BY <1>3, <3>1, <3>2 DEF Saved
  <2> QED BY <1>1, <2>2, <2>3, <2>4, PartsStay DEF PageInv
<1>4. CASE Restored
  <2>1. Faithful(call.before) /\ view' = call.before /\ call' = NoCall /\ editor' = editor
    BY <1>2, <1>4, BeforeIs DEF Restored
  <2>2. ViewOk'
    BY <1>1, <2>1, ViewTakes
  <2>3. CallOk' /\ call'.stage = "none"
    BY <2>1 DEF CallOk, NoCall
  <2> QED BY <1>1, <2>1, <2>2, <2>3, PartsStay DEF PageInv
<1>5. CASE Conflict
  <2>1. /\ Faithful(call.before) /\ view' = call.before /\ call' = [stage |-> "reload"]
        /\ editor' = editor
    BY <1>2, <1>5, BeforeIs DEF Conflict
  <2>2. ViewOk'
    BY <1>1, <2>1, ViewTakes
  <2>3. CallOk' /\ call'.stage = "reload"
    BY <2>1 DEF CallOk
  <2> QED BY <1>1, <2>1, <2>2, <2>3, PartsStay DEF PageInv
<1>6. CASE Reread
  <2>1. /\ call' = [stage |-> "reloaded", trip |-> Snapshot] /\ UNCHANGED <<view, editor>>
        /\ call.stage = "reload"
    BY <1>6 DEF Reread
  <2>2. PICK t : t = Snapshot
    OBVIOUS
  <2>3. Faithful(t)
    BY <1>1, <2>2, NowShows DEF Snapshot, Trip
  <2>4. Faithful(t)'
    BY <1>1, <2>3, ShowsStays DEF Faithful
  <2>5. CallOk' /\ call'.stage = "reloaded"
    BY <2>1, <2>2, <2>4 DEF CallOk
  <2>6. view # NoTrip /\ Faithful(view)
    BY <2>1 DEF PageInv, ViewOk, NoCall
  <2>7. ViewOk'
    BY <1>1, <2>1, <2>6, ViewTakes
  <2> QED BY <1>1, <2>1, <2>5, <2>7, PartsStay DEF PageInv
<1>7. CASE Reloaded
  <2>1. /\ view' = call.trip /\ call' = NoCall /\ editor' = editor /\ Faithful(call.trip)
    BY <1>2, <1>7, CallIs DEF Reloaded
  <2>2. ViewOk'
    BY <1>1, <2>1, ViewTakes
  <2>3. CallOk' /\ call'.stage = "none"
    BY <2>1 DEF CallOk, NoCall
  <2> QED BY <1>1, <2>1, <2>2, <2>3, PartsStay DEF PageInv
<1>8. CASE ReloadFails
  <2>1. call.stage \in {"reload", "reloaded"} /\ call' = NoCall /\ UNCHANGED <<view, editor>>
    BY <1>8 DEF ReloadFails
  <2>2. view # NoTrip /\ Faithful(view)
    BY <2>1 DEF PageInv, ViewOk, NoCall
  <2>3. ViewOk'
    BY <1>1, <2>1, <2>2, ViewTakes
  <2>4. CallOk' /\ call'.stage = "none"
    BY <2>1 DEF CallOk, NoCall
  <2> QED BY <1>1, <2>1, <2>3, <2>4, PartsStay DEF PageInv
<1> QED BY <1>3, <1>4, <1>5, <1>6, <1>7, <1>8 DEF Settles

\* Only the workspace touches what it shows.
PagesIInv == IF open = "workspace" THEN PageInv ELSE call = NoCall /\ view = NoTrip

\* What a change that reaches the rows finds there.
Seen == call.stage = "sent" /\ call'.stage = "saved" /\ call.before.missed = {} =>
  call.before.place = place /\ call.before.text = text

\* Every step of the workspace keeps the invariant, and only an answer makes a change saved.
LEMMA PageStepKeeps ==
  ASSUME PageInv, PageNext
  PROVE  PageInv' /\ Seen
<1>1. CASE Load \/ Loaded \/ LoadFails
  <2>1. call' = call
    BY <1>1 DEF Load, Loaded, LoadFails
  <2>2. Seen
    BY <2>1 DEF Seen
  <2> QED BY <1>1, <2>2, LoadKeeps
<1>2. CASE OpenEditor \/ CloseEditor
  <2>1. call' = call
    BY <1>2 DEF OpenEditor, CloseEditor
  <2>2. Seen
    BY <2>1 DEF Seen
  <2> QED BY <1>2, <2>2, EditorKeeps
<1>3. CASE SubmitAdd \/ SubmitEdit \/ ConfirmRemove \/ MoveItem
  <2>1. call = NoCall
    BY <1>3 DEF SubmitAdd, SubmitEdit, ConfirmRemove, MoveItem, Submit
  <2>2. Seen
    BY <2>1 DEF Seen, NoCall
  <2> QED BY <1>3, <2>2, ChangesKeep
<1>4. CASE Serve
  BY <1>4, ServeKeeps DEF Seen
<1>5. CASE Fail \/ Lose
  BY <1>5, FailKeeps DEF Seen
<1>6. CASE Settles
  BY <1>6, SettlesKeep DEF Seen
<1>7. CASE Elsewhere
  <2>1. call' = call
    BY <1>7 DEF Elsewhere, page
  <2>2. Seen
    BY <2>1 DEF Seen
  <2> QED BY <1>7, <2>2, ElsewhereKeeps
<1> QED BY <1>1, <1>2, <1>3, <1>4, <1>5, <1>6, <1>7 DEF PageNext, Answers

\* The invariant holds when a page opens.
LEMMA PagesInitSound == PagesInit => PagesIInv
<1> SUFFICES ASSUME PagesInit PROVE PagesIInv
  OBVIOUS
<1>1. PICK p \in {"workspace", "guided", "natural"} : open = p /\ Open(p)
  BY DEF PagesInit
<1>2. PageOpens /\ (p = "workspace" => Init)
  <2>1. CASE p = "workspace"
    BY <1>1, <2>1 DEF Open
  <2>2. CASE p = "guided"
    BY <1>1, <2>2 DEF Open
  <2>3. CASE p = "natural"
    BY <1>1, <2>3 DEF Open
  <2> QED BY <2>1, <2>2, <2>3
<1>3. CASE open = "workspace"
  <2>1. IInv
    BY <1>1, <1>2, <1>3, InitSound
  <2>2. LoadOk /\ EditorOk /\ CallOk
    BY <1>2 DEF PageOpens, LoadOk, EditorOk, CallOk
  <2>3. ViewOk
    BY <1>2 DEF PageOpens, ViewOk
  <2> QED BY <1>3, <2>1, <2>2, <2>3 DEF PagesIInv, PageInv
<1>4. CASE open # "workspace"
  BY <1>2, <1>4 DEF PageOpens, PagesIInv
<1> QED BY <1>3, <1>4

\* Every step of a tab keeps it, whatever page is open.
LEMMA PagesStepKeeps ==
  ASSUME PagesIInv, [PagesNext]_tab
  PROVE  PagesIInv' /\ [Seen]_vars
<1>1. CASE WorkspaceStep
  <2>1. open = "workspace" /\ open' = open /\ PageNext
    BY <1>1 DEF WorkspaceStep
  <2>2. PageInv' /\ Seen
    BY <2>1, PageStepKeeps DEF PagesIInv
  <2> QED BY <2>1, <2>2 DEF PagesIInv
<1>2. CASE GuidedStep \/ NaturalStep
  <2>1. open # "workspace" /\ open' = open /\ UNCHANGED <<view, call>>
    BY <1>2 DEF GuidedStep, NaturalStep, page
  <2>2. PagesIInv'
    BY <2>1 DEF PagesIInv, NoCall, NoTrip
  <2>3. Seen
    BY <2>1 DEF Seen
  <2> QED BY <2>2, <2>3
<1>3. CASE UNCHANGED tab
  <2>1. UNCHANGED <<open, saved, shown, view, loading, editor, call, submits>>
    BY <1>3 DEF tab, page
  <2>2. UNCHANGED vars
    BY <2>1 DEF vars, page
  <2>3. CASE open = "workspace"
    <3>1. PageInv /\ Onward
      BY <2>1, <2>3 DEF PagesIInv, PageInv, Onward
    <3>2. PageInv'
      BY <2>1, <3>1, PartsStay DEF PageInv
    <3> QED BY <2>1, <2>2, <2>3, <3>2 DEF PagesIInv
  <2>4. CASE open # "workspace"
    BY <2>1, <2>2, <2>4 DEF PagesIInv, NoCall, NoTrip
  <2> QED BY <2>3, <2>4
<1> QED BY <1>1, <1>2, <1>3 DEF PagesNext

\* What the invariant says of a page without a change in flight.
LEMMA ViewSound == PagesIInv => ViewIsSaved
<1> SUFFICES ASSUME PagesIInv, call.stage = "none", exists, view # NoTrip,
                    view.rev = revision, view.missed = {}
             PROVE  view.place = place /\ view.text = text
  BY DEF ViewIsSaved
<1>1. PageInv
  BY DEF PagesIInv
<1>2. Faithful(view)
  BY <1>1 DEF PageInv, ViewOk
<1> QED BY <1>2, ShowsNow

\* The invariant of a tab holds throughout, whatever other clients do: what the page
\* holds is a state the trip had, under the revision it had, or lacks what became of
\* an item that its user changed in the day it had left.
THEOREM PagesInductive == PagesSpec => []PagesIInv
<1>1. PagesIInv /\ [PagesNext]_tab => PagesIInv'
  BY PagesStepKeeps
<1> QED BY PagesInitSound, <1>1, PTL DEF PagesSpec

\* ViewIsSaved: a workspace without a change in flight that carries the trip's revision,
\* and took no answer it could not show, shows the trip: its days and items, where they
\* are, with their contents.
THEOREM ViewIsSavedHolds == PagesSpec => []ViewIsSaved
BY PagesInductive, ViewSound, PTL

\* AppliedAsSeen: a change reaches the rows only if they are the rows its user saw, or
\* the page had taken an answer it could not show.
THEOREM AppliedAsSeenHolds == PagesSpec => AppliedAsSeen
<1>1. PagesIInv /\ [PagesNext]_tab => [Seen]_vars
  BY PagesStepKeeps
<1>2. [][Seen]_vars => AppliedAsSeen
  BY PTL DEF Seen, AppliedAsSeen
<1> QED BY <1>1, <1>2, PagesInductive, PTL DEF PagesSpec

-----------------------------------------------------------------------------
(***************************************************************************)
(* The planner from a sentence: what it knows of its trip under the        *)
(* revision it holds.                                                      *)
(***************************************************************************)
Phases == {"prompt", "extracting", "review", "saving", "generating", "failed", "cancelled", "left"}
Asks == [phase : Phases, places : Seq(Stops \union {Unmatched}), from : {1}, to : Dates \union {0},
         id : BOOLEAN, rev : Nat, added : Nat, gen : BOOLEAN]

Early == {"prompt", "extracting", "review"}

\* The reviewed dates and destinations of a are valid.
Reviewable(a) == a.from <= a.to /\ \A i \in DOMAIN a.places : a.places[i] # Unmatched

\* The trip has the dates of a and the first n of its stops, in their order.
HoldsFirst(a, n) ==
  /\ range = [from |-> a.from, to |-> a.to] /\ Total("stops") = n
  /\ \A j \in 1 .. n : place[a.places[j]].in = "stops" /\ place[a.places[j]].at = j - 1

\* What a page knows of a trip it made: under the revision it holds, all of it.
Knows(a) == a.id =>
  /\ a.added <= Len(a.places) /\ a.rev <= revision
  /\ exists /\ a.rev = revision => HoldsFirst(a, a.added)

AskOk(a) ==
  /\ a \in Asks /\ Knows(a)
  /\ a.phase \in Early => ~a.id
  /\ a.phase \notin Early => Reviewable(a)
  /\ ~a.id => a.added = 0

\* Whoever changes the trip leaves another revision, or no trip.
Renews == /\ revision' \in Nat /\ revision' >= revision
          /\ exists' /\ revision' = revision => exists /\ UNCHANGED <<range, place>>

\* A page that holds what it held still knows its trip.
LEMMA KnowsStays ==
  ASSUME revision \in Nat, Renews, NEW a \in Asks, Knows(a),
         NEW b, b.id = a.id, b.added = a.added, b.places = a.places, b.rev = a.rev,
         b.from = a.from, b.to = a.to
  PROVE  Knows(b)'
<1> SUFFICES ASSUME b.id
             PROVE  /\ b.added <= Len(b.places) /\ b.rev <= revision'
                    /\ exists' /\ b.rev = revision' => HoldsFirst(b, b.added)'
  BY DEF Knows
<1>1. a.added <= Len(a.places) /\ a.rev <= revision /\ a.rev \in Nat
  BY DEF Knows, Asks
<1>2. b.rev <= revision'
  BY <1>1 DEF Renews
<1>3. ASSUME exists', b.rev = revision' PROVE HoldsFirst(b, b.added)'
  <2>1. exists /\ revision' = revision /\ UNCHANGED <<range, place>>
    BY <1>1, <1>3 DEF Renews
  <2>2. HoldsFirst(a, a.added)
    BY <1>3, <2>1 DEF Knows
  <2> QED BY <2>1, <2>2 DEF HoldsFirst, Total
<1> QED BY <1>1, <1>2, <1>3

\* The page after a step that leaves what it knows: a phase, valid as ever.
LEMMA PhaseKeeps ==
  ASSUME IInv, Renews, AskOk(ask), NEW p \in Phases, To(p),
         p \in Early => ~ask.id,
         p \notin Early => Reviewable(ask)
  PROVE  AskOk(ask)'
<1>1. PICK a : a = ask
  OBVIOUS
<1>2. PICK b : b = [a EXCEPT !.phase = p]
  OBVIOUS
<1>3. ask' = b /\ a \in Asks
  BY <1>1, <1>2 DEF To, AskOk
<1>4. /\ b \in Asks /\ b.phase = p /\ b.id = a.id /\ b.added = a.added /\ b.places = a.places
      /\ b.rev = a.rev /\ b.from = a.from /\ b.to = a.to
  BY <1>2, <1>3 DEF Asks
<1>5. Knows(b)'
  BY <1>1, <1>3, <1>4, KnowsStays DEF AskOk, IInv, TypeOK
<1> QED BY <1>1, <1>3, <1>4, <1>5 DEF AskOk, Reviewable

\* So does a step that leaves the page.
LEMMA AskKept ==
  ASSUME IInv, Renews, AskOk(ask), ask' = ask
  PROVE  AskOk(ask)'
<1>1. PICK a : a = ask
  OBVIOUS
<1>2. ask' = a /\ a \in Asks
  BY <1>1 DEF AskOk
<1>3. Knows(a)'
  BY <1>1, <1>2, KnowsStays DEF AskOk, IInv, TypeOK
<1> QED BY <1>1, <1>2, <1>3 DEF AskOk, Reviewable

\* createDestination puts the stop among those of the trip.
LEMMA CreateDestinationPlaces ==
  ASSUME IInv, NEW x \in Stops, NEW k \in Nat, CreateDestination(revision, x, k)
  PROVE  /\ Advanced /\ UNCHANGED <<range, date>> /\ Opened(place, place', "stops", x, k)
         /\ Kept(place, place', {x}, {"stops"}) /\ place[x].in # "stops"
         /\ Total("stops") \in Nat /\ Total("stops")' = Total("stops") + 1
         /\ Listed(place, "stops", Total("stops")) /\ Listed(place', "stops", Total("stops") + 1)
         /\ k \in 0 .. Total("stops")
<1>0. PICK t \in Tx : /\ t = Begin /\ t.pos = place /\ t.clear = TRUE
                      /\ Lists(t.pos) /\ Fitting(t.pos)
  BY BeginSound
<1>1. PICK u : u = Put(ShiftForInsert(t, "stops", k), x, "stops", k)
  OBVIOUS
<1>2. PICK n : n = Cardinality(Under(t.pos, "stops"))
  OBVIOUS
<1>3. "stops" \in Parents /\ x \in Rows /\ t.pos \in [Rows -> Place]
  BY Kinds DEF Rows, Tx
<1>4. n \in Nat /\ n < Offset /\ Listed(t.pos, "stops", n)
  BY <1>0, <1>2, <1>3, ListOf
<1>5. k \in 0 .. n /\ t.pos[x].in # "stops"
  BY <1>0, <1>2, Kinds DEF CreateDestination, Total
<1>6. Added(t, u, "stops", x, n, k)
  BY <1>1, <1>3, <1>4, <1>5, InsertSound
<1>7. Bump(u) /\ exists /\ UNCHANGED <<exists, range, date, text, audited>>
  BY <1>0, <1>1 DEF CreateDestination, Locked
<1>8. /\ u.pos \in [Rows -> Place] /\ Opened(t.pos, u.pos, "stops", x, k)
      /\ Kept(t.pos, u.pos, {x}, {"stops"}) /\ Listed(u.pos, "stops", n + 1) /\ n + 1 \in Nat
  BY <1>4, <1>6 DEF Added, Tx
<1>9. Cardinality(Under(u.pos, "stops")) = n + 1
  BY <1>3, <1>8, ListedCount
<1>10. place' = u.pos
  BY <1>7 DEF Bump
<1>11. Total("stops") = n /\ Total("stops")' = n + 1
  BY <1>0, <1>2, <1>9, <1>10 DEF Total
<1> QED BY <1>0, <1>4, <1>5, <1>7, <1>8, <1>10, <1>11 DEF Bump, Advanced

\* An operation under the revision of the trip.
LEMMA AdvancedRenews ==
  ASSUME IInv, Advanced
  PROVE  Renews
BY DEF Advanced, Renews, IInv, TypeOK

\* What goes on elsewhere in the trip's stops.
LEMMA DeleteDestinationRenews ==
  ASSUME IInv, NEW x, DeleteDestination(revision, x)
  PROVE  Renews
BY DEF DeleteDestination, Bump, Renews, IInv, TypeOK

\* A deleted trip is none.
LEMMA DeleteTripRenews ==
  ASSUME IInv, DeleteTrip(revision)
  PROVE  Renews
BY DEF DeleteTrip, Renews, IInv, TypeOK

\* A step that leaves the trip alone.
LEMMA QuietRenews ==
  ASSUME IInv, UNCHANGED saved
  PROVE  IInv' /\ Renews
BY Unchanged DEF saved, Renews, IInv, TypeOK

\* Queueing and publishing change the revision and nothing else of the itinerary.
LEMMA BumpOnly ==
  ASSUME IInv, exists, Bump([pos |-> place, clear |-> TRUE]),
         UNCHANGED <<exists, range, date, text, audited>>
  PROVE  IInv' /\ Renews /\ revision' = revision + 1
<1>1. place' = place /\ revision' = revision + 1 /\ revision' \in Nat /\ clashed' = FALSE
  BY DEF Bump, IInv, TypeOK, OrderingNeverFails
<1>2. OrdersAreDense' /\ DatesFit'
  BY <1>1 DEF IInv, ItineraryIsSound, OrdersAreDense, DaysStayInRange, Dense, Fitting, Under,
          DatesFit
<1>3. IInv'
  BY <1>1, <1>2, Whole DEF IInv, TypeOK
<1> QED BY <1>1, <1>3 DEF Renews, IInv, TypeOK

\* A trip that was made has no rows yet.
LEMMA CreateTripPlaces ==
  ASSUME IInv, NEW from \in Dates, NEW to \in Dates, CreateTrip(from, to)
  PROVE  /\ IInv' /\ exists' /\ revision' = 1 /\ range' = [from |-> from, to |-> to]
         /\ Total("stops")' = 0
<1>1. /\ exists' = TRUE /\ revision' = 1 /\ range' = [from |-> from, to |-> to]
      /\ place' = [x \in Rows |-> At("unsaved", 0)] /\ audited' = {}
      /\ UNCHANGED <<date, text, clashed>>
  BY DEF CreateTrip
<1>2. At("unsaved", 0) \in Place /\ At("unsaved", 0).in = "unsaved"
  BY PlaceOf
<1>3. place' \in [Rows -> Place] /\ \A x \in Rows : place'[x].in = "unsaved"
  BY <1>1, <1>2
<1>4. \A p \in Parents : Under(place', p) = {}
  BY <1>3, Kinds DEF Under
<1>5. Dense(place')
  BY <1>4 DEF Dense
<1>6. Fitting(place')
  BY <1>3 DEF Fitting, Rows
<1>7. DatesFit'
  BY <1>4, Kinds DEF DatesFit
<1>8. IInv'
  BY <1>1, <1>3, <1>5, <1>6, <1>7, Whole DEF IInv, TypeOK, OrdersAreDense, OrderingNeverFails
<1>9. Total("stops")' = 0
  BY <1>4, Kinds, FS_EmptySet DEF Total
<1> QED BY <1>1, <1>8, <1>9

\* So has one that was not made.
LEMMA UnmadeSound == Unmade => IInv
<1> SUFFICES ASSUME Unmade PROVE IInv
  OBVIOUS
<1>1. /\ exists = FALSE /\ revision = 1 /\ audited = {} /\ clashed = FALSE
      /\ place = [x \in Rows |-> At("unsaved", 0)]
  BY DEF Unmade
<1>2. At("unsaved", 0) \in Place /\ At("unsaved", 0).in = "unsaved"
  BY PlaceOf
<1>3. place \in [Rows -> Place] /\ \A x \in Rows : place[x].in = "unsaved"
  BY <1>1, <1>2
<1>4. \A p \in Parents : Under(place, p) = {}
  BY <1>3, Kinds DEF Under
<1>5. Dense(place) /\ Fitting(place)
  BY <1>3, <1>4 DEF Dense, Fitting, Rows
<1>6. PICK s \in Starts : date = s.date /\ text = s.text
  BY DEF Unmade
<1>7. date \in [Days -> Dates] /\ text \in [Items -> Texts]
  BY <1>6, StartsAssumption
<1>8. range \in [from : Dates, to : Dates]
  BY DEF Unmade
<1> QED BY <1>1, <1>3, <1>5, <1>7, <1>8 DEF IInv, TypeOK, ItineraryIsSound, OrdersAreDense,
                                           DaysStayInRange, OrderingNeverFails

\* The next stop that is added stands behind those that were.
LEMMA StopAdded ==
  ASSUME IInv, NEW a \in Asks, Knows(a), Reviewable(a), a.id, a.added # Len(a.places),
         CreateDestination(a.rev, a.places[a.added + 1], a.added)
  PROVE  /\ IInv' /\ Advanced
         /\ \A b : b.places = a.places /\ b.from = a.from /\ b.to = a.to =>
              HoldsFirst(b, a.added + 1)' /\ a.added + 1 <= Len(a.places)
<1>1. exists /\ a.rev = revision
  BY DEF CreateDestination, Locked
<1>2. PICK n \in Nat, x \in {a.places[a.added + 1]} : n = a.added /\ x = a.places[n + 1]
  BY DEF Asks
<1>3. HoldsFirst(a, n) /\ n <= Len(a.places) /\ n # Len(a.places)
  BY <1>1, <1>2 DEF Knows
<1>4. Len(a.places) \in Nat /\ n + 1 \in Nat /\ n + 1 <= Len(a.places)
  BY <1>2, <1>3 DEF Asks
<1>5. \A j \in 1 .. n + 1 : a.places[j] \in Stops /\ a.places[j] \in Rows
  BY <1>2, <1>4 DEF Reviewable, Asks, Rows
<1>6. x \in Stops /\ CreateDestination(revision, x, n)
  BY <1>1, <1>2, <1>5
<1>7. IInv'
  BY <1>6, CreateDestinationSound
<1>8. /\ Advanced /\ UNCHANGED <<range, date>> /\ Opened(place, place', "stops", x, n)
      /\ Total("stops")' = Total("stops") + 1
  BY <1>6, CreateDestinationPlaces
<1>9. place[x].in # "stops"
  BY <1>6 DEF CreateDestination
<1>10. ASSUME NEW j \in 1 .. n + 1
       PROVE  place'[a.places[j]].in = "stops" /\ place'[a.places[j]].at = j - 1
  <2>1. CASE j = n + 1
    BY <1>2, <1>8, <2>1 DEF Opened
  <2>2. CASE j # n + 1
    <3>1. j \in 1 .. n
      BY <2>2
    <3>2. place[a.places[j]].in = "stops" /\ place[a.places[j]].at = j - 1
      BY <1>3, <3>1 DEF HoldsFirst
    <3>3. a.places[j] \in Rows \ {x}
      BY <1>5, <1>9, <3>2
    <3>4. /\ place'[a.places[j]].in = "stops"
          /\ place'[a.places[j]].at = IF j - 1 >= n THEN j ELSE j - 1
      BY <1>8, <3>2, <3>3 DEF Opened
    <3> QED BY <3>1, <3>4
  <2> QED BY <2>1, <2>2
<1>11. range' = [from |-> a.from, to |-> a.to] /\ Total("stops")' = n + 1
  BY <1>3, <1>8 DEF HoldsFirst
<1> QED BY <1>2, <1>4, <1>7, <1>8, <1>10, <1>11 DEF HoldsFirst

\* The dates of valid answers are dates.
LEMMA DatesAre ==
  ASSUME NEW a \in Asks, Reviewable(a)
  PROVE  a.from \in Dates /\ a.to \in Dates
<1>1. a.from = 1 /\ a.to \in Dates \union {0} /\ a.from <= a.to
  BY DEF Asks, Reviewable
<1>2. a.to # 0
  BY <1>1
<1> QED BY <1>1, <1>2, CalendarAssumption

\* What a call of the page leaves, answered or not.
LEMMA CallLeaves ==
  ASSUME IInv, AskOk(ask), Reviewable(ask), Call
  PROVE  IInv' /\ (ask.id => Renews)
<1>1. PICK a \in Asks : a = ask
  BY DEF AskOk
<1>2. CASE ~Made /\ CreateTrip(ask.from, ask.to)
  <2>1. a.from \in Dates /\ a.to \in Dates
    BY <1>1, DatesAre
  <2>2. IInv'
    BY <1>1, <1>2, <2>1, CreateTripPlaces
  <2> QED BY <1>2, <2>2 DEF Made
<1>3. CASE Made /\ ~AllAdded /\ CreateDestination(ask.rev, ask.places[ask.added + 1], ask.added)
  <2>1. IInv' /\ Advanced
    BY <1>1, <1>3, StopAdded DEF Made, AllAdded, AskOk
  <2> QED BY <2>1, AdvancedRenews
<1>4. CASE Made /\ AllAdded /\ QueueRun(ask.rev)
  <2>1. /\ exists /\ Bump([pos |-> place, clear |-> TRUE])
        /\ UNCHANGED <<exists, range, date, text, audited>>
    BY <1>4 DEF QueueRun, Locked
  <2> QED BY <2>1, BumpOnly
<1> QED BY <1>2, <1>3, <1>4 DEF Call

\* An answered call: the page knows what it made.
LEMMA AnsweredKeeps ==
  ASSUME IInv, AskOk(ask), Answered
  PROVE  IInv' /\ AskOk(ask)'
<1>1. PICK a \in Asks : a = ask
  BY DEF AskOk
<1>2. /\ ask.phase = "saving" /\ Call /\ Reviewable(a) /\ Knows(a) /\ (~a.id => a.added = 0)
  BY <1>1 DEF Answered, AskOk, Early
<1>3. IInv' /\ revision' \in Nat
  BY <1>1, <1>2, CallLeaves DEF IInv, TypeOK
<1>4. PICK r : r = revision'
  OBVIOUS
<1>5. PICK n : n = IF Made /\ ~AllAdded THEN a.added + 1 ELSE a.added
  OBVIOUS
<1>6. PICK g \in BOOLEAN : g = (a.gen \/ queued' # queued)
  OBVIOUS
<1>7. PICK p \in {"generating", "saving"} :
        p = IF queued' # queued THEN "generating" ELSE "saving"
  OBVIOUS
<1>8. n \in Nat /\ p \in Phases /\ r \in Nat
  <2>1. a.added \in Nat
    BY DEF Asks
  <2>2. n \in Nat
    BY <1>5, <2>1
  <2>3. p \in Phases
    BY DEF Phases
  <2> QED BY <1>3, <1>4, <2>2, <2>3
<1>9. PICK b : b = [a EXCEPT !.id = TRUE, !.rev = r, !.added = n, !.gen = g, !.phase = p]
  OBVIOUS
<1>10. ask' = b
  BY <1>1, <1>4, <1>5, <1>6, <1>7, <1>9 DEF Answered
<1>11. /\ b \in Asks /\ b.id = TRUE /\ b.rev = r /\ b.added = n /\ b.phase = p
       /\ b.places = a.places /\ b.from = a.from /\ b.to = a.to
  BY <1>8, <1>9 DEF Asks
<1>12. n <= Len(a.places) /\ HoldsFirst(b, n)'
  <2>1. CASE ~Made /\ CreateTrip(ask.from, ask.to)
    <3>1. n = 0
      BY <1>1, <1>2, <1>5, <2>1 DEF Made
    <3>2. range' = [from |-> a.from, to |-> a.to] /\ Total("stops")' = 0
      BY <1>1, <1>2, <2>1, DatesAre, CreateTripPlaces
    <3>3. 1 .. n = {} /\ Len(a.places) \in Nat
      BY <3>1 DEF Asks
    <3> QED BY <1>11, <3>1, <3>2, <3>3 DEF HoldsFirst
  <2>2. CASE Made /\ ~AllAdded /\ CreateDestination(ask.rev, ask.places[ask.added + 1], ask.added)
    <3>1. n = a.added + 1 /\ a.id /\ a.added # Len(a.places)
      BY <1>1, <1>5, <2>2 DEF Made, AllAdded
    <3>2. CreateDestination(a.rev, a.places[a.added + 1], a.added)
      BY <1>1, <2>2
    <3> QED BY <1>2, <1>11, <3>1, <3>2, StopAdded
  <2>3. CASE Made /\ AllAdded /\ QueueRun(ask.rev)
    <3>1. n = a.added /\ a.id /\ a.added = Len(a.places)
      BY <1>1, <1>5, <2>3 DEF Made, AllAdded
    <3>2. exists /\ a.rev = revision /\ place' = place /\ range' = range
      BY <1>1, <2>3 DEF QueueRun, Locked, Bump
    <3>3. HoldsFirst(a, n)
      BY <1>2, <3>1, <3>2 DEF Knows
    <3>4. HoldsFirst(b, n)'
      BY <1>11, <3>2, <3>3 DEF HoldsFirst, Total
    <3>5. Len(a.places) \in Nat
      BY DEF Asks
    <3> QED BY <3>1, <3>4, <3>5
  <2> QED BY <1>2, <2>1, <2>2, <2>3 DEF Call
<1>13. Knows(b)'
  BY <1>3, <1>4, <1>11, <1>12 DEF Knows
<1>14. Reviewable(b) /\ b.phase \notin Early
  BY <1>2, <1>7, <1>11 DEF Reviewable, Early
<1> QED BY <1>3, <1>10, <1>11, <1>13, <1>14 DEF AskOk, Reviewable

\* A call that is not answered, carried out or not.
LEMMA CallFailsKeeps ==
  ASSUME IInv, AskOk(ask), CallFails
  PROVE  IInv' /\ AskOk(ask)'
<1>1. ask.phase = "saving" /\ Reviewable(ask) /\ To("failed")
  BY DEF CallFails, AskOk, Early
<1>2. CASE ask.id
  <2>1. IInv' /\ Renews
    <3>1. CASE Call
      BY <1>1, <1>2, <3>1, CallLeaves
    <3>2. CASE UNCHANGED <<saved, run, queued>>
      BY <3>2, QuietRenews
    <3> QED BY <3>1, <3>2 DEF CallFails
  <2>2. "failed" \in Phases /\ "failed" \notin Early
    BY DEF Phases, Early
  <2> QED BY <1>1, <2>1, <2>2, PhaseKeeps
<1>3. CASE ~ask.id
  <2>1. IInv'
    <3>1. CASE Call
      BY <1>1, <3>1, CallLeaves
    <3>2. CASE UNCHANGED <<saved, run, queued>>
      BY <3>2, QuietRenews
    <3> QED BY <3>1, <3>2 DEF CallFails
  <2>2. PICK a \in Asks : a = ask
    BY DEF AskOk
  <2>3. PICK b : b = [a EXCEPT !.phase = "failed"]
    OBVIOUS
  <2>4. ask' = b
    BY <1>1, <2>2, <2>3 DEF To
  <2>5. /\ b \in Asks /\ b.phase = "failed" /\ b.id = a.id /\ b.added = a.added
        /\ b.places = a.places /\ b.from = a.from /\ b.to = a.to
    BY <2>3 DEF Asks, Phases
  <2>6. Knows(b)'
    BY <1>3, <2>2, <2>5 DEF Knows
  <2>7. Reviewable(b) /\ b.phase \notin Early /\ (~b.id => b.added = 0)
    BY <1>1, <1>3, <2>2, <2>5 DEF Reviewable, Early, AskOk
  <2> QED BY <2>1, <2>4, <2>5, <2>6, <2>7 DEF AskOk, Reviewable
<1> QED BY <1>2, <1>3

\* What other tabs do to the draft.
LEMMA MeanwhileKeeps ==
  ASSUME IInv, AskOk(ask), Meanwhile
  PROVE  IInv' /\ AskOk(ask)'
<1>1. exists /\ ask' = ask
  BY DEF Meanwhile
<1>2. IInv' /\ Renews
  <2>1. ASSUME NEW x \in Stops, DeleteDestination(revision, x) PROVE IInv' /\ Renews
    BY <2>1, DeleteDestinationSound, DeleteDestinationRenews
  <2>2. ASSUME NEW x \in Stops, CreateDestination(revision, x, 0) PROVE IInv' /\ Renews
    BY <2>2, CreateDestinationSound, CreateDestinationPlaces, AdvancedRenews
  <2>3. CASE DeleteTrip(revision)
    BY <2>3, DeleteTripSound, DeleteTripRenews
  <2>4. CASE QueueRun(revision)
    BY <1>1, <2>4, BumpOnly DEF QueueRun
  <2>5. CASE UNCHANGED saved
    BY <2>5, QuietRenews
  <2> QED BY <2>1, <2>2, <2>3, <2>4, <2>5 DEF Meanwhile
<1> QED BY <1>1, <1>2, AskKept

\* The user's answers before the trip is made, and the corrections.
LEMMA ReviewKeeps ==
  ASSUME IInv, AskOk(ask), Extracted \/ Correct
  PROVE  IInv' /\ AskOk(ask)'
<1>1. IInv'
  <2>1. UNCHANGED saved
    BY DEF Extracted, Correct
  <2> QED BY <2>1, QuietRenews
<1>2. PICK a \in Asks : a = ask
  BY DEF AskOk
<1>3. a.phase \in Early /\ ~a.id /\ a.added = 0
  BY <1>2 DEF Extracted, Correct, AskOk, Early
<1>4. CASE Extracted
  <2>1. PICK n \in 1 .. 2, x \in Stops, y \in Stops \union {Unmatched}, to \in Dates \union {0} :
          ask' = [Sentence(SubSeq(<<x, y>>, 1, n), 1, to) EXCEPT !.phase = "review"]
    BY <1>4 DEF Extracted
  <2>2. PICK s : s = SubSeq(<<x, y>>, 1, n)
    OBVIOUS
  <2>3. s \in Seq(Stops \union {Unmatched})
    BY <2>2
  <2>4. ask' = [phase |-> "review", places |-> s, from |-> 1, to |-> to,
                id |-> FALSE, rev |-> 0, added |-> 0, gen |-> FALSE]
    BY <2>1, <2>2 DEF Sentence
  <2>5. ask' \in Asks /\ ask'.phase \in Early /\ ~ask'.id /\ ask'.added = 0
    BY <2>3, <2>4 DEF Asks, Phases, Early
  <2> QED BY <1>1, <2>5 DEF AskOk, Knows
<1>5. CASE Correct
  <2>1. ask' \in Asks /\ ask'.phase = "review" /\ ~ask'.id /\ ask'.added = 0
    <3>1. CASE \E i \in DOMAIN ask.places, x \in Stops :
                 ask' = [ask EXCEPT !.places = [@ EXCEPT ![i] = x]]
      <4>1. PICK i \in DOMAIN a.places, x \in Stops :
              ask' = [a EXCEPT !.places = [a.places EXCEPT ![i] = x]]
        BY <1>2, <3>1
      <4>2. PICK s : s = [a.places EXCEPT ![i] = x]
        OBVIOUS
      <4>3. s \in Seq(Stops \union {Unmatched})
        <5>1. PICK q : q = a.places
          OBVIOUS
        <5>2. q \in Seq(Stops \union {Unmatched}) /\ i \in DOMAIN q /\ s = [q EXCEPT ![i] = x]
          BY <4>2, <5>1 DEF Asks
        <5> QED BY <5>2
      <4>4. ask' = [a EXCEPT !.places = s]
        BY <4>1, <4>2
      <4> QED BY <1>3, <1>2, <1>5, <4>3, <4>4 DEF Asks, Correct
    <3>2. CASE \E to \in Dates : ask' = [ask EXCEPT !.to = to]
      BY <1>2, <1>3, <1>5, <3>2 DEF Asks, Correct
    <3> QED BY <1>5, <3>1, <3>2 DEF Correct
  <2> QED BY <1>1, <2>1 DEF AskOk, Knows, Early
<1> QED BY <1>4, <1>5

\* The steps that change the phase and nothing else the page knows.
LEMMA TurnsKeep ==
  ASSUME IInv, AskOk(ask),
         \/ Extract \/ ExtractFails \/ BeginGeneration \/ ReturnToPlanner
         \/ Retry \/ Cancel \/ PollEnds \/ PollFails
  PROVE  IInv' /\ AskOk(ask)'
<1>1. UNCHANGED saved
  BY DEF Extract, ExtractFails, BeginGeneration, ReturnToPlanner, Retry, Cancel, PollEnds, PollFails
<1>2. IInv' /\ Renews
  BY <1>1, QuietRenews
<1>3. PICK p \in Phases : /\ To(p)
                          /\ p \in Early => ~ask.id
                          /\ p \notin Early => Reviewable(ask)
  <2>1. CASE Extract
    BY <2>1 DEF Extract, Phases, Early, AskOk
  <2>2. CASE ExtractFails
    BY <2>2 DEF ExtractFails, Phases, Early, AskOk
  <2>3. CASE BeginGeneration
    BY <2>3 DEF BeginGeneration, ReviewIsValid, Reviewable, Phases, Early, AskOk
  <2>4. CASE ReturnToPlanner
    BY <2>4 DEF ReturnToPlanner, Phases, Early, AskOk
  <2>5. CASE Retry
    BY <2>5 DEF Retry, Phases, Early, AskOk
  <2>6. CASE Cancel
    BY <2>6 DEF Cancel, Phases, Early, AskOk
  <2>7. CASE PollEnds
    BY <2>7 DEF PollEnds, Phases, Early, AskOk
  <2>8. CASE PollFails
    BY <2>8 DEF PollFails, Phases, Early, AskOk
  <2> QED BY <2>1, <2>2, <2>3, <2>4, <2>5, <2>6, <2>7, <2>8
<1> QED BY <1>2, <1>3, PhaseKeeps

\* The worker's steps, and what the page does not see.
LEMMA WorkerKeeps ==
  ASSUME IInv, AskOk(ask), RunStarts \/ RunEnds \/ CancelFails
  PROVE  IInv' /\ AskOk(ask)'
<1>1. ask' = ask
  BY DEF RunStarts, RunEnds, CancelFails, asked
<1>2. IInv' /\ Renews
  <2>1. CASE UNCHANGED saved
    BY <2>1, QuietRenews
  <2>2. CASE RunEnds /\ ~UNCHANGED saved
    BY <2>2, BumpOnly DEF RunEnds
  <2> QED BY <2>1, <2>2 DEF RunStarts, CancelFails
<1> QED BY <1>1, <1>2, AskKept

\* What a page that queues a generation finds of its trip.
FindsReviewed == ask.phase = "saving" /\ ask'.phase = "generating" =>
  /\ range = [from |-> ask.from, to |-> ask.to]
  /\ List("stops") = ask.places

\* Only an answered call queues one, and only when the page has made the trip.
LEMMA QueuesSeen ==
  ASSUME IInv, AskOk(ask), NaturalNext
  PROVE  FindsReviewed
<1> SUFFICES ASSUME ask.phase = "saving", ask'.phase = "generating"
             PROVE  /\ range = [from |-> ask.from, to |-> ask.to]
                    /\ List("stops") = ask.places
  BY DEF FindsReviewed
<1>1. PICK a \in Asks : a = ask
  BY DEF AskOk
<1>2. Answered
  <2>1. ASSUME NEW p, To(p), p # "generating" PROVE FALSE
    BY <1>1, <2>1 DEF To, Asks
  <2>2. ask' # ask
    OBVIOUS
  <2>3. ~CallFails
    BY <2>1 DEF CallFails
  <2> QED BY <2>2, <2>3 DEF NaturalNext, Requests, Replies, Extract, Correct, BeginGeneration,
        Retry, Cancel, CancelFails, Meanwhile, Extracted, ExtractFails, ReturnToPlanner, RunStarts,
        RunEnds, PollEnds, PollFails, asked
<1>3. queued' # queued
  <2>1. PICK r, n, g : ask' = [a EXCEPT !.id = TRUE, !.rev = r, !.added = n, !.gen = g,
                                 !.phase = IF queued' # queued THEN "generating" ELSE "saving"]
    BY <1>1, <1>2 DEF Answered
  <2> QED BY <2>1 DEF Asks
<1>4. a.id /\ a.added = Len(a.places) /\ exists /\ a.rev = revision
  BY <1>1, <1>2, <1>3 DEF Answered, Call, QueueRun, Locked, Made, AllAdded
<1>5. PICK n \in Nat : n = Len(a.places)
  BY DEF Asks
<1>6. HoldsFirst(a, n) /\ Reviewable(a)
  BY <1>1, <1>4, <1>5 DEF AskOk, Knows, Early
<1>7. \A x, y \in Under(place, "stops") : place[x].at = place[y].at => x = y
  BY Kinds DEF IInv, ItineraryIsSound, OrdersAreDense, Dense
<1>8. ASSUME NEW k \in 1 .. n
      PROVE  (CHOOSE x \in Under(place, "stops") : place[x].at = k - 1) = a.places[k]
  <2>1. a.places[k] \in Under(place, "stops") /\ place[a.places[k]].at = k - 1
    BY <1>5, <1>6 DEF HoldsFirst, Reviewable, Asks, Under, Rows
  <2> QED BY <1>7, <2>1
<1>9. List("stops") = [k \in 1 .. n |-> a.places[k]]
  BY <1>6, <1>8 DEF List, HoldsFirst
<1>10. a.places = [k \in 1 .. n |-> a.places[k]]
  BY <1>5 DEF Asks
<1> QED BY <1>1, <1>6, <1>9, <1>10 DEF HoldsFirst

\* Only the planner from a sentence touches what it knows.
SentenceIInv == open = "natural" => IInv /\ AskOk(ask)

\* It holds when the page opens.
LEMMA SentenceInitSound == PagesInit => SentenceIInv
<1> SUFFICES ASSUME PagesInit, open = "natural" PROVE IInv /\ AskOk(ask)
  BY DEF SentenceIInv
<1>1. Unmade /\ NaturalInit
  BY DEF PagesInit, Open
<1>2. ask = [phase |-> "prompt", places |-> <<>>, from |-> 1, to |-> 0,
             id |-> FALSE, rev |-> 0, added |-> 0, gen |-> FALSE]
  BY <1>1 DEF NaturalInit, NoSentence, Sentence
<1>3. ask \in Asks /\ ask.phase \in Early /\ ~ask.id /\ ask.added = 0
  BY <1>2 DEF Asks, Phases, Early
<1> QED BY <1>1, <1>3, UnmadeSound DEF AskOk, Knows

\* Every step of the page keeps it.
LEMMA SentenceStepKeeps ==
  ASSUME SentenceIInv, [PagesNext]_tab
  PROVE  SentenceIInv' /\ [FindsReviewed]_written
<1>1. CASE NaturalStep
  <2>1. open = "natural" /\ NaturalNext /\ IInv /\ AskOk(ask)
    BY <1>1 DEF NaturalStep, SentenceIInv
  <2>2. IInv' /\ AskOk(ask)'
    BY <2>1, AnsweredKeeps, CallFailsKeeps, MeanwhileKeeps, ReviewKeeps, TurnsKeep, WorkerKeeps
       DEF NaturalNext, Requests, Replies
  <2> QED BY <2>1, <2>2, QueuesSeen DEF SentenceIInv
<1>2. CASE WorkspaceStep \/ GuidedStep
  <2>1. open # "natural" /\ open' = open /\ ask' = ask
    BY <1>2 DEF WorkspaceStep, GuidedStep, natural, asked
  <2> QED BY <2>1 DEF SentenceIInv, FindsReviewed
<1>3. CASE UNCHANGED tab
  <2>1. UNCHANGED saved /\ open' = open /\ ask' = ask
    BY <1>3 DEF tab, natural, asked
  <2>2. FindsReviewed
    BY <2>1 DEF FindsReviewed
  <2>3. open = "natural" => (IInv /\ AskOk(ask))'
    BY <2>1, QuietRenews, AskKept DEF SentenceIInv
  <2> QED BY <2>1, <2>2, <2>3 DEF SentenceIInv
<1> QED BY <1>1, <1>2, <1>3 DEF PagesNext

\* The invariant of the planner from a sentence: under the revision it holds the
\* trip has the reviewed dates and the first of the reviewed stops, as many as were
\* answered (trip-planner.tsx, beginGeneration).
THEOREM SentenceInductive == PagesSpec => []SentenceIInv
<1>1. SentenceIInv /\ [PagesNext]_tab => SentenceIInv'
  BY SentenceStepKeeps
<1> QED BY SentenceInitSound, <1>1, PTL DEF PagesSpec

\* QueuedAsReviewed: a generation that the page queues covers every reviewed stop, in
\* its order, and the reviewed dates, whatever calls failed or were answered late
\* (trip-planner.tsx, beginGeneration and retryGeneration).
THEOREM QueuedAsReviewedHolds == PagesSpec => QueuedAsReviewed
<1>1. SentenceIInv /\ [PagesNext]_tab => [FindsReviewed]_written
  BY SentenceStepKeeps
<1>2. [][FindsReviewed]_written => QueuedAsReviewed
  BY PTL DEF FindsReviewed, QueuedAsReviewed
<1> QED BY <1>1, <1>2, SentenceInductive, PTL DEF PagesSpec

-----------------------------------------------------------------------------
(***************************************************************************)
(* The planner by hand.  First the trip as it shows it: a sequence of      *)
(* stops, and the dates that have a day.                                   *)
(***************************************************************************)
\* One insertion and one removal.
LEMMA SameEdits ==
  ASSUME NEW s, NEW k, NEW x
  PROVE  InsertAt(s, k, x) = Ordered!InsertAt(s, k, x) /\ RemoveAt(s, k) = Ordered!RemoveAt(s, k)
BY DEF InsertAt, Ordered!InsertAt, RemoveAt, Ordered!RemoveAt

\* The stops as the API lists them: every stop once, at its place.
LEMMA StopsAre ==
  ASSUME IInv
  PROVE  /\ SavedStops = RowsOf(place, "stops") /\ SavedStops \in Seq(Stops)
         /\ Total("stops") \in Nat /\ Len(SavedStops) = Total("stops")
         /\ Reads(SavedStops, place, "stops")
         /\ \A x \in Rows : place[x].in = "stops" =>
              place[x].at + 1 \in 1 .. Len(SavedStops) /\ SavedStops[place[x].at + 1] = x
<1>0. PICK pos : pos = place
  OBVIOUS
<1>1. pos \in [Rows -> Place] /\ Dense(pos) /\ Fitting(pos)
  BY <1>0 DEF IInv, TypeOK, ItineraryIsSound, OrdersAreDense
<1>2. PICK n \in Nat : n = Cardinality(Under(pos, "stops")) /\ Listed(pos, "stops", n)
  BY <1>1, Kinds, DenseListed
<1>3. PICK s : s = RowsOf(pos, "stops")
  OBVIOUS
<1>4. s \in Seq(Rows) /\ Len(s) = n /\ Reads(s, pos, "stops")
  BY <1>1, <1>2, <1>3, Kinds, SeqReads
<1>5. SavedStops = s /\ Total("stops") = n
  BY <1>0, <1>2, <1>3 DEF SavedStops, List, RowsOf, Total
<1>6. \A j \in 1 .. Len(s) : s[j] \in Stops
  BY <1>1, <1>4, KindOf DEF Reads
<1>7. s \in Seq(Stops)
  BY <1>4, <1>6
<1>8. ASSUME NEW x \in Rows, pos[x].in = "stops"
      PROVE  pos[x].at + 1 \in 1 .. Len(s) /\ s[pos[x].at + 1] = x
  BY <1>1, <1>2, <1>3, <1>8, Kinds, SeqHas
<1> QED BY <1>0, <1>2, <1>3, <1>4, <1>5, <1>7, <1>8

\* A stop stands in one place of its list.
LEMMA StopsOnce ==
  ASSUME IInv, NEW i \in 1 .. Len(SavedStops), NEW j \in 1 .. Len(SavedStops),
         SavedStops[i] = SavedStops[j]
  PROVE  i = j
<1>1. Reads(SavedStops, place, "stops")
  BY StopsAre
<1>2. place[SavedStops[i]].at = i - 1 /\ place[SavedStops[j]].at = j - 1
  BY <1>1 DEF Reads
<1> QED BY <1>2

\* Taking a stop out of a list is removing it from where it stands.
LEMMA TakingIs ==
  ASSUME IInv, NEW s, s = SavedStops, NEW j \in 1 .. Len(s), NEW x, s[j] = x
  PROVE  Taking(s, x) = RemoveAt(s, j)
<1>1. DOMAIN s = 1 .. Len(s)
  BY StopsAre
<1>2. \A i \in DOMAIN s : s[i] = x => i = j
  BY <1>1, StopsOnce
<1>3. (CHOOSE i \in DOMAIN s : s[i] = x) = j
  BY <1>1, <1>2
<1> QED BY <1>3 DEF Taking

\* The dates that have a day are dates of the trip.
LEMMA DatesAreIn ==
  ASSUME IInv
  PROVE  SavedDates \subseteq Dates /\ (exists => SavedDates \subseteq range.from .. range.to)
<1>1. place \in [Rows -> Place] /\ Fitting(place) /\ date \in [Days -> Dates]
  BY DEF IInv, TypeOK, ItineraryIsSound, OrdersAreDense
<1>2. \A d \in Under(place, "days") : d \in Days
  BY <1>1, KindOf DEF Under
<1>3. exists => \A d \in Under(place, "days") : date[d] \in range.from .. range.to
  BY DEF IInv, ItineraryIsSound, DaysStayInRange, DatesFit
<1> QED BY <1>1, <1>2, <1>3 DEF SavedDates

\* A change among the stops leaves the days.
LEMMA DaysAsBefore ==
  ASSUME IInv, place' \in [Rows -> Place], UNCHANGED date, NEW X, X \subseteq Stops,
         \A y \in Rows \ X : place'[y].in = place[y].in,
         \A y \in X : place'[y].in # "days"
  PROVE  SavedDates' = SavedDates
<1>1. \A y \in X : place[y].in # "days"
  BY Kinds, RowsAssumption DEF IInv, ItineraryIsSound, OrdersAreDense, Fitting
<1>2. Under(place', "days") = Under(place, "days")
  BY <1>1 DEF Under
<1> QED BY <1>2 DEF SavedDates

\* createDestination puts the stop into the list.
LEMMA CreateDestinationShows ==
  ASSUME IInv, NEW x \in Stops, NEW k \in Nat, CreateDestination(revision, x, k)
  PROVE  /\ IInv' /\ Advanced /\ UNCHANGED <<range, date>> /\ SavedDates' = SavedDates
         /\ SavedStops' = InsertAt(SavedStops, k + 1, x) /\ k + 1 \in 1 .. Len(SavedStops) + 1
<1>1. PICK old, new, n : old = place /\ new = place' /\ n = Total("stops")
  OBVIOUS
<1>2. /\ Advanced /\ UNCHANGED <<range, date>> /\ Opened(old, new, "stops", x, k)
      /\ Kept(old, new, {x}, {"stops"}) /\ old[x].in # "stops" /\ n \in Nat
      /\ Listed(old, "stops", n) /\ Listed(new, "stops", n + 1) /\ k \in 0 .. n
  BY <1>1, CreateDestinationPlaces
<1>3. old \in [Rows -> Place] /\ new \in [Rows -> Place] /\ x \in Rows /\ "stops" \in Parents
  BY <1>1, <1>2, Kinds DEF Advanced, IInv, TypeOK, Rows
<1>4. /\ RowsOf(new, "stops") = Ordered!InsertAt(RowsOf(old, "stops"), k + 1, x)
      /\ k + 1 \in 1 .. Len(RowsOf(old, "stops")) + 1
  BY <1>2, <1>3, OpenedSeq
<1>5. IInv'
  BY CreateDestinationSound
<1>6. SavedStops = RowsOf(old, "stops") /\ SavedStops' = RowsOf(new, "stops")
  BY <1>1, <1>3 DEF SavedStops, List, RowsOf, Total
<1>7. SavedStops' = InsertAt(SavedStops, k + 1, x) /\ k + 1 \in 1 .. Len(SavedStops) + 1
  BY <1>4, <1>6, SameEdits
<1>8. SavedDates' = SavedDates
  <2>1. PICK X : X = {x}
    OBVIOUS
  <2>2. \A y \in Rows \ X : place'[y].in = place[y].in
    BY <1>1, <1>2, <2>1 DEF Kept
  <2>3. \A y \in X : place'[y].in # "days"
    BY <1>1, <1>2, <2>1 DEF Opened
  <2>4. X \subseteq Stops
    BY <2>1
  <2> QED BY <1>1, <1>2, <1>3, <2>2, <2>3, <2>4, DaysAsBefore
<1> QED BY <1>2, <1>5, <1>7, <1>8

\* deleteDestination takes the stop out of it.
LEMMA DeleteDestinationShows ==
  ASSUME IInv, NEW x \in Stops, DeleteDestination(revision, x)
  PROVE  /\ IInv' /\ Advanced /\ UNCHANGED <<range, date>> /\ SavedDates' = SavedDates
         /\ \E j \in 1 .. Len(SavedStops) :
              SavedStops[j] = x /\ SavedStops' = RemoveAt(SavedStops, j)
<1>0. PICK t \in Tx : /\ t = Begin /\ t.pos = place /\ t.clear = TRUE
                      /\ Lists(t.pos) /\ Fitting(t.pos)
  BY BeginSound
<1>1. PICK gone, u : /\ gone = {x} /\ gone \in SUBSET Rows
                     /\ u = CloseOrderGap(Without(t, gone), "stops", t.pos[x].at)
  BY DEF Rows
<1>2. "stops" \in Parents /\ x \in Rows /\ t.pos \in [Rows -> Place]
  BY Kinds DEF Rows, Tx
<1>3. PICK n \in Nat : n < Offset /\ Listed(t.pos, "stops", n)
  BY <1>0, <1>2, ListOf
<1>4. x \in gone /\ t.pos[x].in = "stops" /\ \A y \in gone \ {x} : t.pos[y].in # "stops"
  BY <1>0, <1>1 DEF DeleteDestination
<1>5. Removed(t, u, gone, x, "stops", n)
  BY <1>1, <1>2, <1>3, <1>4, RemoveSound
<1>6. Bump(u) /\ exists /\ UNCHANGED <<exists, range, date>>
  BY <1>0, <1>1 DEF DeleteDestination, Locked
<1>7. PICK old, new : old = place /\ new = place'
  OBVIOUS
<1>8. /\ old \in [Rows -> Place] /\ new \in [Rows -> Place] /\ old[x].in = "stops"
      /\ Listed(old, "stops", n) /\ Listed(new, "stops", n - 1)
      /\ ClosedUp(old, new, "stops", x, old[x].at) /\ Kept(old, new, gone, {"stops"})
      /\ \A y \in gone : new[y].in = "deleted"
  BY <1>0, <1>2, <1>3, <1>4, <1>5, <1>6, <1>7 DEF Removed, Tx, Bump
<1>9. PICK j : j = old[x].at + 1
  OBVIOUS
<1>10. /\ RowsOf(new, "stops") = Ordered!RemoveAt(RowsOf(old, "stops"), j)
       /\ j \in 1 .. Len(RowsOf(old, "stops")) /\ RowsOf(old, "stops")[j] = x
  BY <1>2, <1>8, <1>9, ClosedSeq
<1>11. SavedStops = RowsOf(old, "stops") /\ SavedStops' = RowsOf(new, "stops")
  BY <1>7 DEF SavedStops, List, RowsOf, Total
<1>12. SavedStops' = RemoveAt(SavedStops, j) /\ j \in 1 .. Len(SavedStops) /\ SavedStops[j] = x
  BY <1>10, <1>11, SameEdits
<1>13. SavedDates' = SavedDates
  <2>2. \A y \in Rows \ gone : place'[y].in = place[y].in
    BY <1>7, <1>8 DEF Kept
  <2>3. \A y \in gone : place'[y].in # "days"
    BY <1>7, <1>8
  <2>4. gone \subseteq Stops
    BY <1>1
  <2> QED BY <1>6, <1>7, <1>8, <2>2, <2>3, <2>4, DaysAsBefore
<1>14. Advanced
  BY <1>6, <1>7, <1>8 DEF Advanced, Bump
<1>15. IInv'
  BY DeleteDestinationSound
<1> QED BY <1>6, <1>12, <1>13, <1>14, <1>15

\* updateDestination moves it.
LEMMA UpdateDestinationShows ==
  ASSUME IInv, NEW x \in Stops, NEW k \in Nat, UpdateDestination(revision, x, x, k)
  PROVE  /\ IInv' /\ Advanced /\ UNCHANGED <<range, date>> /\ SavedDates' = SavedDates
         /\ \E j \in 1 .. Len(SavedStops) : \E v \in Seq(Rows) :
              /\ SavedStops[j] = x /\ v = RemoveAt(SavedStops, j)
              /\ SavedStops' = InsertAt(v, k + 1, x) /\ k + 1 \in 1 .. Len(v) + 1
<1>0. PICK t \in Tx : /\ t = Begin /\ t.pos = place /\ t.clear = TRUE
                      /\ Lists(t.pos) /\ Fitting(t.pos)
  BY BeginSound
<1>1. PICK u : u = MoveOrderedRow(t, x, "stops", k)
  OBVIOUS
<1>2. "stops" \in Parents /\ x \in Rows /\ t.pos \in [Rows -> Place]
  BY Kinds DEF Rows, Tx
<1>3. PICK n \in Nat : n = Cardinality(Under(t.pos, "stops")) /\ n < Offset
      /\ Listed(t.pos, "stops", n)
  BY <1>0, <1>2, ListOf
<1>4. k \in 0 .. n - 1 /\ t.pos[x].in = "stops"
  BY <1>0, <1>3 DEF UpdateDestination, Total
<1>5. Rearranged(t, u, "stops", x, n, k)
  BY <1>1, <1>2, <1>3, <1>4, MoveSound
<1>6. Bump(u) /\ exists /\ UNCHANGED <<exists, range, date>>
  BY <1>0, <1>1 DEF UpdateDestination, Locked
<1>7. PICK old, new : old = place /\ new = place'
  OBVIOUS
<1>8. /\ old \in [Rows -> Place] /\ new \in [Rows -> Place] /\ old[x].in = "stops"
      /\ Listed(old, "stops", n) /\ Listed(new, "stops", n)
      /\ Moved(old, new, "stops", x, k) /\ Kept(old, new, {}, {"stops"})
  BY <1>0, <1>2, <1>3, <1>4, <1>5, <1>6, <1>7 DEF Rearranged, Tx, Bump
<1>9. Reordered(old, new, "stops", x, x, k)
  BY <1>8 DEF Moved, Reordered
<1>10. PICK j, h : j = old[x].at + 1 /\ h = k + 1
  OBVIOUS
<1>11. PICK v \in Seq(Rows) :
         /\ v = Ordered!RemoveAt(RowsOf(old, "stops"), j)
         /\ RowsOf(new, "stops") = Ordered!InsertAt(v, h, x)
         /\ j \in 1 .. Len(RowsOf(old, "stops")) /\ h \in 1 .. Len(v) + 1
         /\ RowsOf(old, "stops")[j] = x
  BY <1>2, <1>4, <1>8, <1>9, <1>10, ReorderedSeq
<1>12. SavedStops = RowsOf(old, "stops") /\ SavedStops' = RowsOf(new, "stops")
  BY <1>7 DEF SavedStops, List, RowsOf, Total
<1>13. /\ SavedStops[j] = x /\ v = RemoveAt(SavedStops, j) /\ SavedStops' = InsertAt(v, h, x)
       /\ j \in 1 .. Len(SavedStops)
  BY <1>11, <1>12, SameEdits
<1>14. SavedDates' = SavedDates
  <2>1. PICK X : X = {}
    OBVIOUS
  <2>2. \A y \in Rows \ X : place'[y].in = place[y].in
    BY <1>7, <1>8, <2>1 DEF Kept
  <2>3. X \subseteq Stops /\ \A y \in X : place'[y].in # "days"
    BY <2>1
  <2> QED BY <1>6, <1>7, <1>8, <2>2, <2>3, DaysAsBefore
<1>15. Advanced
  BY <1>6, <1>7, <1>8 DEF Advanced, Bump
<1>16. IInv'
  BY UpdateDestinationSound
<1>17. h \in 1 .. Len(v) + 1 /\ h = k + 1
  BY <1>10, <1>11
<1> QED BY <1>6, <1>13, <1>14, <1>15, <1>16, <1>17

\* createDay adds a day, and leaves the stops.
LEMMA CreateDayShows ==
  ASSUME IInv, NEW x \in Days, NEW n \in Dates, NEW k \in Nat, CreateDay(revision, x, n, k)
  PROVE  /\ IInv' /\ Advanced /\ UNCHANGED range /\ SavedStops' = SavedStops
         /\ SavedDates' = SavedDates \union {n}
<1>0. PICK t \in Tx : /\ t = Begin /\ t.pos = place /\ t.clear = TRUE
                      /\ Lists(t.pos) /\ Fitting(t.pos)
  BY BeginSound
<1>1. PICK u : u = Put(ShiftForInsert(t, "days", k), x, "days", k)
  OBVIOUS
<1>2. PICK m : m = Cardinality(Under(t.pos, "days"))
  OBVIOUS
<1>3. "days" \in Parents /\ "stops" \in Parents /\ x \in Rows /\ t.pos \in [Rows -> Place]
  BY Kinds DEF Rows, Tx
<1>4. m \in Nat /\ m < Offset /\ Listed(t.pos, "days", m)
  BY <1>0, <1>2, <1>3, ListOf
<1>5. k \in 0 .. m /\ t.pos[x].in = "unsaved" /\ t.pos[x].in # "days"
  BY <1>0, <1>2, Kinds DEF CreateDay, Total
<1>6. Added(t, u, "days", x, m, k)
  BY <1>1, <1>3, <1>4, <1>5, InsertSound
<1>7. Bump(u) /\ exists /\ UNCHANGED <<exists, range>> /\ date' = [date EXCEPT ![x] = n]
  BY <1>0, <1>1 DEF CreateDay, Locked
<1>8. PICK old, new : old = place /\ new = place'
  OBVIOUS
<1>9. /\ old \in [Rows -> Place] /\ new \in [Rows -> Place] /\ Lists(old)
      /\ Opened(old, new, "days", x, k) /\ Kept(old, new, {x}, {"days"}) /\ old[x].in = "unsaved"
  BY <1>0, <1>3, <1>5, <1>6, <1>7, <1>8 DEF Added, Tx, Bump
<1>10. Advanced
  BY <1>7, <1>8, <1>9 DEF Advanced, Bump
<1>11. IInv'
  BY CreateDaySound
<1>12. SavedStops' = SavedStops
  <2>1. \A y \in Rows : old[y].in = "stops" \/ new[y].in = "stops" => new[y] = old[y]
    BY <1>9 DEF Opened, Kept
  <2>2. RowsOf(new, "stops") = RowsOf(old, "stops")
    BY <1>3, <1>9, <2>1, SeqStays
  <2> QED BY <1>8, <2>2 DEF SavedStops, List, RowsOf, Total
<1>13. SavedDates' = SavedDates \union {n}
  <2>1. Under(new, "days") = Under(old, "days") \union {x}
    BY <1>3, <1>9 DEF Opened, Kept, Under
  <2>2. x \notin Under(old, "days")
    BY <1>9 DEF Under
  <2>3. date \in [Days -> Dates] /\ Under(old, "days") \subseteq Days
    BY <1>8, KindOf DEF IInv, TypeOK, ItineraryIsSound, OrdersAreDense, Under
  <2>4. date'[x] = n /\ \A d \in Under(old, "days") : date'[d] = date[d]
    BY <1>7, <2>2, <2>3
  <2> QED BY <1>8, <2>1, <2>4 DEF SavedDates
<1> QED BY <1>7, <1>10, <1>11, <1>12, <1>13

\* updateTrip leaves both.
LEMMA UpdateTripShows ==
  ASSUME IInv, NEW from \in Dates, NEW to \in Dates, UpdateTrip(revision, from, to)
  PROVE  /\ IInv' /\ Advanced /\ range' = [from |-> from, to |-> to]
         /\ SavedStops' = SavedStops /\ SavedDates' = SavedDates
<1>1. /\ place' = place /\ date' = date /\ exists /\ exists' = exists /\ revision' = revision + 1
      /\ range' = [from |-> from, to |-> to]
  BY DEF UpdateTrip, Locked, Bump, Begin
<1>2. place' \in [Rows -> Place]
  BY <1>1 DEF IInv, TypeOK
<1>3. SavedStops' = SavedStops /\ SavedDates' = SavedDates
  BY <1>1 DEF SavedStops, List, Total, SavedDates
<1> QED BY <1>1, <1>2, <1>3, UpdateTripSound DEF Advanced

\* createTrip leaves none.
LEMMA CreateTripShows ==
  ASSUME IInv, NEW from \in Dates, NEW to \in Dates, CreateTrip(from, to)
  PROVE  /\ IInv' /\ exists' /\ revision' = 1 /\ range' = [from |-> from, to |-> to]
         /\ SavedStops' = <<>> /\ SavedDates' = {}
<1>1. IInv' /\ exists' /\ revision' = 1 /\ range' = [from |-> from, to |-> to]
      /\ Total("stops")' = 0
  BY CreateTripPlaces
<1>2. \A x \in Rows : place'[x].in = "unsaved"
  BY PlaceOf DEF CreateTrip
<1>3. Under(place', "days") = {} /\ Under(place', "stops") = {}
  BY <1>2 DEF Under
<1>4. 1 .. 0 = {}
  OBVIOUS
<1>5. SavedStops' = <<>>
  BY <1>1, <1>4 DEF SavedStops, List
<1> QED BY <1>1, <1>3, <1>5 DEF SavedDates

-----------------------------------------------------------------------------
(* The invariant of the page.                                              *)

Entries == [stop : Stops, row : Stops \union {None}]
Plans == [from : Dates, to : Dates \union {0}, chosen : Seq(Entries)]
Links == [id : BOOLEAN, rev : Nat, known : Seq(Stops), days : SUBSET Dates]
GuidePhases == {"loading", "unavailable", "ready", "reviewing", "saving", "left"}
Guides == [phase : GuidePhases, step : {"details", "review"}, url : BOOLEAN]
ReviewWork == [kind : {"review"}, asked : Seq(Entries)]
SaveWork == [kind : {"save"}, open : BOOLEAN, trip : BOOLEAN,
             list : Seq(Entries), known : Seq(Stops), days : SUBSET Dates]

\* The stops chosen: a row is one of those known, and the stop's own, and no stop is
\* there twice, unless the form changed during a review (x).
Entered(s, known, x) ==
  /\ \A i \in 1 .. Len(s) : s[i].row = None \/ \E j \in 1 .. Len(known) : known[j] = s[i].row
  /\ ~x => /\ \A i \in 1 .. Len(s) : s[i].row \in {None, s[i].stop}
           /\ \A i, j \in 1 .. Len(s) : s[i].stop = s[j].stop => i = j

GuideOk == guide \in Guides /\ crossed \in BOOLEAN

LinkOk ==
  /\ link \in Links /\ PageKnowsTrip
  /\ IF link.id THEN link.rev <= revision ELSE link.known = <<>> /\ link.days = {}

PlanOk ==
  /\ plan \in Plans /\ Entered(plan.chosen, link.known, crossed)
  /\ guide.phase \in {"loading", "unavailable"} /\ ~guide.url => plan = NoPlan

Reviews ==
  /\ work \in ReviewWork /\ guide.phase = "reviewing"
  /\ ~crossed => work.asked = plan.chosen

Saves ==
  /\ work \in SaveWork /\ guide.phase = "saving" /\ told = "none" /\ plan.from <= plan.to
  /\ work.list = plan.chosen /\ work.known = link.known /\ work.days = link.days
  /\ work.trip => /\ link.id
                  /\ exists /\ link.rev = revision => range = [from |-> plan.from, to |-> plan.to]

WorkOk == work = NoWork \/ Reviews \/ Saves

ToldOk == told \in {"none", "saved", "opened"} /\ (told # "none" => link.id) /\ SavedAsPlanned

GuidedParts == GuideOk /\ LinkOk /\ PlanOk /\ WorkOk /\ ToldOk

\* What is under way is told by its kind.
LEMMA WorkKinds ==
  ASSUME WorkOk
  PROVE  /\ work.kind = "save" => Saves
         /\ work.kind = "review" => Reviews
         /\ guide.phase \notin {"reviewing", "saving"} => work = NoWork
BY DEF WorkOk, Reviews, Saves, ReviewWork, SaveWork, NoWork

\* Entries that are some of those before, in any order.
LEMMA EnteredFrom ==
  ASSUME NEW s \in Seq(Entries), NEW known, NEW x \in BOOLEAN, Entered(s, known, x),
         NEW r \in Seq(Entries), NEW f \in [1 .. Len(r) -> 1 .. Len(s)],
         \A i, j \in 1 .. Len(r) : f[i] = f[j] => i = j,
         \A i \in 1 .. Len(r) : r[i] = s[f[i]]
  PROVE  Entered(r, known, x)
<1>1. \A i \in 1 .. Len(r) : f[i] \in 1 .. Len(s) /\ r[i] = s[f[i]]
  OBVIOUS
<1>2. \A i \in 1 .. Len(r) : r[i].row = None \/ \E j \in 1 .. Len(known) : known[j] = r[i].row
  BY <1>1 DEF Entered
<1>3. ASSUME ~x
      PROVE  /\ \A i \in 1 .. Len(r) : r[i].row \in {None, r[i].stop}
             /\ \A i, j \in 1 .. Len(r) : r[i].stop = r[j].stop => i = j
  <2>1. \A i \in 1 .. Len(r) : r[i].row \in {None, r[i].stop}
    BY <1>1, <1>3 DEF Entered
  <2>2. ASSUME NEW i \in 1 .. Len(r), NEW j \in 1 .. Len(r), r[i].stop = r[j].stop PROVE i = j
    <3>1. s[f[i]].stop = s[f[j]].stop
      BY <1>1, <2>2
    <3>2. f[i] = f[j]
      BY <1>1, <1>3, <3>1 DEF Entered
    <3> QED BY <3>2
  <2> QED BY <2>1, <2>2
<1> QED BY <1>2, <1>3 DEF Entered

\* Another stop, not saved yet.
LEMMA EnteredMore ==
  ASSUME NEW s \in Seq(Entries), NEW known, NEW x \in BOOLEAN, Entered(s, known, x),
         NEW c \in Entries, c.row = None, \A i \in 1 .. Len(s) : s[i].stop # c.stop,
         NEW r, r = Append(s, c)
  PROVE  r \in Seq(Entries) /\ Entered(r, known, x)
<1>1. r \in Seq(Entries) /\ Len(r) = Len(s) + 1 /\ Len(s) \in Nat
  OBVIOUS
<1>2. \A i \in 1 .. Len(r) : IF i = Len(r) THEN r[i] = c ELSE i \in 1 .. Len(s) /\ r[i] = s[i]
  BY <1>1
<1>3. \A i \in 1 .. Len(r) : r[i].row = None \/ \E j \in 1 .. Len(known) : known[j] = r[i].row
  BY <1>2 DEF Entered
<1>4. ASSUME ~x
      PROVE  /\ \A i \in 1 .. Len(r) : r[i].row \in {None, r[i].stop}
             /\ \A i, j \in 1 .. Len(r) : r[i].stop = r[j].stop => i = j
  <2>1. \A i \in 1 .. Len(r) : r[i].row \in {None, r[i].stop}
    BY <1>2, <1>4 DEF Entered
  <2>2. ASSUME NEW i \in 1 .. Len(r), NEW j \in 1 .. Len(r), r[i].stop = r[j].stop PROVE i = j
    <3>1. CASE i = Len(r) /\ j # Len(r)
      <4>1. r[i] = c /\ j \in 1 .. Len(s) /\ r[j] = s[j]
        BY <1>2, <3>1
      <4> QED BY <2>2, <4>1
    <3>2. CASE j = Len(r) /\ i # Len(r)
      <4>1. r[j] = c /\ i \in 1 .. Len(s) /\ r[i] = s[i]
        BY <1>2, <3>2
      <4> QED BY <2>2, <4>1
    <3>3. CASE i # Len(r) /\ j # Len(r)
      <4>1. i \in 1 .. Len(s) /\ r[i] = s[i] /\ j \in 1 .. Len(s) /\ r[j] = s[j]
        BY <1>2, <3>3
      <4> QED BY <1>4, <2>2, <4>1 DEF Entered
    <3> QED BY <3>1, <3>2, <3>3
  <2> QED BY <2>1, <2>2
<1> QED BY <1>1, <1>3, <1>4 DEF Entered

\* Two neighbours change places.
Swapped(s, i) == [s EXCEPT ![i] = s[i + 1], ![i + 1] = s[i]]

\* That is another order of the same choices.
LEMMA EnteredSwapped ==
  ASSUME NEW s \in Seq(Entries), NEW known, NEW x \in BOOLEAN, Entered(s, known, x),
         NEW i \in 1 .. Len(s) - 1, NEW r, r = Swapped(s, i)
  PROVE  r \in Seq(Entries) /\ Entered(r, known, x)
<1>0. s \in Seq(Entries) /\ x \in BOOLEAN /\ Entered(s, known, x)
  OBVIOUS
<1>1. Len(s) \in Nat /\ DOMAIN s = 1 .. Len(s) /\ i + 1 \in 1 .. Len(s) /\ i \in 1 .. Len(s)
  OBVIOUS
<1>2. DOMAIN r = 1 .. Len(s)
  BY <1>1 DEF Swapped
<1>3. \A j \in 1 .. Len(s) : r[j] = IF j = i THEN s[i + 1] ELSE IF j = i + 1 THEN s[i] ELSE s[j]
  BY <1>1 DEF Swapped
<1>4. r = [j \in 1 .. Len(s) |-> r[j]]
  BY <1>1 DEF Swapped
<1>5. \A j \in 1 .. Len(s) : r[j] \in Entries
  BY <1>1, <1>3
<1>6. r \in Seq(Entries) /\ Len(r) = Len(s)
  BY <1>1, <1>4, <1>5
<1>7. PICK f : f = [j \in 1 .. Len(r) |-> IF j = i THEN i + 1 ELSE IF j = i + 1 THEN i ELSE j]
  OBVIOUS
<1>8. f \in [1 .. Len(r) -> 1 .. Len(s)]
  BY <1>1, <1>6, <1>7
<1>9. \A j, k \in 1 .. Len(r) : f[j] = f[k] => j = k
  BY <1>1, <1>6, <1>7
<1>10. \A j \in 1 .. Len(r) : r[j] = s[f[j]]
  BY <1>1, <1>3, <1>6, <1>7
<1>11. Entered(r, known, x)
  BY ONLY <1>0, <1>6, <1>8, <1>9, <1>10, EnteredFrom
<1> QED BY <1>6, <1>11

\* One of them goes.
LEMMA EnteredLess ==
  ASSUME NEW s \in Seq(Entries), NEW known, NEW x \in BOOLEAN, Entered(s, known, x),
         NEW i \in 1 .. Len(s), NEW r, r = RemoveAt(s, i)
  PROVE  r \in Seq(Entries) /\ Entered(r, known, x)
<1>1. r = Ordered!RemoveAt(s, i)
  BY SameEdits
<1>2. r \in Seq(Entries) /\ WithoutElement(s, i, r)
  BY <1>1, RemoveAtElements
<1>3. PICK f : f = [j \in 1 .. Len(r) |-> IF j < i THEN j ELSE j + 1]
  OBVIOUS
<1>4. Len(s) \in Nat /\ Len(r) = Len(s) - 1
  BY <1>2 DEF WithoutElement
<1>5. f \in [1 .. Len(r) -> 1 .. Len(s)]
  BY <1>3, <1>4
<1>6. \A j, k \in 1 .. Len(r) : f[j] = f[k] => j = k
  BY <1>3, <1>4
<1>7. \A j \in 1 .. Len(r) : r[j] = s[f[j]]
  BY <1>2, <1>3, <1>4 DEF WithoutElement
<1> QED BY <1>2, <1>5, <1>6, <1>7, EnteredFrom

\* The stops of a saved trip, each in its own row.
LEMMA EnteredLoaded ==
  ASSUME NEW s \in Seq(Stops), \A i, j \in 1 .. Len(s) : s[i] = s[j] => i = j, NEW x \in BOOLEAN,
         NEW r, r = [i \in DOMAIN s |-> [stop |-> s[i], row |-> s[i]]]
  PROVE  r \in Seq(Entries) /\ Entered(r, s, x)
<1>1. Len(s) \in Nat /\ DOMAIN s = 1 .. Len(s) /\ \A i \in 1 .. Len(s) : s[i] \in Stops
  OBVIOUS
<1>2. r = [i \in 1 .. Len(s) |-> [stop |-> s[i], row |-> s[i]]]
  BY <1>1
<1>3. \A i \in 1 .. Len(s) : r[i] \in Entries /\ r[i].row = s[i] /\ r[i].stop = s[i]
  BY <1>1, <1>2 DEF Entries
<1>4. r \in Seq(Entries) /\ Len(r) = Len(s)
  BY <1>1, <1>2, <1>3
<1> QED BY <1>3, <1>4 DEF Entered

\* The details of a review, that go to the stops by their position.
Detailed(s, q) == [i \in DOMAIN s |->
  IF i \in DOMAIN q THEN [s[i] EXCEPT !.stop = q[i].stop] ELSE s[i]]

\* Rows stay, and without a change of the form during the review the stops do too.
LEMMA EnteredReviewed ==
  ASSUME NEW s \in Seq(Entries), NEW known, NEW x \in BOOLEAN, Entered(s, known, x),
         NEW q \in Seq(Entries), ~x => q = s,
         NEW r, r = Detailed(s, q)
  PROVE  /\ r \in Seq(Entries) /\ Entered(r, known, x) /\ Len(r) = Len(s)
         /\ \A i \in 1 .. Len(s) : r[i].row = s[i].row /\ (~x => r[i] = s[i])
<1>1. Len(s) \in Nat /\ DOMAIN s = 1 .. Len(s) /\ \A i \in 1 .. Len(s) : s[i] \in Entries
  OBVIOUS
<1>2. \A i \in DOMAIN q : q[i] \in Entries
  OBVIOUS
<1>3. \A c \in Entries, d \in Entries :
        /\ [c EXCEPT !.stop = d.stop] \in Entries /\ [c EXCEPT !.stop = d.stop].row = c.row
        /\ d = c => [c EXCEPT !.stop = d.stop] = c
  BY DEF Entries
<1>4. \A i \in 1 .. Len(s) : r[i] \in Entries /\ r[i].row = s[i].row /\ (~x => r[i] = s[i])
  BY <1>1, <1>2, <1>3 DEF Detailed
<1>5. r = [i \in 1 .. Len(s) |-> r[i]]
  BY <1>1 DEF Detailed
<1>6. r \in Seq(Entries) /\ Len(r) = Len(s)
  BY <1>1, <1>4, <1>5
<1>7. Entered(r, known, x)
  BY <1>4, <1>6 DEF Entered
<1> QED BY <1>4, <1>6, <1>7

\* The page after a step: its phase.
LEMMA GuideIs ==
  ASSUME GuideOk, NEW p \in GuidePhases, Phase(p)
  PROVE  guide' \in Guides /\ guide'.phase = p /\ guide'.step = guide.step /\ guide'.url = guide.url
BY DEF GuideOk, Guides, Phase

\* What is told stays true of a trip, a link and a form that stay.
LEMMA ToldRests ==
  ASSUME ToldOk, UNCHANGED <<saved, link, plan, told, crossed>>
  PROVE  ToldOk'
BY DEF ToldOk, SavedAsPlanned, SavedStops, SavedDates, List, Total, Under, saved

\* What the page knows of a trip that stays.
LEMMA LinkRests ==
  ASSUME LinkOk, UNCHANGED <<saved, link>>
  PROVE  LinkOk'
BY DEF LinkOk, PageKnowsTrip, SavedStops, SavedDates, List, Total, Under, saved

\* The steps that turn the page, and end or begin a review.
LEMMA PageTurns ==
  ASSUME IInv, GuidedParts,
         PlanUnavailable \/ TryAgain \/ BackToDetails \/ Review \/ ReviewFails \/ SaveFails
  PROVE  IInv' /\ GuidedParts'
<1>1. UNCHANGED <<saved, plan, link, told, crossed>>
  BY DEF PlanUnavailable, TryAgain, BackToDetails, Review, ReviewFails, SaveFails
<1>2. IInv' /\ LinkOk' /\ ToldOk'
  BY <1>1, QuietRenews, LinkRests, ToldRests DEF GuidedParts
<1>3. PlanOk'
  <2>1. guide'.phase \in {"loading", "unavailable"} =>
          guide.phase \in {"loading", "unavailable"} /\ guide'.url = guide.url
    <3>1. CASE PlanUnavailable
      BY <3>1, GuideIs DEF PlanUnavailable, GuidedParts, GuidePhases
    <3>2. CASE TryAgain
      BY <3>2, GuideIs DEF TryAgain, GuidedParts, GuidePhases
    <3>3. CASE BackToDetails
      BY <3>3 DEF BackToDetails, GuidedParts, GuideOk, Guides
    <3>4. CASE Review
      BY <3>4, GuideIs DEF Review, GuidedParts, GuidePhases
    <3>5. CASE ReviewFails \/ SaveFails
      BY <3>5, GuideIs DEF ReviewFails, SaveFails, SaveEnds, GuidedParts, GuidePhases
    <3> QED BY <3>1, <3>2, <3>3, <3>4, <3>5
  <2> QED BY <1>1, <2>1 DEF GuidedParts, PlanOk
<1>4. GuideOk' /\ WorkOk'
  <2>1. CASE PlanUnavailable
    <3>1. work = NoWork
      BY <2>1, WorkKinds DEF PlanUnavailable, GuidedParts
    <3> QED BY <1>1, <2>1, <3>1, GuideIs DEF PlanUnavailable, GuidedParts, GuideOk, GuidePhases,
        WorkOk, NoWork
  <2>2. CASE TryAgain
    <3>1. work = NoWork
      BY <2>2, WorkKinds DEF TryAgain, GuidedParts
    <3> QED BY <1>1, <2>2, <3>1, GuideIs DEF TryAgain, GuidedParts, GuideOk, GuidePhases, WorkOk,
        NoWork
  <2>3. CASE BackToDetails
    <3>1. work = NoWork
      BY <2>3, WorkKinds DEF BackToDetails, GuidedParts
    <3>2. guide' \in Guides
      BY <2>3 DEF BackToDetails, GuidedParts, GuideOk, Guides
    <3> QED BY <1>1, <2>3, <3>1, <3>2 DEF BackToDetails, GuidedParts, GuideOk, WorkOk, NoWork
  <2>4. CASE Review
    <3>1. work' \in ReviewWork /\ work'.asked = plan.chosen
      BY <2>4 DEF Review, ReviewWork, GuidedParts, PlanOk, Plans
    <3>2. guide' \in Guides /\ guide'.phase = "reviewing"
      BY <2>4, GuideIs DEF Review, GuidedParts, GuidePhases
    <3> QED BY <1>1, <3>1, <3>2 DEF GuidedParts, GuideOk, WorkOk, Reviews
  <2>5. CASE ReviewFails \/ SaveFails
    <3>1. work' = NoWork /\ Phase("ready")
      BY <2>5 DEF ReviewFails, SaveFails, SaveEnds
    <3>2. guide' \in Guides
      BY <3>1, GuideIs DEF GuidedParts, GuidePhases
    <3> QED BY <1>1, <3>1, <3>2 DEF GuidedParts, GuideOk, WorkOk, NoWork
  <2> QED BY <2>1, <2>2, <2>3, <2>4, <2>5
<1> QED BY <1>2, <1>3, <1>4 DEF GuidedParts

\* An empty form.
LEMMA NoPlanIs == NoPlan \in Plans /\ \A known, x : Entered(NoPlan.chosen, known, x)
<1>1. NoPlan = [from |-> 1, to |-> 0, chosen |-> <<>>] /\ 1 .. 0 = {}
  BY DEF NoPlan
<1>2. NoPlan \in Plans /\ NoPlan.chosen = <<>>
  BY <1>1, CalendarAssumption DEF Plans
<1>3. Len(<<>>) = 0
  OBVIOUS
<1> QED BY <1>1, <1>2, <1>3 DEF Entered

\* A page that knows no trip.
LEMMA NoLinkIs == NoLink \in Links /\ ~NoLink.id /\ NoLink.known = <<>> /\ NoLink.days = {}
BY DEF NoLink, Links

\* The page is opened again.
LEMMA RevisitKeeps ==
  ASSUME IInv, GuidedParts, Revisit
  PROVE  IInv' /\ GuidedParts'
<1>1. PICK url \in BOOLEAN : guide' = [phase |-> "loading", step |-> "details", url |-> url]
  BY DEF Revisit
<1>2. /\ plan' = NoPlan /\ link' = NoLink /\ work' = NoWork /\ told' = "none" /\ crossed' = FALSE
      /\ UNCHANGED saved
  BY DEF Revisit
<1>3. GuideOk'
  BY <1>1, <1>2 DEF GuideOk, Guides, GuidePhases
<1>4. LinkOk' /\ PlanOk'
  BY <1>2, NoLinkIs, NoPlanIs DEF LinkOk, PageKnowsTrip, PlanOk
<1>5. WorkOk' /\ ToldOk'
  BY <1>2 DEF WorkOk, NoWork, ToldOk, SavedAsPlanned
<1> QED BY <1>2, <1>3, <1>4, <1>5, QuietRenews DEF GuidedParts

\* The saved trip, or an empty form.
LEMMA PlanLoadedKeeps ==
  ASSUME IInv, GuidedParts, PlanLoaded
  PROVE  IInv' /\ GuidedParts'
<1>1. UNCHANGED <<saved, work>> /\ told' = "none" /\ crossed' = FALSE /\ work = NoWork
  BY WorkKinds DEF PlanLoaded, GuidedParts
<1>2. IInv' /\ WorkOk' /\ ToldOk'
  BY <1>1, QuietRenews DEF WorkOk, NoWork, ToldOk, SavedAsPlanned
<1>3. GuideOk'
  BY <1>1, GuideIs DEF PlanLoaded, GuidePhases, GuidedParts, GuideOk
<1>4. guide'.phase = "ready"
  BY GuideIs DEF PlanLoaded, GuidePhases, GuidedParts
<1>5. LinkOk' /\ PlanOk'
  <2>1. CASE guide.url
    <3>1. PICK s : s = SavedStops
      OBVIOUS
    <3>2. s \in Seq(Stops) /\ \A i, j \in 1 .. Len(s) : s[i] = s[j] => i = j
      BY <3>1, StopsAre, StopsOnce
    <3>3. PICK r : r = [i \in DOMAIN s |-> [stop |-> s[i], row |-> s[i]]]
      OBVIOUS
    <3>4. r \in Seq(Entries) /\ Entered(r, s, FALSE)
      BY <3>2, <3>3, EnteredLoaded
    <3>5. /\ link' = [id |-> TRUE, rev |-> revision, known |-> s, days |-> SavedDates]
          /\ plan' = [from |-> range.from, to |-> range.to, chosen |-> r]
      BY <2>1, <3>1, <3>3 DEF PlanLoaded, Link
    <3>6. SavedStops' = s /\ SavedDates' = SavedDates /\ revision' = revision
      BY <1>1, <3>1 DEF SavedStops, SavedDates, List, Total, Under, saved
    <3>7. link' \in Links /\ link'.id
      BY <3>2, <3>5, DatesAreIn DEF Links, IInv, TypeOK
    <3>8. LinkOk'
      BY <3>5, <3>6, <3>7 DEF LinkOk, PageKnowsTrip, IInv, TypeOK
    <3>9. plan' \in Plans
      BY <3>4, <3>5 DEF Plans, IInv, TypeOK
    <3> QED BY <1>1, <1>4, <3>4, <3>5, <3>8, <3>9 DEF PlanOk
  <2>2. CASE ~guide.url
    <3>1. UNCHANGED <<link, plan>>
      BY <2>2 DEF PlanLoaded
    <3>2. LinkOk'
      BY <1>1, <3>1, LinkRests DEF GuidedParts
    <3>3. plan' = NoPlan
      BY <2>2, <3>1 DEF GuidedParts, PlanOk, PlanLoaded
    <3> QED BY <1>4, <3>2, <3>3, NoPlanIs DEF PlanOk
  <2> QED BY <2>1, <2>2
<1> QED BY <1>2, <1>3, <1>5 DEF GuidedParts

\* A form with other entries; while a review is awaited, that is known.
LEMMA EditKeeps ==
  ASSUME IInv, GuidedParts, NEW form \in Plans, Entered(form.chosen, link.known, crossed),
         Edit(form)
  PROVE  IInv' /\ GuidedParts'
<1>1. /\ guide.phase \in {"ready", "reviewing"} /\ plan' = form /\ told' = "none"
      /\ crossed' = (crossed \/ guide.phase = "reviewing")
      /\ UNCHANGED <<saved, guide, link, work>>
  BY DEF Edit
<1>2. IInv' /\ LinkOk'
  BY <1>1, QuietRenews, LinkRests DEF GuidedParts
<1>3. GuideOk' /\ ToldOk'
  BY <1>1 DEF GuidedParts, GuideOk, ToldOk, SavedAsPlanned
<1>4. PlanOk'
  <2>1. Entered(form.chosen, link.known, crossed')
    BY <1>1 DEF Entered
  <2> QED BY <1>1, <2>1 DEF PlanOk
<1>5. WorkOk'
  <2>1. CASE work = NoWork
    BY <1>1, <2>1 DEF WorkOk, NoWork
  <2>2. CASE Reviews
    BY <1>1, <2>2 DEF WorkOk, Reviews
  <2>3. ~Saves
    BY <1>1 DEF Saves
  <2> QED BY <2>1, <2>2, <2>3 DEF GuidedParts, WorkOk
<1> QED BY <1>2, <1>3, <1>4, <1>5 DEF GuidedParts

\* Every way to change the form keeps its entries in order.
LEMMA FormsKeep ==
  ASSUME IInv, GuidedParts, Forms
  PROVE  IInv' /\ GuidedParts'
<1>1. PICK f \in Plans, s \in Seq(Entries), x \in BOOLEAN, l \in Seq(Stops) :
        f = plan /\ s = f.chosen /\ x = crossed /\ l = link.known
  BY DEF GuidedParts, PlanOk, GuideOk, Plans, LinkOk, Links
<1>2. Entered(s, l, x)
  BY <1>1 DEF GuidedParts, PlanOk
<1>3. DOMAIN s = 1 .. Len(s) /\ Len(s) \in Nat
  OBVIOUS
<1>4. ASSUME NEW r \in Seq(Entries), Entered(r, l, x), NEW g, g = [f EXCEPT !.chosen = r], Edit(g)
      PROVE  IInv' /\ GuidedParts'
  <2>1. g \in Plans /\ g.chosen = r
    BY <1>4 DEF Plans
  <2> QED BY <1>1, <1>4, <2>1, EditKeeps
<1>5. CASE Update
  <2>1. PICK r \in Ranges : Edit([plan EXCEPT !.from = r.from, !.to = r.to])
    BY <1>5 DEF Update
  <2>2. PICK a \in Dates, b \in Dates : a = r.from /\ b = r.to
    BY FormAssumption
  <2>3. PICK g : g = [f EXCEPT !.from = a, !.to = b]
    OBVIOUS
  <2>4. Edit(g)
    BY <1>1, <2>1, <2>2, <2>3
  <2>5. g \in Plans /\ g.chosen = s
    BY <1>1, <2>3 DEF Plans
  <2> QED BY <1>1, <1>2, <2>4, <2>5, EditKeeps
<1>6. CASE AddDestination
  <2>1. PICK y \in Stops : /\ \A e \in ToSet(plan.chosen) : e.stop # y
                           /\ Edit([plan EXCEPT !.chosen = Append(@, [stop |-> y, row |-> None])])
    BY <1>6 DEF AddDestination
  <2>2. PICK c : c = [stop |-> y, row |-> None]
    OBVIOUS
  <2>3. c \in Entries /\ c.row = None /\ c.stop = y
    BY <2>2 DEF Entries
  <2>4. \A i \in 1 .. Len(s) : s[i].stop # c.stop
    BY <1>1, <1>3, <2>1, <2>3 DEF ToSet
  <2>5. PICK r : r = Append(s, c)
    OBVIOUS
  <2>6. r \in Seq(Entries) /\ Entered(r, l, x)
    BY <1>2, <2>3, <2>4, <2>5, EnteredMore
  <2>7. PICK g : g = [f EXCEPT !.chosen = r]
    OBVIOUS
  <2>8. Edit(g)
    BY <1>1, <2>1, <2>2, <2>5, <2>7
  <2> QED BY <1>4, <2>6, <2>7, <2>8
<1>7. CASE MoveDestination
  <2>1. PICK i \in 1 .. Len(s) - 1 :
          Edit([f EXCEPT !.chosen = [@ EXCEPT ![i] = s[i + 1], ![i + 1] = s[i]]])
    BY <1>1, <1>7 DEF MoveDestination
  <2>3. PICK r : r = Swapped(s, i)
    OBVIOUS
  <2>4. r \in Seq(Entries) /\ Entered(r, l, x)
    BY <1>2, <2>3, EnteredSwapped
  <2>5. PICK g : g = [f EXCEPT !.chosen = r]
    OBVIOUS
  <2>6. Edit(g)
    BY <1>1, <2>1, <2>3, <2>5 DEF Swapped
  <2> QED BY <1>4, <2>4, <2>5, <2>6
<1>8. CASE RemoveDestination
  <2>1. PICK i \in 1 .. Len(s) : Edit([f EXCEPT !.chosen = RemoveAt(@, i)])
    BY <1>1, <1>3, <1>8 DEF RemoveDestination
  <2>2. PICK r : r = RemoveAt(s, i)
    OBVIOUS
  <2>3. r \in Seq(Entries) /\ Entered(r, l, x)
    BY <1>2, <2>2, EnteredLess
  <2>4. PICK g : g = [f EXCEPT !.chosen = r]
    OBVIOUS
  <2>5. Edit(g)
    BY <1>1, <2>1, <2>2, <2>4
  <2> QED BY <1>4, <2>3, <2>4, <2>5
<1> QED BY <1>5, <1>6, <1>7, <1>8 DEF Forms

\* The details arrive: the rows stay, and the stops when the form did.
LEMMA ReviewedKeeps ==
  ASSUME IInv, GuidedParts, Reviewed
  PROVE  IInv' /\ GuidedParts'
<1>1. PICK f \in Plans, s \in Seq(Entries), x \in BOOLEAN, l \in Seq(Stops) :
        f = plan /\ s = f.chosen /\ x = crossed /\ l = link.known
  BY DEF GuidedParts, PlanOk, GuideOk, Plans, LinkOk, Links
<1>2. Entered(s, l, x)
  BY <1>1 DEF GuidedParts, PlanOk
<1>3. Reviews
  BY WorkKinds DEF Reviewed, GuidedParts
<1>4. PICK q \in Seq(Entries) : q = work.asked /\ (~x => q = s)
  BY <1>1, <1>3 DEF Reviews, ReviewWork
<1>5. PICK r : r = Detailed(s, q)
  OBVIOUS
<1>6. /\ r \in Seq(Entries) /\ Entered(r, l, x) /\ Len(r) = Len(s)
      /\ \A i \in 1 .. Len(s) : r[i].row = s[i].row /\ (~x => r[i] = s[i])
  BY <1>2, <1>4, <1>5, EnteredReviewed
<1>7. plan' = [f EXCEPT !.chosen = r]
  BY <1>1, <1>4, <1>5 DEF Reviewed, Detailed
<1>8. plan' \in Plans /\ plan'.chosen = r /\ plan'.from = plan.from /\ plan'.to = plan.to
  BY <1>1, <1>6, <1>7 DEF Plans
<1>9. /\ guide' = [guide EXCEPT !.phase = "ready", !.step = "review"] /\ work' = NoWork
      /\ UNCHANGED <<saved, link, told, crossed>>
  BY DEF Reviewed
<1>10. guide' \in Guides /\ guide'.phase = "ready"
  BY <1>9 DEF GuidedParts, GuideOk, Guides, GuidePhases
<1>11. GuideOk' /\ PlanOk' /\ WorkOk'
  BY <1>1, <1>6, <1>8, <1>9, <1>10 DEF GuidedParts, GuideOk, PlanOk, WorkOk, NoWork
<1>12. IInv' /\ LinkOk'
  BY <1>9, QuietRenews, LinkRests DEF GuidedParts
<1>13. ToldOk'
  <2>1. SavedStops' = SavedStops /\ SavedDates' = SavedDates
    BY <1>9 DEF SavedStops, SavedDates, List, Total, Under, saved
  <2>2. DOMAIN s = 1 .. Len(s) /\ DOMAIN r = 1 .. Len(s)
    BY <1>6
  <2>3. [i \in DOMAIN s |-> IF x THEN s[i].row ELSE s[i].stop]
          = [i \in DOMAIN r |-> IF x THEN r[i].row ELSE r[i].stop]
    BY <1>6, <2>2
  <2>4. SavedAsPlanned'
    BY <1>1, <1>8, <1>9, <2>1, <2>3 DEF GuidedParts, ToldOk, SavedAsPlanned, saved
  <2> QED BY <1>9, <2>4 DEF GuidedParts, ToldOk
<1> QED BY <1>11, <1>12, <1>13 DEF GuidedParts

\* A save begins with what the page shows and knows.
LEMMA PersistKeeps ==
  ASSUME IInv, GuidedParts, NEW opens \in BOOLEAN, Persist(opens)
  PROVE  IInv' /\ GuidedParts'
<1>1. /\ Valid /\ Phase("saving") /\ told' = "none" /\ UNCHANGED <<saved, plan, link, crossed>>
      /\ work' = [kind |-> "save", open |-> opens, trip |-> FALSE,
                  list |-> plan.chosen, known |-> link.known, days |-> link.days]
  BY DEF Persist
<1>2. guide' \in Guides /\ guide'.phase = "saving"
  BY <1>1, GuideIs DEF GuidedParts, GuidePhases
<1>3. IInv' /\ LinkOk'
  BY <1>1, QuietRenews, LinkRests DEF GuidedParts
<1>4. GuideOk' /\ PlanOk' /\ ToldOk'
  BY <1>1, <1>2 DEF GuidedParts, GuideOk, PlanOk, ToldOk, SavedAsPlanned
<1>5. work' \in SaveWork
  BY <1>1 DEF SaveWork, GuidedParts, PlanOk, Plans, LinkOk, Links
<1>6. Saves'
  BY <1>1, <1>2, <1>5 DEF Saves, Valid
<1> QED BY <1>3, <1>4, <1>6 DEF GuidedParts, WorkOk

-----------------------------------------------------------------------------
(* The requests of a save.                                                 *)

\* A nonempty set of numbers has a least one.
LEMMA LeastNumber ==
  ASSUME NEW T, T \subseteq Nat, T # {}
  PROVE  \E n \in T : \A m \in T : n <= m
<1>1. IsWellFoundedOn(OpToRel(<, Nat), Nat)
  BY NatLessThanWellFounded
<1>2. PICK n \in T : \A m \in T : ~(<<m, n>> \in OpToRel(<, Nat))
  BY <1>1, WFMin
<1>3. \A m \in T : ~(m < n)
  BY <1>2 DEF OpToRel
<1> QED BY <1>3

\* Below a bound there is a greatest one.
LEMMA GreatestNumber ==
  ASSUME NEW n \in Nat, NEW T, T \subseteq 1 .. n, T # {}
  PROVE  \E k \in T : \A m \in T : m <= k
<1>1. PICK S : S = {n - m : m \in T}
  OBVIOUS
<1>2. S \subseteq Nat /\ S # {}
  <2>1. \A m \in T : n - m \in Nat
    OBVIOUS
  <2>2. \E m : m \in T
    OBVIOUS
  <2> QED BY <1>1, <2>1, <2>2
<1>3. PICK a \in S : \A b \in S : a <= b
  BY <1>2, LeastNumber
<1>4. PICK k \in T : a = n - k
  BY <1>1
<1>5. \A m \in T : n - k <= n - m
  BY <1>1, <1>3, <1>4
<1> QED BY <1>5

\* First is the least of them.
LEMMA FirstIs ==
  ASSUME NEW T, T \subseteq Nat, T # {}
  PROVE  First(T) \in T /\ \A m \in T : First(T) <= m
BY LeastNumber DEF First

\* The list and what is known agree before a position.
InPlace(w, a) == \A j \in 1 .. a - 1 : j <= Len(w.known) /\ w.known[j] = w.list[j].row

SaveOps == {"trip", "drop", "add", "move", "day", "done"}

\* What is asked for, and what was done before.
NextIs(w, c) ==
  /\ c.op \in SaveOps /\ (c.op = "trip" <=> ~w.trip)
  /\ "row" \in DOMAIN c <=> c.op \in {"drop", "add", "move"}
  /\ c.op = "drop" => c.row \notin KeptRows(w) /\ \E k \in 1 .. Len(w.known) : c.row = w.known[k]
  /\ c.op \notin {"trip", "drop"} => \A k \in 1 .. Len(w.known) : w.known[k] \in KeptRows(w)
  /\ c.op \in {"add", "move"} => c.at \in 1 .. Len(w.list) /\ InPlace(w, c.at)
  /\ c.op = "add" => w.list[c.at].row = None /\ c.row = w.list[c.at].stop
  /\ c.op = "move" => w.list[c.at].row # None /\ c.row = w.list[c.at].row
  /\ c.op \in {"day", "done"} => InPlace(w, Len(w.list) + 1)
  /\ c.op = "day" => /\ c.date \in plan.from .. plan.to /\ c.date \notin w.days
                     /\ \A n \in plan.from .. c.date - 1 : n \in w.days
  /\ c.op = "done" /\ w.open => plan.from .. plan.to \subseteq w.days

\* The next request of a save.
LEMMA NextCallIs ==
  ASSUME NEW w \in SaveWork, plan \in Plans, NEW c, c = NextCall(w)
  PROVE  NextIs(w, c)
<1> DEFINE drop == {j \in DOMAIN w.known : w.known[j] \notin KeptRows(w)}
           days == {n \in plan.from .. plan.to : n \notin w.days}
           i == First(Misplaced(w))
           k == CHOOSE j \in drop : \A m \in drop : m <= j
<1>1. /\ w.trip \in BOOLEAN /\ w.open \in BOOLEAN
      /\ w.known \in Seq(Stops) /\ w.list \in Seq(Entries)
      /\ plan.from \in Nat /\ plan.to \in Nat
  <2>1. Dates \subseteq Nat
    BY RowsAssumption
  <2>2. plan.from \in Dates /\ plan.to \in Dates \union {0}
    BY DEF Plans
  <2>3. plan.from \in Nat /\ (plan.to \in Dates \/ plan.to = 0)
    BY <2>1, <2>2
  <2>4. /\ w.trip \in BOOLEAN /\ w.open \in BOOLEAN
        /\ w.known \in Seq(Stops) /\ w.list \in Seq(Entries)
    BY DEF SaveWork
  <2>5. plan.to \in Nat
    <3>1. CASE plan.to = 0
      BY <3>1
    <3>2. CASE plan.to \in Dates
      BY <2>1, <3>2
    <3> QED BY <2>3, <3>1, <3>2
  <2> QED BY <2>3, <2>4, <2>5
<1>2. /\ Len(w.known) \in Nat /\ DOMAIN w.known = 1 .. Len(w.known)
      /\ Len(w.list) \in Nat /\ DOMAIN w.list = 1 .. Len(w.list)
  BY <1>1
<1>3. drop # {} => k \in drop
  <2>1. drop \subseteq 1 .. Len(w.known)
    BY <1>2
  <2> HIDE DEF drop
  <2> QED BY <1>2, <2>1, GreatestNumber
<1>4. drop = {} => \A j \in 1 .. Len(w.known) : w.known[j] \in KeptRows(w)
  BY <1>2
<1>5. Misplaced(w) \subseteq 1 .. Len(w.list)
  BY <1>2 DEF Misplaced
<1>6. ASSUME NEW a \in Nat, a <= Len(w.list) + 1, \A m \in Misplaced(w) : a <= m
      PROVE  InPlace(w, a)
  <2>1. ASSUME NEW j \in 1 .. a - 1 PROVE j <= Len(w.known) /\ w.known[j] = w.list[j].row
    <3>1. j \in 1 .. Len(w.list) /\ j \notin Misplaced(w)
      BY <1>2, <1>5, <1>6
    <3> QED BY <1>2, <3>1 DEF Misplaced
  <2> QED BY <2>1 DEF InPlace
<1>7. Misplaced(w) # {} => i \in Misplaced(w) /\ i \in 1 .. Len(w.list) /\ InPlace(w, i)
  <2>1. Misplaced(w) # {} => i \in Misplaced(w) /\ \A m \in Misplaced(w) : i <= m
    BY <1>5, FirstIs
  <2> HIDE DEF i
  <2> QED BY <1>2, <1>5, <1>6, <2>1
<1>8. Misplaced(w) = {} => InPlace(w, Len(w.list) + 1)
  BY <1>2, <1>6
<1>9. days # {} => /\ First(days) \in plan.from .. plan.to /\ First(days) \notin w.days
                   /\ \A n \in plan.from .. First(days) - 1 : n \in w.days
  <2>1. days \subseteq Nat
    BY <1>1
  <2>2. days # {} => First(days) \in days /\ \A m \in days : First(days) <= m
    BY <2>1, FirstIs
  <2>3. ASSUME days # {}, NEW n \in plan.from .. First(days) - 1 PROVE n \in w.days
    <3>1. First(days) \in plan.from .. plan.to
      BY <2>2, <2>3
    <3>2. n \in plan.from .. plan.to /\ ~(First(days) <= n)
      BY <1>1, <2>3, <3>1
    <3>3. n \notin days
      BY <2>2, <2>3, <3>2
    <3> QED BY <3>2, <3>3
  <2> QED BY <2>2, <2>3
<1>10. days = {} => plan.from .. plan.to \subseteq w.days
  OBVIOUS
<1>11. CASE ~w.trip
  <2>1. c = [op |-> "trip"]
    BY <1>11 DEF NextCall
  <2> QED BY <1>11, <2>1 DEF NextIs, SaveOps
<1>12. CASE w.trip /\ drop # {}
  <2>1. c = [op |-> "drop", row |-> w.known[k]]
    BY <1>12 DEF NextCall
  <2>2. k \in 1 .. Len(w.known) /\ w.known[k] \notin KeptRows(w)
    BY <1>2, <1>3, <1>12
  <2> HIDE DEF k
  <2> QED BY <1>12, <2>1, <2>2 DEF NextIs, SaveOps
<1>13. CASE w.trip /\ drop = {} /\ Misplaced(w) # {}
  <2>1. c = IF w.list[i].row = None
            THEN [op |-> "add", row |-> w.list[i].stop, at |-> i]
            ELSE [op |-> "move", row |-> w.list[i].row, at |-> i]
    BY <1>13 DEF NextCall
  <2>2. i \in 1 .. Len(w.list) /\ InPlace(w, i)
        /\ \A j \in 1 .. Len(w.known) : w.known[j] \in KeptRows(w)
    BY <1>4, <1>7, <1>13
  <2> HIDE DEF i
  <2>3. CASE w.list[i].row = None
    BY <1>13, <2>1, <2>2, <2>3 DEF NextIs, SaveOps
  <2>4. CASE w.list[i].row # None
    BY <1>13, <2>1, <2>2, <2>4 DEF NextIs, SaveOps
  <2> QED BY <2>3, <2>4
<1>14. CASE w.trip /\ drop = {} /\ Misplaced(w) = {}
  <2>1. c = IF w.open /\ days # {} THEN [op |-> "day", date |-> First(days)] ELSE [op |-> "done"]
    BY <1>14 DEF NextCall
  <2>2. InPlace(w, Len(w.list) + 1) /\ \A j \in 1 .. Len(w.known) : w.known[j] \in KeptRows(w)
    BY <1>4, <1>8, <1>14
  <2>3. CASE w.open /\ days # {}
    <3>1. c = [op |-> "day", date |-> First(days)]
      BY <2>1, <2>3
    <3> QED BY <1>9, <1>14, <2>2, <2>3, <3>1 DEF NextIs, SaveOps
  <2>4. CASE ~(w.open /\ days # {})
    <3>1. c = [op |-> "done"]
      BY <2>1, <2>4
    <3> QED BY <1>10, <1>14, <2>2, <2>4, <3>1 DEF NextIs, SaveOps
  <2> QED BY <2>3, <2>4
<1> QED BY <1>1, <1>11, <1>12, <1>13, <1>14

\* The value y is in the list.
Holds(s, y) == \E j \in 1 .. Len(s) : s[j] = y

\* Removing one leaves the others.
LEMMA HoldsLess ==
  ASSUME NEW S, NEW s \in Seq(S), NEW k \in 1 .. Len(s), NEW r, r = RemoveAt(s, k),
         NEW y, Holds(s, y), y # s[k]
  PROVE  r \in Seq(S) /\ Holds(r, y)
<1>1. r = Ordered!RemoveAt(s, k)
  BY SameEdits
<1>2. r \in Seq(S) /\ WithoutElement(s, k, r)
  BY <1>1, RemoveAtElements
<1>3. PICK j \in 1 .. Len(s) : s[j] = y
  BY DEF Holds
<1>4. Len(s) \in Nat /\ j # k
  BY <1>3
<1>5. CASE j < k
  <2>1. j \in 1 .. Len(r) /\ r[j] = y
    BY <1>2, <1>3, <1>4, <1>5 DEF WithoutElement
  <2> QED BY <1>2, <2>1 DEF Holds
<1>6. CASE j > k
  <2>1. j - 1 \in 1 .. Len(r) /\ r[j - 1] = y
    BY <1>2, <1>3, <1>4, <1>6 DEF WithoutElement
  <2> QED BY <1>2, <2>1 DEF Holds
<1> QED BY <1>4, <1>5, <1>6

\* Inserting one keeps them.
LEMMA HoldsMore ==
  ASSUME NEW S, NEW s \in Seq(S), NEW x \in S, NEW k \in 1 .. Len(s) + 1, NEW r,
         r = InsertAt(s, k, x)
  PROVE  Holds(r, x) /\ \A y : Holds(s, y) => Holds(r, y)
<1>1. r = Ordered!InsertAt(s, k, x)
  BY SameEdits
<1>2. r \in Seq(S) /\ WithElement(s, k, x, r)
  BY <1>1, InsertAtElements
<1>3. Len(s) \in Nat /\ Len(r) = Len(s) + 1 /\ r[k] = x
  BY <1>2 DEF WithElement
<1>4. Holds(r, x)
  BY <1>3 DEF Holds
<1>5. ASSUME NEW y, Holds(s, y) PROVE Holds(r, y)
  <2>1. PICK j \in 1 .. Len(s) : s[j] = y
    BY <1>5 DEF Holds
  <2>2. CASE j < k
    <3>1. j \in 1 .. Len(r) /\ r[j] = y
      BY <1>2, <1>3, <2>1, <2>2 DEF WithElement
    <3> QED BY <3>1 DEF Holds
  <2>3. CASE j >= k
    <3>1. j + 1 \in k + 1 .. Len(s) + 1 /\ (j + 1) - 1 = j
      BY <1>3, <2>1, <2>3
    <3>2. j + 1 \in 1 .. Len(r) /\ r[j + 1] = y
      BY <1>2, <1>3, <2>1, <3>1 DEF WithElement
    <3> QED BY <3>2 DEF Holds
  <2> QED BY <2>2, <2>3
<1> QED BY <1>4, <1>5

\* Choices stay entered when what is known of their rows stays known.
LEMMA EnteredStays ==
  ASSUME NEW s \in Seq(Entries), NEW known, NEW x \in BOOLEAN, Entered(s, known, x), NEW new,
         \A i \in 1 .. Len(s) : Holds(known, s[i].row) => Holds(new, s[i].row)
  PROVE  Entered(s, new, x)
BY DEF Entered, Holds

\* A stop that got its row.
Rowed(s, k, y) == [s EXCEPT ![k] = [stop |-> s[k].stop, row |-> y]]

\* It is still chosen once, and its row is known.
LEMMA EnteredSaved ==
  ASSUME NEW s \in Seq(Entries), NEW known, NEW x \in BOOLEAN, Entered(s, known, x), NEW new,
         \A y : Holds(known, y) => Holds(new, y),
         NEW k \in 1 .. Len(s), Holds(new, s[k].stop), NEW r, r = Rowed(s, k, s[k].stop)
  PROVE  r \in Seq(Entries) /\ Entered(r, new, x)
<1>1. Len(s) \in Nat /\ DOMAIN s = 1 .. Len(s) /\ \A i \in 1 .. Len(s) : s[i] \in Entries
  OBVIOUS
<1>2. \A i \in 1 .. Len(s) : r[i] = IF i = k THEN [stop |-> s[k].stop, row |-> s[k].stop] ELSE s[i]
  BY <1>1 DEF Rowed
<1>3. \A i \in 1 .. Len(s) : /\ r[i] \in Entries /\ r[i].stop = s[i].stop
                             /\ r[i].row = IF i = k THEN s[k].stop ELSE s[i].row
  BY <1>1, <1>2 DEF Entries
<1>4. r = [i \in 1 .. Len(s) |-> r[i]]
  BY <1>1 DEF Rowed
<1>5. r \in Seq(Entries) /\ Len(r) = Len(s)
  BY <1>1, <1>3, <1>4
<1>6. \A i \in 1 .. Len(r) : r[i].row = None \/ Holds(new, r[i].row)
  <2>1. ASSUME NEW i \in 1 .. Len(s), i # k PROVE s[i].row = None \/ Holds(new, s[i].row)
    <3>1. s[i].row = None \/ Holds(known, s[i].row)
      BY DEF Entered, Holds
    <3> QED BY <3>1
  <2>2. r[k].row = s[k].stop
    BY <1>3
  <2> QED BY <1>3, <1>5, <2>1, <2>2
<1>7. ~x => /\ \A i \in 1 .. Len(r) : r[i].row \in {None, r[i].stop}
            /\ \A i, j \in 1 .. Len(r) : r[i].stop = r[j].stop => i = j
  BY <1>3, <1>5 DEF Entered
<1> QED BY <1>5, <1>6, <1>7 DEF Entered, Holds

\* What the save makes of an answer, v, agrees with what the answer's request made of
\* the trip.
Agreed(v) ==
  /\ IInv' /\ exists' /\ range' = [from |-> plan.from, to |-> plan.to]
  /\ link.id => link.rev = revision /\ Advanced
  /\ v = [kind |-> "save", open |-> work.open, trip |-> TRUE, list |-> v.list,
          known |-> SavedStops', days |-> SavedDates']
  /\ v.list \in Seq(Entries) /\ Entered(v.list, SavedStops', crossed)

\* The parts of a save after an answer.
LEMMA AfterIs ==
  ASSUME NEW w \in SaveWork, NEW c, NEW v, v = After(w, c)
  PROVE  /\ v = [kind |-> "save", open |-> w.open, trip |-> TRUE, list |-> v.list,
                 known |-> v.known, days |-> v.days]
         /\ v.known = IF c.op = "drop" THEN Taking(w.known, c.row)
                      ELSE IF c.op = "add" THEN InsertAt(w.known, c.at, c.row)
                      ELSE IF c.op = "move" THEN InsertAt(Taking(w.known, c.row), c.at, c.row)
                      ELSE w.known
         /\ v.days = IF c.op = "day" THEN w.days \union {c.date} ELSE w.days
         /\ v.list = IF c.op = "add" THEN Rowed(w.list, c.at, c.row) ELSE w.list
<1>1. PICK a : a = IF c.op = "drop" THEN Taking(w.known, c.row)
                   ELSE IF c.op = "add" THEN InsertAt(w.known, c.at, c.row)
                   ELSE IF c.op = "move" THEN InsertAt(Taking(w.known, c.row), c.at, c.row)
                   ELSE w.known
  OBVIOUS
<1>2. PICK b : b = IF c.op = "day" THEN w.days \union {c.date} ELSE w.days
  OBVIOUS
<1>3. PICK l : l = IF c.op = "add" THEN Rowed(w.list, c.at, c.row) ELSE w.list
  OBVIOUS
<1>4. v = [w EXCEPT !.trip = TRUE, !.known = a, !.days = b, !.list = l]
  BY <1>1, <1>2, <1>3 DEF After, Rowed
<1>5. v = [kind |-> "save", open |-> w.open, trip |-> TRUE, list |-> l, known |-> a, days |-> b]
  BY <1>4 DEF SaveWork
<1> QED BY <1>1, <1>2, <1>3, <1>5

\* A save that holds the trip's revision holds its stops, days and dates.
LEMMA SaveHolds ==
  ASSUME GuidedParts, Saves, work.trip, exists, link.rev = revision
  PROVE  /\ link.id /\ link.known = SavedStops /\ link.days = SavedDates
         /\ work.known = SavedStops /\ work.days = SavedDates
         /\ range = [from |-> plan.from, to |-> plan.to]
BY DEF GuidedParts, LinkOk, PageKnowsTrip, Saves

\* What is in the save.
LEMMA SaveIs ==
  ASSUME GuidedParts, Saves
  PROVE  /\ work \in SaveWork /\ work.list = plan.chosen /\ work.known = link.known
         /\ work.list \in Seq(Entries) /\ work.known \in Seq(Stops) /\ work.days \subseteq Dates
         /\ Entered(work.list, work.known, crossed) /\ crossed \in BOOLEAN
         /\ plan.from \in Dates /\ plan.to \in Dates /\ plan.from <= plan.to
         /\ plan.from \in Nat /\ plan.to \in Nat
<1>1. /\ work \in SaveWork /\ work.list = plan.chosen /\ work.known = link.known
      /\ plan \in Plans /\ plan.from <= plan.to /\ crossed \in BOOLEAN
      /\ Entered(plan.chosen, link.known, crossed)
  BY DEF GuidedParts, Saves, PlanOk, GuideOk
<1>2. /\ work.list \in Seq(Entries) /\ work.known \in Seq(Stops) /\ work.days \subseteq Dates
      /\ plan.from \in Dates
  BY <1>1 DEF SaveWork, Plans
<1>3. plan.to \in Dates \/ plan.to = 0
  BY <1>1 DEF Plans
<1>4. \A n \in Dates : n \in Nat
  BY RowsAssumption
<1>5. plan.to = 0 => plan.to = plan.from
  BY <1>1, <1>2, <1>4
<1>6. plan.to \in Dates
  BY <1>2, <1>3, <1>5
<1> QED BY <1>1, <1>2, <1>4, <1>6

\* The trip is made, or its dates saved.
LEMMA TripAnswers ==
  ASSUME IInv, GuidedParts, Saves, NEW c, NextIs(work, c), c.op = "trip", Request(c),
         NEW v, v = After(work, c)
  PROVE  Agreed(v)
<1>1. /\ v = [kind |-> "save", open |-> work.open, trip |-> TRUE, list |-> v.list,
              known |-> v.known, days |-> v.days]
      /\ v.known = work.known /\ v.days = work.days /\ v.list = work.list
  BY AfterIs, SaveIs
<1>2. IF link.id THEN UpdateTrip(link.rev, plan.from, plan.to) ELSE CreateTrip(plan.from, plan.to)
  BY DEF Request
<1>3. /\ work.list \in Seq(Entries) /\ Entered(work.list, work.known, crossed)
      /\ plan.from \in Dates /\ plan.to \in Dates
      /\ work.known = link.known /\ work.days = link.days
  BY SaveIs DEF Saves
<1>4. CASE link.id
  <2>1. exists /\ link.rev = revision /\ UpdateTrip(revision, plan.from, plan.to)
    BY <1>2, <1>4 DEF UpdateTrip, Locked
  <2>2. work.known = SavedStops /\ work.days = SavedDates
    BY <1>3, <1>4, <2>1 DEF GuidedParts, LinkOk, PageKnowsTrip
  <2>3. /\ IInv' /\ Advanced /\ range' = [from |-> plan.from, to |-> plan.to]
        /\ SavedStops' = SavedStops /\ SavedDates' = SavedDates
    BY <1>3, <2>1, UpdateTripShows
  <2> QED BY <1>1, <1>3, <2>1, <2>2, <2>3 DEF Agreed, Advanced
<1>5. CASE ~link.id
  <2>1. work.known = <<>> /\ work.days = {}
    BY <1>3, <1>5 DEF GuidedParts, LinkOk
  <2>2. /\ IInv' /\ exists' /\ range' = [from |-> plan.from, to |-> plan.to]
        /\ SavedStops' = <<>> /\ SavedDates' = {}
    BY <1>2, <1>3, <1>5, CreateTripShows
  <2> QED BY <1>1, <1>3, <1>5, <2>1, <2>2 DEF Agreed
<1> QED BY <1>4, <1>5

\* A stop is dropped.
LEMMA DropAnswers ==
  ASSUME IInv, GuidedParts, Saves, NEW c, NextIs(work, c), c.op = "drop", Request(c),
         NEW v, v = After(work, c)
  PROVE  Agreed(v)
<1>1. /\ v = [kind |-> "save", open |-> work.open, trip |-> TRUE, list |-> v.list,
              known |-> v.known, days |-> v.days]
      /\ v.known = Taking(work.known, c.row) /\ v.days = work.days /\ v.list = work.list
  BY AfterIs, SaveIs
<1>2. exists /\ link.rev = revision /\ DeleteDestination(revision, c.row)
  BY DEF Request, DeleteDestination, Locked
<1>3. /\ link.id /\ work.known = SavedStops /\ work.days = SavedDates
      /\ range = [from |-> plan.from, to |-> plan.to]
  BY <1>2, SaveHolds DEF NextIs
<1>4. PICK s \in Seq(Stops), l \in Seq(Entries), x \in {c.row} :
        s = SavedStops /\ l = work.list /\ x = c.row /\ DOMAIN l = 1 .. Len(l)
  BY StopsAre, SaveIs
<1>5. x \in Stops /\ \A i \in 1 .. Len(l) : l[i].row # x
  <2>1. x \in Stops
    BY <1>3, <1>4 DEF NextIs
  <2>2. x \notin {e.row : e \in {l[i] : i \in DOMAIN l}}
    BY <1>4 DEF NextIs, KeptRows, ToSet
  <2> QED BY <1>4, <2>1, <2>2
<1>6. /\ IInv' /\ Advanced /\ UNCHANGED range /\ SavedDates' = SavedDates
      /\ \E j \in 1 .. Len(s) : s[j] = x /\ SavedStops' = RemoveAt(s, j)
  BY <1>2, <1>4, <1>5, DeleteDestinationShows
<1>7. PICK j \in 1 .. Len(s) : s[j] = x /\ SavedStops' = RemoveAt(s, j)
  BY <1>6
<1>8. v.known = SavedStops'
  BY <1>1, <1>3, <1>4, <1>7, TakingIs
<1>9. PICK r : r = RemoveAt(s, j)
  OBVIOUS
<1>10. Entered(l, r, crossed)
  <2>1. \A i \in 1 .. Len(l) : Holds(s, l[i].row) => Holds(r, l[i].row)
    BY <1>5, <1>7, <1>9, HoldsLess
  <2>2. Entered(l, s, crossed) /\ crossed \in BOOLEAN
    BY <1>3, <1>4, SaveIs
  <2> QED BY ONLY <1>4, <2>1, <2>2, EnteredStays
<1> QED BY <1>1, <1>2, <1>3, <1>4, <1>6, <1>7, <1>8, <1>9, <1>10 DEF Agreed, Advanced

\* A stop is added, where the list has it.
LEMMA AddAnswers ==
  ASSUME IInv, GuidedParts, Saves, NEW c, NextIs(work, c), c.op = "add", Request(c),
         NEW v, v = After(work, c)
  PROVE  Agreed(v)
<1>1. /\ v = [kind |-> "save", open |-> work.open, trip |-> TRUE, list |-> v.list,
              known |-> v.known, days |-> v.days]
      /\ v.known = InsertAt(work.known, c.at, c.row) /\ v.days = work.days
      /\ v.list = Rowed(work.list, c.at, c.row)
  BY AfterIs, SaveIs
<1>2. exists /\ link.rev = revision /\ CreateDestination(revision, c.row, c.at - 1)
  BY DEF Request, CreateDestination, Locked
<1>3. /\ link.id /\ work.known = SavedStops /\ work.days = SavedDates
      /\ range = [from |-> plan.from, to |-> plan.to]
  BY <1>2, SaveHolds DEF NextIs
<1>4. PICK s \in Seq(Stops), l \in Seq(Entries) : s = SavedStops /\ l = work.list
  BY StopsAre, SaveIs
<1>5. PICK k \in 1 .. Len(l), x \in Stops : k = c.at /\ x = c.row /\ x = l[k].stop
  <2>1. c.at \in 1 .. Len(l) /\ c.row = l[c.at].stop
    BY <1>4 DEF NextIs
  <2>2. l[c.at] \in Entries
    BY <2>1
  <2> QED BY <2>1, <2>2 DEF Entries
<1>6. k - 1 \in Nat /\ (k - 1) + 1 = k
  OBVIOUS
<1>7. /\ IInv' /\ Advanced /\ UNCHANGED range /\ SavedDates' = SavedDates
      /\ SavedStops' = InsertAt(s, k, x) /\ k \in 1 .. Len(s) + 1
  BY <1>2, <1>4, <1>5, <1>6, CreateDestinationShows
<1>8. PICK r : r = InsertAt(s, k, x)
  OBVIOUS
<1>9. Holds(r, x) /\ \A y : Holds(s, y) => Holds(r, y)
  BY <1>7, <1>8, HoldsMore
<1>10. PICK q : q = Rowed(l, k, x)
  OBVIOUS
<1>11. q \in Seq(Entries) /\ Entered(q, r, crossed)
  <2>1. Entered(l, s, crossed) /\ crossed \in BOOLEAN
    BY <1>3, <1>4, SaveIs
  <2> QED BY <1>5, <1>9, <1>10, <2>1, EnteredSaved
<1>12. v.known = r /\ v.list = q
  BY <1>1, <1>3, <1>4, <1>5, <1>8, <1>10
<1> QED BY <1>1, <1>2, <1>3, <1>7, <1>8, <1>11, <1>12 DEF Agreed, Advanced

\* A stop is moved.
LEMMA MoveAnswers ==
  ASSUME IInv, GuidedParts, Saves, NEW c, NextIs(work, c), c.op = "move", Request(c),
         NEW v, v = After(work, c)
  PROVE  Agreed(v)
<1>1. /\ v = [kind |-> "save", open |-> work.open, trip |-> TRUE, list |-> v.list,
              known |-> v.known, days |-> v.days]
      /\ v.known = InsertAt(Taking(work.known, c.row), c.at, c.row) /\ v.days = work.days
      /\ v.list = work.list
  BY AfterIs, SaveIs
<1>2. exists /\ link.rev = revision /\ UpdateDestination(revision, c.row, c.row, c.at - 1)
  BY DEF Request, UpdateDestination, Locked
<1>3. /\ link.id /\ work.known = SavedStops /\ work.days = SavedDates
      /\ range = [from |-> plan.from, to |-> plan.to]
  BY <1>2, SaveHolds DEF NextIs
<1>4. PICK s \in Seq(Stops), l \in Seq(Entries) : s = SavedStops /\ l = work.list
  BY StopsAre, SaveIs
<1>5. PICK k \in 1 .. Len(l), x \in Stops : k = c.at /\ x = c.row
  <2>1. c.at \in 1 .. Len(l) /\ c.row = l[c.at].row /\ c.row # None
    BY <1>4 DEF NextIs
  <2>2. l[c.at] \in Entries
    BY <2>1
  <2> QED BY <2>1, <2>2 DEF Entries
<1>6. k - 1 \in Nat /\ (k - 1) + 1 = k
  OBVIOUS
<1>7. /\ IInv' /\ Advanced /\ UNCHANGED range /\ SavedDates' = SavedDates
      /\ \E j \in 1 .. Len(s) : \E z \in Seq(Rows) :
           /\ s[j] = x /\ z = RemoveAt(s, j)
           /\ SavedStops' = InsertAt(z, k, x) /\ k \in 1 .. Len(z) + 1
  BY <1>2, <1>4, <1>5, <1>6, UpdateDestinationShows
<1>8. PICK j \in 1 .. Len(s), z \in Seq(Rows) :
        s[j] = x /\ z = RemoveAt(s, j) /\ SavedStops' = InsertAt(z, k, x) /\ k \in 1 .. Len(z) + 1
  BY <1>7
<1>9. Taking(work.known, c.row) = z
  BY <1>3, <1>4, <1>5, <1>8, TakingIs
<1>10. PICK r : r = InsertAt(z, k, x)
  OBVIOUS
<1>11. x \in Rows
  BY DEF Rows
<1>12. Holds(r, x) /\ \A y : Holds(z, y) => Holds(r, y)
  BY <1>8, <1>10, <1>11, HoldsMore
<1>13. \A y : Holds(s, y) /\ y # x => Holds(z, y)
  BY <1>8, HoldsLess
<1>14. Entered(l, r, crossed)
  <2>1. \A i \in 1 .. Len(l) : Holds(s, l[i].row) => Holds(r, l[i].row)
    BY <1>12, <1>13
  <2>2. Entered(l, s, crossed) /\ crossed \in BOOLEAN
    BY <1>3, <1>4, SaveIs
  <2> QED BY ONLY <1>4, <2>1, <2>2, EnteredStays
<1>15. v.known = r /\ SavedStops' = r
  BY <1>1, <1>5, <1>8, <1>9, <1>10
<1> QED BY <1>1, <1>2, <1>3, <1>4, <1>7, <1>14, <1>15 DEF Agreed, Advanced

\* A day is added for its date.
LEMMA DayAnswers ==
  ASSUME IInv, GuidedParts, Saves, NEW c, NextIs(work, c), c.op = "day", Request(c),
         NEW v, v = After(work, c)
  PROVE  Agreed(v)
<1>1. /\ v = [kind |-> "save", open |-> work.open, trip |-> TRUE, list |-> v.list,
              known |-> v.known, days |-> v.days]
      /\ v.known = work.known /\ v.days = work.days \union {c.date} /\ v.list = work.list
  BY AfterIs, SaveIs
<1>2. PICK n, k : n = c.date /\ k = c.date - plan.from
  OBVIOUS
<1>8. PICK d \in Days : date[d] = n /\ CreateDay(link.rev, d, n, k)
  BY <1>2 DEF Request, CreateDayFor
<1>3. exists /\ link.rev = revision
  BY <1>8 DEF CreateDay, Locked
<1>4. /\ link.id /\ work.known = SavedStops /\ work.days = SavedDates
      /\ range = [from |-> plan.from, to |-> plan.to]
  BY <1>3, SaveHolds DEF NextIs
<1>5. n \in Dates /\ k \in Nat
  <2>1. date \in [Days -> Dates]
    BY DEF IInv, TypeOK
  <2>2. n \in plan.from .. plan.to /\ plan.from \in Nat /\ plan.to \in Nat
    BY <1>2, SaveIs DEF NextIs
  <2>3. n - plan.from \in Nat
    BY <2>2
  <2> QED BY <1>2, <1>8, <2>1, <2>3
<1>6. /\ IInv' /\ Advanced /\ UNCHANGED range /\ SavedStops' = SavedStops
      /\ SavedDates' = SavedDates \union {n}
  BY <1>3, <1>5, <1>8, CreateDayShows
<1>7. work.list \in Seq(Entries) /\ Entered(work.list, work.known, crossed)
  BY SaveIs
<1> QED BY <1>1, <1>2, <1>3, <1>4, <1>6, <1>7 DEF Agreed, Advanced

\* Whatever is asked for.
LEMMA RequestAnswers ==
  ASSUME IInv, GuidedParts, Saves, NEW c, NextIs(work, c), Request(c), NEW v, v = After(work, c)
  PROVE  Agreed(v) /\ c.op # "done"
<1>1. c.op \in {"trip", "drop", "add", "move", "day"}
  BY DEF Request
<1> QED BY <1>1, TripAnswers, DropAnswers, AddAnswers, MoveAnswers, DayAnswers

\* The stops and the dates shown, by their types.
Typed == SavedStops \in Seq(Stops) /\ SavedDates \subseteq Dates

\* They are of them before a step.
LEMMA TypedBefore == IInv => Typed
BY StopsAre, DatesAreIn DEF Typed

\* And after it.
LEMMA TypedAfter == IInv' => Typed'
BY TypedBefore, PTL

\* An answer: the page knows the trip at its new revision.
LEMMA SaveAnsweredKeeps ==
  ASSUME IInv, GuidedParts, SaveAnswered
  PROVE  IInv' /\ GuidedParts'
<1>1. Saves
  BY WorkKinds DEF SaveAnswered, GuidedParts
<1>2. PICK w \in SaveWork : w = work
  BY <1>1, SaveIs
<1>3. PICK c : c = NextCall(work)
  OBVIOUS
<1>4. NextIs(work, c)
  BY <1>2, <1>3, NextCallIs DEF GuidedParts, PlanOk
<1>5. PICK v : v = After(work, c)
  OBVIOUS
<1>6. Request(c) /\ work' = v
  BY <1>3, <1>5 DEF SaveAnswered
<1>7. Agreed(v)
  BY <1>1, <1>4, <1>5, <1>6, RequestAnswers
<1>8. PICK l \in Seq(Entries) : l = v.list
  BY <1>7 DEF Agreed
<1>9. /\ plan' = [plan EXCEPT !.chosen = l]
      /\ link' = IF c.op = "trip" THEN Link' ELSE
           [id |-> TRUE, rev |-> revision', known |-> v.known,
            days |-> IF c.op = "day" THEN v.days ELSE link.days]
      /\ UNCHANGED <<guide, told, crossed>>
  BY <1>3, <1>6, <1>8 DEF SaveAnswered
<1>10. PICK s \in Seq(Stops), d \in SUBSET Dates : s = SavedStops' /\ d = SavedDates'
  BY <1>7, TypedAfter DEF Agreed, Typed
<1>11. v = [kind |-> "save", open |-> work.open, trip |-> TRUE, list |-> l, known |-> s, days |-> d]
  BY <1>7, <1>8, <1>10 DEF Agreed
<1>12. v.known = s /\ v.days = d /\ v.trip /\ v \in SaveWork
  BY <1>2, <1>11 DEF SaveWork
<1>13. c.op # "day" => link.days = d
  <2>1. c.op # "day" => v.days = work.days
    BY <1>2, <1>5, AfterIs
  <2> QED BY <1>1, <1>12, <2>1 DEF Saves
<1>14. link' = [id |-> TRUE, rev |-> revision', known |-> s, days |-> d]
  <2>1. CASE c.op = "trip"
    BY <1>9, <1>10, <2>1 DEF Link
  <2>2. CASE c.op # "trip"
    BY <1>9, <1>12, <1>13, <2>2
  <2> QED BY <2>1, <2>2
<1>15. IInv' /\ exists' /\ range' = [from |-> plan.from, to |-> plan.to] /\ Entered(l, s, crossed)
  BY <1>7, <1>8, <1>10 DEF Agreed
<1>16. plan' \in Plans /\ plan'.chosen = l /\ plan'.from = plan.from /\ plan'.to = plan.to
  BY <1>9 DEF Plans, GuidedParts, PlanOk
<1>17. revision' \in Nat
  BY <1>15 DEF IInv, TypeOK
<1>18. LinkOk'
  <2>1. link'.id /\ link'.rev = revision' /\ link'.known = s /\ link'.days = d /\ link' \in Links
    BY <1>14, <1>17 DEF Links
  <2>2. link'.rev <= revision'
    BY <1>17, <2>1
  <2>3. PageKnowsTrip'
    BY <1>10, <2>1 DEF PageKnowsTrip
  <2> QED BY <2>1, <2>2, <2>3 DEF LinkOk
<1>19. GuideOk' /\ guide'.phase = "saving"
  BY <1>1, <1>9 DEF GuidedParts, GuideOk, Saves
<1>20. PlanOk'
  BY <1>9, <1>14, <1>15, <1>16, <1>19 DEF PlanOk
<1>21. Saves'
  <2>1. work'.list = l /\ work'.known = s /\ work'.days = d /\ work' \in SaveWork
    BY <1>6, <1>11, <1>12
  <2>2. told' = "none" /\ plan'.from <= plan'.to
    BY <1>1, <1>9, <1>16 DEF Saves
  <2> QED BY <1>14, <1>15, <1>16, <1>19, <2>1, <2>2 DEF Saves
<1>22. ToldOk'
  BY <1>1, <1>9 DEF Saves, ToldOk, SavedAsPlanned
<1> QED BY <1>15, <1>18, <1>19, <1>20, <1>21, <1>22 DEF GuidedParts, WorkOk

\* A page under a revision that is not the trip's any more knows that much.
Behind == link.id /\ exists' => link.rev < revision'

\* That is as much as the link promises.
LEMMA BehindIs ==
  ASSUME IInv, IInv', LinkOk, UNCHANGED link, Behind, revision' >= revision
  PROVE  LinkOk'
<1>1. link.rev \in Nat /\ revision \in Nat /\ revision' \in Nat
  BY DEF LinkOk, Links, IInv, TypeOK
<1>2. link.id /\ exists' => link.rev # revision'
  BY <1>1 DEF Behind
<1>3. link.id => link.rev <= revision'
  BY <1>1 DEF LinkOk
<1> QED BY <1>2, <1>3 DEF LinkOk, PageKnowsTrip

\* The end of a save, whatever became of its last request.
LEMMA SaveEndsKeeps ==
  ASSUME GuidedParts, Saves, SaveEnds, UNCHANGED <<plan, link, told, crossed>>
  PROVE  GuideOk' /\ PlanOk' /\ WorkOk' /\ ToldOk'
<1>1. guide' \in Guides /\ guide'.phase = "ready"
  BY GuideIs DEF SaveEnds, GuidedParts, GuidePhases
<1> QED BY <1>1 DEF GuidedParts, Saves, SaveEnds, GuideOk, PlanOk, WorkOk, NoWork, ToldOk,
                    SavedAsPlanned

\* A request that was done, and whose answer is lost.
LEMMA AnswerLostKeeps ==
  ASSUME IInv, GuidedParts, AnswerLost
  PROVE  IInv' /\ GuidedParts'
<1>1. Saves /\ SaveEnds /\ UNCHANGED <<plan, link, told, crossed>>
  BY WorkKinds DEF AnswerLost, GuidedParts
<1>2. PICK c : c = NextCall(work)
  OBVIOUS
<1>3. NextIs(work, c) /\ Request(c)
  BY <1>1, <1>2, SaveIs, NextCallIs DEF GuidedParts, PlanOk, AnswerLost
<1>4. PICK v : v = After(work, c)
  OBVIOUS
<1>5. Agreed(v)
  BY <1>1, <1>3, <1>4, RequestAnswers
<1>6. IInv' /\ (link.id => link.rev = revision /\ revision' = revision + 1)
  BY <1>5 DEF Agreed, Advanced
<1>7. LinkOk'
  <2>1. CASE link.id
    <3>1. revision \in Nat
      BY DEF IInv, TypeOK
    <3> QED BY <1>1, <1>6, <2>1, <3>1, BehindIs DEF GuidedParts, Behind
  <2>2. CASE ~link.id
    BY <1>1, <2>2 DEF GuidedParts, LinkOk, PageKnowsTrip
  <2> QED BY <2>1, <2>2
<1> QED BY <1>1, <1>6, <1>7, SaveEndsKeeps DEF GuidedParts

\* A save that has no request left found the stops as the list has them.
LEMMA DoneHolds ==
  ASSUME IInv, GuidedParts, Saves, work.trip, exists, link.rev = revision,
         NEW c, NextIs(work, c), c.op \in {"day", "done"}
  PROVE  SavedStops = [i \in DOMAIN plan.chosen |->
                         IF crossed THEN plan.chosen[i].row ELSE plan.chosen[i].stop]
<1>1. PICK s \in Seq(Stops), l \in Seq(Entries), x \in BOOLEAN :
        s = SavedStops /\ l = plan.chosen /\ x = crossed
  BY StopsAre, SaveIs
<1>2. work.known = s /\ work.list = l /\ Entered(l, s, x)
  BY <1>1, SaveHolds, SaveIs
<1>3. Len(s) \in Nat /\ Len(l) \in Nat /\ DOMAIN s = 1 .. Len(s) /\ DOMAIN l = 1 .. Len(l)
  BY <1>1
<1>4. \A j \in 1 .. Len(l) : j <= Len(s) /\ s[j] = l[j].row
  BY <1>2, <1>3 DEF NextIs, InPlace
<1>5. \A k \in 1 .. Len(s) : \E j \in 1 .. Len(l) : s[k] = l[j].row
  BY <1>2, <1>3 DEF NextIs, KeptRows, ToSet
<1>6. \A i, j \in 1 .. Len(s) : s[i] = s[j] => i = j
  BY <1>1, StopsOnce
<1>7. \A k \in 1 .. Len(s) : k <= Len(l)
  <2>1. ASSUME NEW k \in 1 .. Len(s) PROVE k <= Len(l)
    <3>1. PICK j \in 1 .. Len(l) : s[k] = l[j].row
      BY <1>5
    <3>2. j \in 1 .. Len(s) /\ s[j] = s[k]
      BY <1>3, <1>4, <3>1
    <3> QED BY <1>3, <1>6, <3>2
  <2> QED BY <2>1
<1>8. Len(s) = Len(l)
  <2>1. Len(s) >= Len(l)
    <3>1. CASE Len(l) = 0
      BY <1>3, <3>1
    <3>2. CASE Len(l) # 0
      BY <1>3, <1>4, <3>2
    <3> QED BY <3>1, <3>2
  <2>2. Len(s) <= Len(l)
    <3>1. CASE Len(s) = 0
      BY <1>3, <3>1
    <3>2. CASE Len(s) # 0
      BY <1>3, <1>7, <3>2
    <3> QED BY <3>1, <3>2
  <2>3. Len(s) \in Int /\ Len(l) \in Int
    BY <1>3
  <2> QED BY ONLY <2>1, <2>2, <2>3
<1>9. \A i \in 1 .. Len(l) : s[i] = IF x THEN l[i].row ELSE l[i].stop
  <2>1. ASSUME NEW i \in 1 .. Len(l), ~x PROVE s[i] = l[i].stop
    <3>1. s[i] \in Stops /\ s[i] = l[i].row
      BY <1>3, <1>4, <1>8
    <3>2. l[i].row # None
      BY <3>1, FormAssumption
    <3> QED BY <1>2, <2>1, <3>1, <3>2 DEF Entered
  <2> QED BY <1>4, <2>1
<1>10. s = [i \in 1 .. Len(l) |-> s[i]]
  BY <1>3, <1>8
<1>11. s = [i \in DOMAIN l |-> IF x THEN l[i].row ELSE l[i].stop]
  BY <1>3, <1>9, <1>10
<1> QED BY <1>1, <1>11

\* What is announced is so.
LEMMA FinishKeeps ==
  ASSUME IInv, GuidedParts, Finish
  PROVE  IInv' /\ GuidedParts'
<1>1. /\ Saves /\ work' = NoWork /\ told' = (IF work.open THEN "opened" ELSE "saved")
      /\ UNCHANGED <<saved, plan, link, crossed>>
  BY WorkKinds DEF Finish, GuidedParts
<1>2. PICK c : c = NextCall(work)
  OBVIOUS
<1>3. NextIs(work, c) /\ c.op = "done"
  BY <1>1, <1>2, SaveIs, NextCallIs DEF GuidedParts, PlanOk, Finish
<1>4. work.trip /\ link.id
  BY <1>1, <1>3 DEF NextIs, Saves
<1>5. IInv' /\ LinkOk'
  BY <1>1, QuietRenews, LinkRests DEF GuidedParts
<1>6. guide' \in Guides /\ guide'.url
  <2>1. PICK p \in GuidePhases :
          p = IF work.open THEN "left" ELSE IF guide.url THEN "ready" ELSE "loading"
    BY DEF GuidePhases
  <2>2. guide' = [guide EXCEPT !.url = TRUE, !.phase = p]
    BY <2>1 DEF Finish
  <2> QED BY <2>2 DEF GuidedParts, GuideOk, Guides
<1>7. GuideOk' /\ PlanOk' /\ WorkOk'
  BY <1>1, <1>6 DEF GuidedParts, GuideOk, PlanOk, WorkOk, NoWork
<1>8. ToldOk'
  <2>1. SavedStops' = SavedStops /\ SavedDates' = SavedDates /\ range' = range
        /\ exists' = exists /\ revision' = revision
    BY <1>1 DEF SavedStops, SavedDates, List, Total, Under, saved
  <2>2. ASSUME exists, link.rev = revision
        PROVE  /\ range = [from |-> plan.from, to |-> plan.to]
               /\ SavedStops = [i \in DOMAIN plan.chosen |->
                    IF crossed THEN plan.chosen[i].row ELSE plan.chosen[i].stop]
               /\ work.open => SavedDates = plan.from .. plan.to
    <3>1. range = [from |-> plan.from, to |-> plan.to] /\ work.days = SavedDates
      BY <1>1, <1>4, <2>2, SaveHolds
    <3>2. SavedDates \subseteq plan.from .. plan.to
      BY <2>2, <3>1, DatesAreIn
    <3>3. work.open => plan.from .. plan.to \subseteq SavedDates
      BY <1>3, <3>1 DEF NextIs
    <3> QED BY <1>1, <1>3, <1>4, <2>2, <3>1, <3>2, <3>3, DoneHolds
  <2>3. told' = "opened" => work.open
    BY <1>1
  <2>4. SavedAsPlanned'
    BY <1>1, <2>1, <2>2, <2>3 DEF SavedAsPlanned
  <2> QED BY <1>1, <1>4, <2>4 DEF ToldOk
<1> QED BY <1>5, <1>7, <1>8 DEF GuidedParts

\* Another tab edits the trip under a save.
LEMMA OthersEditKeeps ==
  ASSUME IInv, GuidedParts, OthersEdit
  PROVE  IInv' /\ GuidedParts'
<1>1. /\ Saves /\ UNCHANGED <<guide, plan, link, work, told, crossed>>
      /\ \/ StopRoutes \/ TripRoutes
         \/ \E n \in Dates, k \in 0 .. Cardinality(Days) : CreateDayFor(revision, n, k)
  BY WorkKinds DEF OthersEdit, GuidedParts
<1>2. revision \in Nat
  BY DEF IInv, TypeOK
<1>3. IInv' /\ revision' >= revision /\ (exists' => revision' = revision + 1)
  <2>1. CASE StopRoutes
    <3>1. PICK x \in Stops, k \in 0 .. Cardinality(Rows) :
            \/ CreateDestination(revision, x, k) \/ DeleteDestination(revision, x)
            \/ \E y \in Stops : UpdateDestination(revision, x, y, k)
      BY <2>1 DEF StopRoutes
    <3>2. k \in Nat
      OBVIOUS
    <3>3. IInv'
      BY <3>1, <3>2, CreateDestinationSound, DeleteDestinationSound, UpdateDestinationSound
    <3>4. revision' = revision + 1
      BY <3>1 DEF CreateDestination, DeleteDestination, UpdateDestination, Bump
    <3> QED BY <1>2, <3>3, <3>4
  <2>2. CASE DeleteTrip(revision)
    <3>1. IInv'
      BY <2>2, DeleteTripSound
    <3>2. ~exists' /\ revision' = revision
      BY <2>2 DEF DeleteTrip
    <3> QED BY <1>2, <3>1, <3>2
  <2>3. ASSUME NEW from \in Dates, NEW to \in Dates, UpdateTrip(revision, from, to)
        PROVE  IInv' /\ revision' = revision + 1
    BY <2>3, UpdateTripSound DEF UpdateTrip, Bump
  <2>4. ASSUME NEW n \in Dates, NEW k \in 0 .. Cardinality(Days), CreateDayFor(revision, n, k)
        PROVE  IInv' /\ revision' = revision + 1
    <3>1. PICK d \in Days : CreateDay(revision, d, n, k)
      BY <2>4 DEF CreateDayFor
    <3>2. k \in Nat
      OBVIOUS
    <3> QED BY <3>1, <3>2, CreateDaySound DEF CreateDay, Bump
  <2> QED BY <1>1, <1>2, <2>1, <2>2, <2>3, <2>4 DEF TripRoutes
<1>4. link.id /\ exists' => link.rev < revision'
  <2>1. link.id => link.rev <= revision /\ link.rev \in Nat
    BY DEF GuidedParts, LinkOk, Links
  <2> QED BY <1>2, <1>3, <2>1
<1>5. LinkOk'
  BY <1>1, <1>3, <1>4, BehindIs DEF GuidedParts, Behind
<1>6. GuideOk' /\ PlanOk' /\ ToldOk'
  BY <1>1 DEF GuidedParts, GuideOk, PlanOk, Saves, ToldOk, SavedAsPlanned
<1>7. Saves'
  <2>1. link.id /\ exists' => link.rev # revision'
    <3>1. revision' \in Nat /\ (link.id => link.rev \in Nat)
      BY <1>3 DEF GuidedParts, LinkOk, Links, IInv, TypeOK
    <3> QED BY <1>4, <3>1
  <2> QED BY <1>1, <2>1 DEF Saves
<1> QED BY <1>3, <1>5, <1>6, <1>7 DEF GuidedParts, WorkOk

\* Of a list of entries that holds every stop known, a stop that has no row is not
\* known yet, and one that is not in its place stands further on.
LEMMA CallStands ==
  ASSUME IInv, GuidedParts, Saves, work.trip, exists, link.rev = revision, ~crossed,
         NEW c, NextIs(work, c)
  PROVE  /\ c.op \in {"add", "move"} => c.at \in Nat /\ c.at <= Total("stops") + 1
         /\ c.op \in {"drop", "move"} => place[c.row].in = "stops"
         /\ c.op = "add" => place[c.row].in # "stops"
         /\ c.op = "move" => c.at <= Total("stops")
<1>1. PICK s \in Seq(Stops), l \in Seq(Entries), n \in Nat :
        s = SavedStops /\ l = work.list /\ n = Total("stops") /\ Len(s) = n
  BY StopsAre, SaveIs
<1>2. work.known = s /\ Entered(l, s, FALSE)
  BY <1>1, SaveHolds, SaveIs
<1>3. DOMAIN s = 1 .. n /\ DOMAIN l = 1 .. Len(l) /\ Len(l) \in Nat
  BY <1>1
<1>4. /\ \A k \in 1 .. n : s[k] \in Stops /\ s[k] # None /\ place[s[k]].in = "stops"
      /\ \A x \in Rows : place[x].in = "stops" => \E k \in 1 .. n : s[k] = x
  <2>1. \A k \in 1 .. n : s[k] \in Stops /\ place[s[k]].in = "stops"
    BY <1>1, StopsAre DEF Reads
  <2>2. \A x \in Rows : place[x].in = "stops" => \E k \in 1 .. n : s[k] = x
    BY <1>1, StopsAre
  <2> QED BY <2>1, <2>2, FormAssumption
<1>5. /\ \A i \in 1 .. Len(l) : l[i].row \in {None, l[i].stop} /\ l[i] \in Entries
      /\ \A i, j \in 1 .. Len(l) : l[i].stop = l[j].stop => i = j
  BY <1>2 DEF Entered
<1>6. c.op = "drop" => place[c.row].in = "stops"
  BY <1>1, <1>2, <1>4 DEF NextIs
<1>7. ASSUME c.op \in {"add", "move"}
      PROVE  c.at \in Nat /\ c.at \in 1 .. Len(l) /\ c.at <= n + 1
  <2>1. c.at \in 1 .. Len(l) /\ \A j \in 1 .. c.at - 1 : j <= n
    BY <1>1, <1>2, <1>7 DEF NextIs, InPlace
  <2>2. CASE c.at = 1
    BY <2>1, <2>2
  <2>3. CASE c.at # 1
    <3>1. c.at - 1 \in 1 .. c.at - 1
      BY <2>1, <2>3
    <3>2. c.at - 1 <= n
      BY <2>1, <3>1
    <3> QED BY <2>1, <3>2
  <2> QED BY <2>2, <2>3
<1>8. ASSUME c.op = "add" PROVE place[c.row].in # "stops"
  <2>1. SUFFICES ASSUME place[c.row].in = "stops" PROVE FALSE
    OBVIOUS
  <2>2. PICK a \in 1 .. Len(l) : a = c.at /\ l[a].row = None /\ c.row = l[a].stop
    BY <1>1, <1>7, <1>8 DEF NextIs
  <2>3. c.row \in Rows
    BY <1>5, <2>2 DEF Entries, Rows
  <2>4. PICK k \in 1 .. n : s[k] = c.row
    BY <1>4, <2>1, <2>3
  <2>5. s[k] \in KeptRows(work)
    BY <1>1, <1>2, <1>8 DEF NextIs
  <2>6. PICK j \in 1 .. Len(l) : s[k] = l[j].row
    BY <1>1, <1>3, <2>5 DEF KeptRows, ToSet
  <2>7. l[j].stop = c.row /\ l[j].row # None
    BY <1>4, <1>5, <2>4, <2>6
  <2>8. j = a
    BY <1>5, <2>2, <2>7
  <2> QED BY <2>2, <2>7, <2>8
<1>9. ASSUME c.op = "move" PROVE place[c.row].in = "stops" /\ c.at <= n
  <2>1. PICK a \in 1 .. Len(l) : a = c.at /\ l[a].row # None /\ c.row = l[a].row
    BY <1>1, <1>7, <1>9 DEF NextIs
  <2>2. PICK k \in 1 .. n : s[k] = c.row
    BY <1>1, <1>2, <2>1 DEF Entered
  <2>3. \A j \in 1 .. a - 1 : s[j] = l[j].row
    BY <1>1, <1>2, <1>9, <2>1 DEF NextIs, InPlace
  <2>4. ~(k < a)
    <3>1. SUFFICES ASSUME k < a PROVE FALSE
      OBVIOUS
    <3>2. k \in 1 .. a - 1 /\ k \in 1 .. Len(l)
      BY <1>3, <3>1
    <3>3. l[k].row = l[a].row
      BY <2>1, <2>2, <2>3, <3>2
    <3>4. l[k].stop = l[a].row /\ l[a].stop = l[a].row
      BY <1>5, <2>1, <3>2, <3>3
    <3>5. k = a
      BY <1>5, <3>2, <3>4
    <3> QED BY <3>1, <3>5
  <2>5. a <= n
    BY <1>1, <2>4
  <2> QED BY <1>4, <2>1, <2>2, <2>5
<1> QED BY <1>1, <1>6, <1>7, <1>8, <1>9

\* Before the first date that has no day stand as many days as dates.
LEMMA DaysBefore ==
  ASSUME IInv, NEW a \in Nat, NEW b \in Nat, a <= b, \A m \in a .. b - 1 : m \in SavedDates
  PROVE  b - a <= Total("days")
<1>1. PICK U : U = Under(place, "days")
  OBVIOUS
<1>2. IsFiniteSet(U)
  BY <1>1, RowsAssumption, FS_Subset DEF Under
<1>3. \A m \in a .. b - 1 : \E d \in U : date[d] = m
  BY <1>1 DEF SavedDates
<1>4. PICK f : f = [m \in a .. b - 1 |-> CHOOSE d \in U : date[d] = m]
  OBVIOUS
<1>5. \A m \in a .. b - 1 : f[m] \in U /\ date[f[m]] = m
  BY <1>3, <1>4
<1>6. f \in [a .. b - 1 -> U] /\ \A m, n \in a .. b - 1 : f[m] = f[n] => m = n
  BY <1>4, <1>5
<1>7. f \in Injection(a .. b - 1, U)
  BY <1>6 DEF Injection, IsInjective
<1>8. Cardinality(a .. b - 1) <= Cardinality(U)
  BY <1>2, <1>7, FS_Injection
<1>9. Cardinality(a .. b - 1) = b - a
  <2>1. b - 1 \in Int /\ a \in Int
    OBVIOUS
  <2>2. Cardinality(a .. b - 1) = IF a > b - 1 THEN 0 ELSE (b - 1) - a + 1
    BY <2>1, FS_Interval
  <2> QED BY <2>2
<1> QED BY <1>1, <1>8, <1>9 DEF Total

\* What a save asks for at the trip's revision fits the trip.
LEMMA CallFits ==
  ASSUME IInv, GuidedParts
  PROVE  CallsFit
<1> SUFFICES ASSUME work.kind = "save", work.trip, exists, link.rev = revision, ~crossed,
                    NEW c, c = NextCall(work)
             PROVE  /\ c.op \in {"drop", "move"} <=>
                         c.op # "done" /\ "row" \in DOMAIN c /\ place[c.row].in = "stops"
                    /\ c.op = "move" => c.at <= Total("stops")
                    /\ c.op = "add" => c.at <= Total("stops") + 1
                    /\ c.op = "day" => c.date \notin SavedDates
                       /\ c.date - plan.from <= Total("days")
  BY DEF CallsFit
<1>1. Saves
  BY WorkKinds DEF GuidedParts
<1>2. NextIs(work, c)
  BY <1>1, SaveIs, NextCallIs DEF GuidedParts, PlanOk
<1>3. work.days = SavedDates
  BY <1>1, SaveHolds
<1>4. ASSUME c.op = "day" PROVE c.date \notin SavedDates /\ c.date - plan.from <= Total("days")
  <2>1. /\ c.date \in plan.from .. plan.to /\ c.date \notin SavedDates
        /\ \A n \in plan.from .. c.date - 1 : n \in SavedDates
    BY <1>2, <1>3, <1>4 DEF NextIs
  <2>2. plan.from \in Nat /\ plan.to \in Nat
    BY <1>1, SaveIs
  <2>3. c.date \in Nat /\ plan.from <= c.date
    BY <2>1, <2>2
  <2> QED BY <2>1, <2>2, <2>3, DaysBefore
<1>5. /\ c.op \in {"drop", "move"} => place[c.row].in = "stops"
      /\ c.op = "add" => place[c.row].in # "stops" /\ c.at <= Total("stops") + 1
      /\ c.op = "move" => c.at <= Total("stops")
  BY <1>1, <1>2, CallStands
<1>6. "row" \in DOMAIN c <=> c.op \in {"drop", "add", "move"}
  BY <1>2 DEF NextIs
<1> QED BY <1>4, <1>5, <1>6

-----------------------------------------------------------------------------
\* The invariant of the planner by hand.
GuidedIInv == open = "guided" => IInv /\ GuidedParts

\* It holds when the page opens.
LEMMA GuidedInitSound == PagesInit => GuidedIInv
<1> SUFFICES ASSUME PagesInit, open = "guided" PROVE IInv /\ GuidedParts
  BY DEF GuidedIInv
<1>1. (Init \/ Unmade) /\ GuidedOpens([Closed EXCEPT !.phase = "loading", !.url = exists])
  BY DEF PagesInit, Open
<1>2. IInv
  BY <1>1, InitSound, UnmadeSound
<1>3. PICK g : g = [Closed EXCEPT !.phase = "loading", !.url = exists]
  OBVIOUS
<1>4. /\ guide = g /\ plan = NoPlan /\ link = NoLink /\ work = NoWork /\ told = "none"
      /\ crossed = FALSE
  BY <1>1, <1>3 DEF GuidedOpens
<1>5. exists \in BOOLEAN
  BY <1>2 DEF IInv, TypeOK
<1>6. GuideOk
  BY <1>3, <1>4, <1>5 DEF GuideOk, Guides, GuidePhases, Closed
<1>7. LinkOk /\ PlanOk
  BY <1>4, NoLinkIs, NoPlanIs DEF LinkOk, PageKnowsTrip, PlanOk
<1>8. WorkOk /\ ToldOk
  BY <1>4 DEF WorkOk, ToldOk, SavedAsPlanned
<1> QED BY <1>2, <1>6, <1>7, <1>8 DEF GuidedParts

\* Every step of the page keeps it.
LEMMA GuidedStepKeeps ==
  ASSUME GuidedIInv, [PagesNext]_tab
  PROVE  GuidedIInv'
<1>1. CASE GuidedStep
  <2>1. GuidedNext /\ IInv /\ GuidedParts
    BY <1>1 DEF GuidedStep, GuidedIInv
  <2>2. IInv' /\ GuidedParts'
    BY <2>1, PageTurns, RevisitKeeps, FormsKeep, PersistKeeps, PlanLoadedKeeps, ReviewedKeeps,
       SaveAnsweredKeeps, AnswerLostKeeps, FinishKeeps, OthersEditKeeps DEF GuidedNext, Ends
  <2> QED BY <2>2 DEF GuidedIInv
<1>2. CASE WorkspaceStep \/ NaturalStep
  <2>1. open # "guided" /\ open' = open
    BY <1>2 DEF WorkspaceStep, NaturalStep
  <2> QED BY <2>1 DEF GuidedIInv
<1>3. CASE UNCHANGED tab
  <2>1. open' = open /\ UNCHANGED <<saved, guided>>
    BY <1>3 DEF tab
  <2>2. UNCHANGED <<guide, plan, link, work, told, crossed>>
    BY <2>1 DEF guided
  <2>3. ASSUME IInv, GuidedParts PROVE IInv' /\ GuidedParts'
    <3>1. IInv' /\ LinkOk' /\ ToldOk'
      BY <2>1, <2>2, <2>3, QuietRenews, LinkRests, ToldRests DEF GuidedParts
    <3>2. GuideOk' /\ PlanOk'
      BY <2>2, <2>3 DEF GuidedParts, GuideOk, PlanOk
    <3>3. revision' = revision /\ exists' = exists /\ range' = range
      BY <2>1 DEF saved
    <3>4. WorkOk'
      BY <2>2, <2>3, <3>3 DEF GuidedParts, WorkOk, Reviews, Saves
    <3> QED BY <3>1, <3>2, <3>4 DEF GuidedParts
  <2> QED BY <2>1, <2>3 DEF GuidedIInv
<1> QED BY <1>1, <1>2, <1>3 DEF PagesNext

\* The invariant of the planner by hand: under the trip's revision it knows the trip,
\* whatever a save asked for and whichever answers were lost (guided-trip-planner.tsx,
\* persist and syncDestinations).
THEOREM GuidedInductive == PagesSpec => []GuidedIInv
<1>1. GuidedIInv /\ [PagesNext]_tab => GuidedIInv'
  BY GuidedStepKeeps
<1> QED BY GuidedInitSound, <1>1, PTL DEF PagesSpec

\* PlanIsSaved: a plan announced as saved is the trip's, the page knows the trip at
\* every revision it holds, and a save asks for nothing that the API refuses
\* (guided-trip-planner.tsx, persist).
THEOREM PlanIsSavedHolds == PagesSpec => []PlanIsSaved
<1>1. GuidedIInv => PlanIsSaved
  <2>1. ASSUME IInv, GuidedParts PROVE SavedAsPlanned /\ PageKnowsTrip /\ CallsFit
    BY <2>1, CallFits DEF GuidedParts, ToldOk, LinkOk
  <2> QED BY <2>1 DEF GuidedIInv, PlanIsSaved
<1> QED BY <1>1, GuidedInductive, PTL
===============================================================================
