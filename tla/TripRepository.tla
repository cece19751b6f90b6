-------------------------- MODULE TripRepository --------------------------
(***************************************************************************)
(* The saved itinerary of one trip and the operations of its owner         *)
(* (packages/db/src/trip-repository.ts, apps/api/src/trips.ts).  Stops,    *)
(* days and the items of each day carry an order_index that is unique      *)
(* under its parent.  Every operation is one transaction that locks the    *)
(* trip's row, checks the revision the caller read, and moves rows with    *)
(* a few UPDATE statements; PostgreSQL checks the unique constraint row by *)
(* row, so each statement must keep clear of every place in use.           *)
(***************************************************************************)
EXTENDS Integers, FiniteSets

CONSTANTS
  Stops,        \* destinations, named by their place: a trip visits a place once
  Days, Items,
  Dates,        \* 1 .. n, the calendar
  Texts,        \* contents of an item
  Offset,       \* ORDER_OFFSET
  Parked,       \* MOVED_ORDER_INDEX
  Starts,       \* saved itineraries to start from
  MaxRevision   \* bound of the model

Rows == Stops \union Days \union Items
Parents == {"stops", "days"} \union Days
Place == [in : Parents \union {"unsaved", "deleted"}, at : Nat]

ASSUME RowsAssumption ==
  /\ IsFiniteSet(Rows)
  /\ Stops \intersect Days = {} /\ Stops \intersect Items = {} /\ Days \intersect Items = {}
  /\ {"stops", "days", "unsaved", "deleted"} \intersect Days = {}
  /\ Dates \subseteq Nat /\ MaxRevision \in Nat
ASSUME OffsetAssumption ==
  Offset \in Nat /\ Parked \in Nat /\ Cardinality(Rows) < Offset /\ Parked = 2 * Offset
ASSUME StartsAssumption ==
  Starts \subseteq [place : [Rows -> Place], date : [Days -> Dates], text : [Items -> Texts]]

VARIABLES
  exists,    \* the row of the trip is there
  revision,  \* trips.revision
  range,     \* trips.start_date and end_date
  place,     \* [row -> its parent and its order_index]
  date,      \* itinerary_days.local_date
  text,      \* the other columns of an item
  audited,   \* audit_events: the deletions recorded
  clashed    \* a statement ran into the unique constraint (and failed its transaction)

saved == <<exists, revision, range, place, date, text, audited, clashed>>

At(p, k) == [in |-> p, at |-> k]

TypeOK ==
  /\ exists \in BOOLEAN /\ clashed \in BOOLEAN
  /\ revision \in Nat
  /\ range \in [from : Dates, to : Dates]
  /\ place \in [Rows -> Place] /\ date \in [Days -> Dates] /\ text \in [Items -> Texts]
  /\ audited \subseteq {"trip"} \union Items

Under(pos, p) == {x \in Rows : pos[x].in = p}
Total(p) == Cardinality(Under(place, p))

\* The orders under every parent are 0 .. n - 1.
Dense(pos) == \A p \in Parents :
  /\ \A x, y \in Under(pos, p) : pos[x].at = pos[y].at => x = y
  /\ \A x \in Under(pos, p) : \A k \in 0 .. pos[x].at - 1 : \E y \in Under(pos, p) : pos[y].at = k

Fitting(pos) ==
  /\ \A x \in Stops : pos[x].in \in {"stops", "unsaved", "deleted"}
  /\ \A d \in Days : pos[d].in \in {"days", "unsaved", "deleted"}
  /\ \A i \in Items : pos[i].in \in {d \in Days : pos[d].in = "days"} \union {"unsaved", "deleted"}

DatesFit == \A d \in Under(place, "days") :
  /\ date[d] \in range.from .. range.to
  /\ \A e \in Under(place, "days") : date[e] = date[d] => e = d

---------------------------------------------------------------------------
\* Transactions: the rows as its statements leave them, and whether every
\* statement kept clear of the unique constraint.

Begin == [pos |-> place, clear |-> TRUE]

\* A row that a statement moves must not meet another row's old or new place.
Clear(old, new) == \A x \in {y \in Rows : old[y] # new[y]} :
  LET there == new[x]
  IN there.in \in Parents => \A y \in Rows \ {x} : there \notin {old[y], new[y]}

Statement(t, new) == [pos |-> new, clear |-> t.clear /\ Clear(t.pos, new)]

\* update ... set order_index = order_index + by where order_index between low and high
Shift(t, p, low, high, by) == Statement(t, [x \in Rows |->
  LET here == t.pos[x]
  IN IF here.in = p /\ here.at \in low .. high THEN At(p, here.at + by) ELSE here])

Put(t, x, p, k) == Statement(t, [t.pos EXCEPT ![x] = At(p, k)])

Top == 4 * Offset   \* above every order_index

ShiftForInsert(t, p, k) ==
  Shift(Shift(t, p, k, Top, Offset), p, k + Offset, Top, 1 - Offset)

CloseOrderGap(t, p, k) ==
  Shift(Shift(t, p, k + 1, Top, Offset), p, k + 1 + Offset, Top, -(Offset + 1))

\* Mutant: the row that moves stays where it is while the others shift.
MoveUnparked(t, x, p, k) ==
  LET old == t.pos[x].at
      shifted == IF k < old THEN Shift(t, p, k, old - 1, 1) ELSE Shift(t, p, old + 1, k, -1)
  IN IF k = old THEN t ELSE Put(shifted, x, p, k)
MoveOrderedRow(t, x, p, k) ==
  LET old == t.pos[x].at
      parked == Put(t, x, p, Parked)
      shifted ==
        IF k < old
        THEN Shift(Shift(parked, p, k, old - 1, Offset), p, k + Offset, old - 1 + Offset, 1 - Offset)
        ELSE Shift(Shift(parked, p, old + 1, k, Offset), p, old + 1 + Offset, k + Offset, -(Offset + 1))
  IN IF k = old THEN t ELSE Put(shifted, x, p, k)

\* updateItem into another day: park, close the gap, make room, place.
\* Mutant: the day the item leaves keeps its gap.
MoveLeavingGap(t, x, d, k) ==
  Put(ShiftForInsert(Put(t, x, t.pos[x].in, Parked), d, k), x, d, k)
MoveToDay(t, x, d, k) ==
  LET from == t.pos[x]
      closed == CloseOrderGap(Put(t, x, from.in, Parked), from.in, from.at)
  IN Put(ShiftForInsert(closed, d, k), x, d, k)

\* A deleted row, with the rows that cascade.
Without(t, gone) == [t EXCEPT !.pos = [x \in Rows |-> IF x \in gone THEN At("deleted", 0) ELSE t.pos[x]]]

---------------------------------------------------------------------------
\* lockOwnedTrip and assertRevision
Locked(expected) == exists /\ expected = revision

\* Every operation ends in bumpTrip.
\* Mutant: the revision stays.
BumpMissing(t) == place' = t.pos /\ clashed' = (clashed \/ ~t.clear) /\ UNCHANGED revision
Bump(t) == place' = t.pos /\ clashed' = (clashed \/ ~t.clear) /\ revision' = revision + 1

\* A place may come back after it was removed.
CreateDestination(expected, x, k) ==
  /\ Locked(expected) /\ place[x].in # "stops" /\ k \in 0 .. Total("stops")
  /\ Bump(Put(ShiftForInsert(Begin, "stops", k), x, "stops", k))
  /\ UNCHANGED <<exists, range, date, text, audited>>

\* Another position, and perhaps another place y.
UpdateDestination(expected, x, y, k) ==
  /\ Locked(expected) /\ place[x].in = "stops" /\ k \in 0 .. Total("stops") - 1
  /\ x = y \/ place[y].in # "stops"
  /\ LET moved == MoveOrderedRow(Begin, x, "stops", k)
     IN Bump(IF x = y THEN moved ELSE Put(Without(moved, {x}), y, "stops", k))
  /\ UNCHANGED <<exists, range, date, text, audited>>

DeleteDestination(expected, x) ==
  /\ Locked(expected) /\ place[x].in = "stops"
  /\ Bump(CloseOrderGap(Without(Begin, {x}), "stops", place[x].at))
  /\ audited' = audited \union {"trip"}
  /\ UNCHANGED <<exists, range, date, text>>

\* assertDateWithinTrip and the day already there for the date
DateFree(x, n) ==
  n \in range.from .. range.to /\ \A d \in Under(place, "days") \ {x} : date[d] # n

CreateDay(expected, x, n, k) ==
  /\ Locked(expected) /\ place[x].in = "unsaved" /\ DateFree(x, n) /\ k \in 0 .. Total("days")
  /\ Bump(Put(ShiftForInsert(Begin, "days", k), x, "days", k))
  /\ date' = [date EXCEPT ![x] = n]
  /\ UNCHANGED <<exists, range, text, audited>>

UpdateDay(expected, x, n, k) ==
  /\ Locked(expected) /\ place[x].in = "days" /\ DateFree(x, n) /\ k \in 0 .. Total("days") - 1
  /\ Bump(MoveOrderedRow(Begin, x, "days", k))
  /\ date' = [date EXCEPT ![x] = n]
  /\ UNCHANGED <<exists, range, text, audited>>

DeleteDay(expected, x) ==
  /\ Locked(expected) /\ place[x].in = "days"
  /\ Bump(CloseOrderGap(Without(Begin, {x} \union Under(place, x)), "days", place[x].at))
  /\ audited' = audited \union {"trip"}
  /\ UNCHANGED <<exists, range, date, text>>

CreateItem(expected, x, d, k, c) ==
  /\ Locked(expected) /\ place[x].in = "unsaved" /\ place[d].in = "days" /\ k \in 0 .. Total(d)
  /\ Bump(Put(ShiftForInsert(Begin, d, k), x, d, k))
  /\ text' = [text EXCEPT ![x] = c]
  /\ UNCHANGED <<exists, range, date, audited>>

\* Other contents, another position in its day, or another day.
UpdateItem(expected, x, d, k, c) ==
  /\ Locked(expected) /\ place[x].in \in Days /\ place[d].in = "days"
  /\ IF place[x].in = d
     THEN k \in 0 .. Total(d) - 1 /\ Bump(MoveOrderedRow(Begin, x, d, k))
     ELSE k \in 0 .. Total(d) /\ Bump(MoveToDay(Begin, x, d, k))
  /\ text' = [text EXCEPT ![x] = c]
  /\ UNCHANGED <<exists, range, date, audited>>

DeleteItem(expected, x) ==
  /\ Locked(expected) /\ place[x].in \in Days
  /\ Bump(CloseOrderGap(Without(Begin, {x}), place[x].in, place[x].at))
  /\ audited' = audited \union {x}
  /\ UNCHANGED <<exists, range, date, text>>

\* Another title, budget, status or visibility, or other dates.
UpdateTrip(expected, from, to) ==
  /\ Locked(expected) /\ from <= to
  /\ <<from, to>> # <<range.from, range.to>> => \A d \in Under(place, "days") : date[d] \in from .. to
  /\ range' = [from |-> from, to |-> to]
  /\ Bump(Begin)
  /\ UNCHANGED <<exists, date, text, audited>>

\* A trip has no parts when it is made.
CreateTrip(from, to) ==
  /\ from <= to
  /\ exists' = TRUE /\ revision' = 1 /\ range' = [from |-> from, to |-> to]
  /\ place' = [x \in Rows |-> At("unsaved", 0)] /\ audited' = {}
  /\ UNCHANGED <<date, text, clashed>>

DeleteTrip(expected) ==
  /\ Locked(expected)
  /\ exists' = FALSE
  /\ place' = Without(Begin, {x \in Rows : place[x].in \in Parents}).pos
  /\ audited' = audited \union {"trip"}
  /\ UNCHANGED <<revision, range, date, text, clashed>>

---------------------------------------------------------------------------
\* A saved trip: made by createTrip and its owner's edits, or generated.
Init ==
  /\ exists = TRUE /\ revision = 1 /\ audited = {} /\ clashed = FALSE
  /\ range \in [from : Dates, to : Dates] /\ range.from <= range.to
  /\ \E s \in Starts : place = s.place /\ date = s.date /\ text = s.text
  /\ Fitting(place) /\ Dense(place) /\ DatesFit

\* The routes of the API, each with the revision its caller read.
StopRoutes == \E x \in Stops, k \in 0 .. Cardinality(Rows) :
  \/ CreateDestination(revision, x, k) \/ DeleteDestination(revision, x)
  \/ \E y \in Stops : UpdateDestination(revision, x, y, k)
DayRoutes == \E x \in Days, n \in Dates, k \in 0 .. Cardinality(Rows) :
  CreateDay(revision, x, n, k) \/ UpdateDay(revision, x, n, k) \/ DeleteDay(revision, x)
ItemRoutes == \E x \in Items, d \in Days, k \in 0 .. Cardinality(Rows), c \in Texts :
  CreateItem(revision, x, d, k, c) \/ UpdateItem(revision, x, d, k, c) \/ DeleteItem(revision, x)
TripRoutes == DeleteTrip(revision) \/ \E from, to \in Dates : UpdateTrip(revision, from, to)

Next == revision < MaxRevision /\ (StopRoutes \/ DayRoutes \/ ItemRoutes \/ TripRoutes)

Spec == Init /\ [][Next]_saved

---------------------------------------------------------------------------
\* The orders of the stops, of the days and of every day's items are
\* 0 .. n - 1, whatever was inserted, moved or deleted; items and days hang
\* under rows that exist.
OrdersAreDense == Dense(place) /\ Fitting(place)

\* No statement of an operation meets the unique constraint on the way, so
\* no reordering the guards admit fails with a database error.
OrderingNeverFails == ~clashed

\* Days keep distinct dates inside the trip's range, through changes of either.
DaysStayInRange == exists => DatesFit

\* What a trip is, between any two operations.
ItineraryIsSound == OrdersAreDense /\ DaysStayInRange

\* The lists of a parent, as the API returns them.
List(p) == [k \in 1 .. Total(p) |-> CHOOSE x \in Under(place, p) : place[x].at = k - 1]

Ordered == INSTANCE OrderedLists WITH
  Elements <- Rows, DayList <- "days", lists <- [p \in Parents |-> List(p)]

\* Shifting order indexes over two offsets amounts to inserting, taking or
\* moving one element of a list, with a new revision each time.
ImplementsLists == Ordered!Spec
=============================================================================
