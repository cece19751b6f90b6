------------------------- MODULE TripRepositoryProofs -------------------------
(***************************************************************************)
(* ItineraryIsSound, OrderingNeverFails and ImplementsLists for any stops, *)
(* days, items, calendar and offset that is larger than the number of      *)
(* rows.  A shift whose targets are free breaks no constraint              *)
(* (ShiftSound); the three helpers of the repository are pairs of such     *)
(* shifts, over one offset and back.  Then what they leave is a list       *)
(* again: by insertion, removal, a move, a transfer to another day and the *)
(* replacement of a stop.  Every operation is one of these, in a           *)
(* transaction of its own.  Last, read as sequences, these lists change as *)
(* OrderedLists says.                                                      *)
(***************************************************************************)
EXTENDS TripRepository, FiniteSetTheorems, SequenceTheorems, TLAPS

\* The rows of a transaction.
Tx == [pos : [Rows -> Place], clear : BOOLEAN]

\* Two rows under p have two places; the places under p are below n, a moved row's aside.
Single(pos, p) == \A x, y \in Rows :
  pos[x].in = p /\ pos[y].in = p /\ pos[x].at = pos[y].at => x = y
Below(pos, p, n) == \A x \in Rows : pos[x].in = p => pos[x].at < n
Roomy(pos, p) == \A x \in Rows : pos[x].in = p => pos[x].at + 1 < Offset \/ pos[x].at = Parked
Vacant(pos, p, k) == \A x \in Rows : pos[x].in = p => pos[x].at # k

\* The rows under p are a list of n.
Listed(pos, p, n) ==
  /\ Single(pos, p) /\ Below(pos, p, n)
  /\ \A k \in 0 .. n - 1 : \E x \in Rows : pos[x].in = p /\ pos[x].at = k

\* None of the other rows stands at k.
Alone(pos, x, p, k) == \A y \in Rows \ {x} : pos[y].in = p => pos[y].at # k

\* Nothing stands where a shift leads, and what the shift leaves.
Free(pos, p, low, high, by) == \A x \in Rows :
  pos[x].in = p /\ pos[x].at \in low .. high =>
    pos[x].at + by \in Nat /\ Vacant(pos, p, pos[x].at + by)
Shifted(old, new, p, low, high, by) == \A x \in Rows :
  new[x] = IF old[x].in = p /\ old[x].at \in low .. high THEN At(p, old[x].at + by) ELSE old[x]

\* The rows of an interval can move by one: nobody outside it is in the way.
WayFree(pos, p, low, high, d) == \A x \in Rows :
  pos[x].in = p /\ pos[x].at \in low .. high =>
    /\ pos[x].at + d \in Nat
    /\ \A y \in Rows : pos[y].in = p /\ pos[y].at \notin low .. high => pos[y].at # pos[x].at + d

\* An interval, the same one an offset away, and the way by one and back.
Stride(low, high, d, low2, high2, back) ==
  /\ low \in Nat /\ high \in Nat /\ low2 \in Nat /\ high2 \in Nat /\ back \in Int
  /\ low2 = low + Offset /\ high2 = high + Offset /\ back = d - Offset
  /\ high + 1 < Offset /\ d \in {1, -1}

\* The offsets, and that what is added to them is a number.
LEMMA Offsets ==
  Offset \in Nat /\ Parked = 2 * Offset /\ Parked \in Nat /\ Top = 4 * Offset /\ Top \in Nat
BY OffsetAssumption DEF Top

\* A place has the parent and the order it is made of.
LEMMA PlaceOf ==
  ASSUME NEW q \in Parents \union {"unsaved", "deleted"}, NEW k \in Nat
  PROVE  At(q, k) \in Place /\ At(q, k).in = q /\ At(q, k).at = k
BY DEF At, Place

\* A shift whose targets are free breaks no constraint.
LEMMA ShiftSound ==
  ASSUME NEW t \in Tx, NEW p \in Parents, NEW low \in Nat, NEW high \in Nat, NEW by \in Int,
         Single(t.pos, p),
         Free(t.pos, p, low, high, by)
  PROVE  /\ Shift(t, p, low, high, by) \in Tx
         /\ Shift(t, p, low, high, by).clear = t.clear
         /\ Shifted(t.pos, Shift(t, p, low, high, by).pos, p, low, high, by)
<1> DEFINE old == t.pos
           in(x) == old[x].in = p /\ old[x].at \in low .. high
           new == [x \in Rows |-> IF in(x) THEN At(p, old[x].at + by) ELSE old[x]]
<1>1. old \in [Rows -> Place] /\ t.clear \in BOOLEAN
  BY DEF Tx
<1>2. Shift(t, p, low, high, by) = [pos |-> new, clear |-> t.clear /\ Clear(old, new)]
  BY DEF Shift, Statement
<1>3. \A x \in Rows : new[x] = IF in(x) THEN At(p, old[x].at + by) ELSE old[x]
  OBVIOUS
<1>4. \A x \in Rows : old[x] \in Place /\ old[x].at \in Nat
  BY <1>1 DEF Place
<1>a. \A x \in Rows : in(x) => old[x].at + by \in Nat /\ Vacant(old, p, old[x].at + by)
  BY DEF Free
<1>5. \A x \in Rows : in(x) => /\ At(p, old[x].at + by) \in Place
                               /\ At(p, old[x].at + by).in = p
                               /\ At(p, old[x].at + by).at = old[x].at + by
  BY <1>a, PlaceOf
<1>6. new \in [Rows -> Place]
  BY <1>4, <1>5
<1> HIDE DEF new
<1>7. Clear(old, new)
  <2> SUFFICES ASSUME NEW x \in Rows, old[x] # new[x], NEW y \in Rows \ {x}
               PROVE  new[x] \notin {old[y], new[y]}
    BY DEF Clear
  <2>1. in(x) /\ new[x] = At(p, old[x].at + by)
    BY <1>3
  <2>2. new[x].in = p /\ new[x].at = old[x].at + by
    BY <1>5, <2>1
  <2>3. new[x] # old[y]
    BY <1>a, <2>1, <2>2 DEF Vacant
  <2>4. new[x] # new[y]
    <3>1. CASE in(y)
      <4>1. new[y].at = old[y].at + by
        BY <1>3, <1>5, <3>1
      <4>2. old[x].at # old[y].at
        BY <2>1, <3>1 DEF Single
      <4>3. old[x].at \in Int /\ old[y].at \in Int
        BY <1>4
      <4> QED BY <2>2, <4>1, <4>2, <4>3
    <3>2. CASE ~in(y)
      BY <1>3, <2>3, <3>2
    <3> QED BY <3>1, <3>2
  <2> QED BY <2>3, <2>4
<1>8. Shift(t, p, low, high, by) = [pos |-> new, clear |-> t.clear]
  BY <1>1, <1>2, <1>7
<1>9. Shifted(old, new, p, low, high, by)
  BY <1>3 DEF Shifted
<1> QED BY <1>1, <1>6, <1>8, <1>9 DEF Tx

\* One row is put at a place where no other row stands.
LEMMA PutSound ==
  ASSUME NEW t \in Tx, NEW x \in Rows, NEW p \in Parents, NEW k \in Nat,
         Alone(t.pos, x, p, k), NEW u, u = Put(t, x, p, k)
  PROVE  /\ u \in Tx /\ u.clear = t.clear /\ u.pos[x] = At(p, k)
         /\ \A y \in Rows \ {x} : u.pos[y] = t.pos[y]
<1> DEFINE new == [t.pos EXCEPT ![x] = At(p, k)]
<1>1. t.pos \in [Rows -> Place] /\ t.clear \in BOOLEAN
  BY DEF Tx
<1>2. u = [pos |-> new, clear |-> t.clear /\ Clear(t.pos, new)]
  BY DEF Put, Statement
<1>3. At(p, k) \in Place /\ At(p, k).in = p /\ At(p, k).at = k
  BY PlaceOf
<1>4. new \in [Rows -> Place] /\ new[x] = At(p, k) /\ \A y \in Rows \ {x} : new[y] = t.pos[y]
  BY <1>1, <1>3
<1> HIDE DEF new
<1>5. Clear(t.pos, new)
  BY <1>3, <1>4 DEF Clear, Alone
<1>6. u = [pos |-> new, clear |-> t.clear]
  BY <1>1, <1>2, <1>5
<1> QED BY <1>1, <1>4, <1>6 DEF Tx

\* The places of a transaction's rows.
LEMMA TxPlaces ==
  ASSUME NEW t \in Tx, NEW x \in Rows
  PROVE  t.pos[x] \in Place /\ t.pos[x].at \in Nat
BY DEF Tx, Place

\* Room is made with two shifts, over one offset and back.
LEMMA ShiftForInsertSound ==
  ASSUME NEW t \in Tx, NEW p \in Parents, NEW k \in Nat,
         Single(t.pos, p), \A x \in Rows : t.pos[x].in = p => t.pos[x].at + 1 < Offset
  PROVE  /\ ShiftForInsert(t, p, k) \in Tx /\ ShiftForInsert(t, p, k).clear = t.clear
         /\ \A x \in Rows :
              ShiftForInsert(t, p, k).pos[x] =
                IF t.pos[x].in = p /\ t.pos[x].at >= k THEN At(p, t.pos[x].at + 1) ELSE t.pos[x]
<1> DEFINE s == Shift(t, p, k, Top, Offset)
           u == Shift(s, p, k + Offset, Top, 1 - Offset)
           up(x) == t.pos[x].in = p /\ t.pos[x].at >= k
<1>1. \A x \in Rows : t.pos[x] \in Place /\ t.pos[x].at \in Nat
  BY TxPlaces
<1>2. Offset \in Nat /\ Top = 4 * Offset /\ Top \in Nat /\ k + Offset \in Nat
  BY Offsets
<1>3. \A x \in Rows : up(x) <=> (t.pos[x].in = p /\ t.pos[x].at \in k .. Top)
  BY <1>1, <1>2
<1>4. s \in Tx /\ s.clear = t.clear
      /\ \A x \in Rows : s.pos[x] = IF up(x) THEN At(p, t.pos[x].at + Offset) ELSE t.pos[x]
  <2>1. ASSUME NEW x \in Rows, t.pos[x].in = p /\ t.pos[x].at \in k .. Top
        PROVE  t.pos[x].at + Offset \in Nat /\ Vacant(t.pos, p, t.pos[x].at + Offset)
    BY <1>1, <1>2, <2>1 DEF Vacant
  <2>2. Free(t.pos, p, k, Top, Offset)
    BY <2>1 DEF Free
  <2>3. s \in Tx /\ s.clear = t.clear /\ Shifted(t.pos, s.pos, p, k, Top, Offset)
    BY <1>2, <2>2, ShiftSound
  <2> HIDE DEF s
  <2> QED BY <1>3, <2>3 DEF Shifted
<1> HIDE DEF s
<1>5. \A x \in Rows : up(x) => s.pos[x].in = p /\ s.pos[x].at = t.pos[x].at + Offset
  BY <1>1, <1>2, <1>4, PlaceOf
<1>6. \A x \in Rows : ~up(x) => s.pos[x] = t.pos[x]
  BY <1>4
<1>7. \A x \in Rows : up(x) <=> (s.pos[x].in = p /\ s.pos[x].at \in k + Offset .. Top)
  <2> SUFFICES ASSUME NEW x \in Rows
               PROVE  up(x) <=> (s.pos[x].in = p /\ s.pos[x].at \in k + Offset .. Top)
    OBVIOUS
  <2>1. CASE up(x)
    BY <1>1, <1>2, <1>5, <2>1
  <2>2. CASE ~up(x)
    BY <1>1, <1>2, <1>6, <2>2
  <2> QED BY <2>1, <2>2
<1>8. Single(s.pos, p)
  <2> SUFFICES ASSUME NEW x \in Rows, NEW y \in Rows, s.pos[x].in = p, s.pos[y].in = p,
                      s.pos[x].at = s.pos[y].at
               PROVE  x = y
    BY DEF Single
  <2>1. CASE up(x) /\ up(y)
    BY <1>1, <1>2, <1>5, <2>1 DEF Single
  <2>2. CASE up(x) /\ ~up(y)
    BY <1>1, <1>2, <1>5, <1>6, <2>2
  <2>3. CASE ~up(x) /\ up(y)
    BY <1>1, <1>2, <1>5, <1>6, <2>3
  <2>4. CASE ~up(x) /\ ~up(y)
    BY <1>6, <2>4 DEF Single
  <2> QED BY <2>1, <2>2, <2>3, <2>4
<1>9. u \in Tx /\ u.clear = s.clear
      /\ \A x \in Rows : u.pos[x] = IF up(x) THEN At(p, s.pos[x].at + (1 - Offset)) ELSE s.pos[x]
  <2>1. ASSUME NEW x \in Rows, s.pos[x].in = p /\ s.pos[x].at \in k + Offset .. Top
        PROVE  s.pos[x].at + (1 - Offset) \in Nat /\ Vacant(s.pos, p, s.pos[x].at + (1 - Offset))
    <3>1. up(x) /\ s.pos[x].at + (1 - Offset) = t.pos[x].at + 1
      BY <1>1, <1>2, <1>5, <1>7, <2>1
    <3>2. ASSUME NEW y \in Rows, s.pos[y].in = p PROVE s.pos[y].at # t.pos[x].at + 1
      <4>1. CASE up(y)
        BY <1>1, <1>2, <1>5, <3>1, <4>1
      <4>2. CASE ~up(y)
        BY <1>1, <1>2, <1>6, <3>1, <3>2, <4>2
      <4> QED BY <4>1, <4>2
    <3> QED BY <1>1, <3>1, <3>2 DEF Vacant
  <2>2. 1 - Offset \in Int
    BY <1>2
  <2>3. Free(s.pos, p, k + Offset, Top, 1 - Offset)
    BY <2>1 DEF Free
  <2>4. u \in Tx /\ u.clear = s.clear /\ Shifted(s.pos, u.pos, p, k + Offset, Top, 1 - Offset)
    BY <1>2, <1>4, <1>8, <2>2, <2>3, ShiftSound
  <2> HIDE DEF u
  <2> QED BY <1>7, <2>4 DEF Shifted
<1>10. u = ShiftForInsert(t, p, k)
  BY DEF ShiftForInsert, s
<1> HIDE DEF u
<1>11. ASSUME NEW x \in Rows
       PROVE  u.pos[x] = IF up(x) THEN At(p, t.pos[x].at + 1) ELSE t.pos[x]
  <2>1. CASE up(x)
    <3>1. s.pos[x].at + (1 - Offset) = t.pos[x].at + 1
      BY <1>1, <1>2, <1>5, <2>1
    <3> QED BY <1>9, <2>1, <3>1
  <2>2. CASE ~up(x)
    BY <1>6, <1>9, <2>2
  <2> QED BY <2>1, <2>2
<1> QED BY <1>4, <1>9, <1>10, <1>11

\* The gap at k is closed likewise, beside a row that is parked.
LEMMA CloseOrderGapSound ==
  ASSUME NEW t \in Tx, NEW p \in Parents, NEW k \in Nat, k < Offset,
         Single(t.pos, p), Roomy(t.pos, p), Vacant(t.pos, p, k)
  PROVE  /\ CloseOrderGap(t, p, k) \in Tx /\ CloseOrderGap(t, p, k).clear = t.clear
         /\ \A x \in Rows :
              CloseOrderGap(t, p, k).pos[x] =
                IF t.pos[x].in = p /\ t.pos[x].at > k THEN At(p, t.pos[x].at - 1) ELSE t.pos[x]
<1> DEFINE s == Shift(t, p, k + 1, Top, Offset)
           u == Shift(s, p, k + 1 + Offset, Top, -(Offset + 1))
           up(x) == t.pos[x].in = p /\ t.pos[x].at > k
<1>1. \A x \in Rows : t.pos[x] \in Place /\ t.pos[x].at \in Nat
  BY TxPlaces
<1>2. /\ Offset \in Nat /\ Top = 4 * Offset /\ Top \in Nat /\ Parked = 2 * Offset
      /\ k + 1 \in Nat /\ k + 1 + Offset \in Nat
  BY Offsets
<1>a. \A x \in Rows : t.pos[x].in = p => t.pos[x].at + 1 < Offset \/ t.pos[x].at = 2 * Offset
  BY <1>2 DEF Roomy
<1>3. \A x \in Rows : up(x) <=> (t.pos[x].in = p /\ t.pos[x].at \in k + 1 .. Top)
  BY <1>1, <1>2, <1>a
<1>4. s \in Tx /\ s.clear = t.clear
      /\ \A x \in Rows : s.pos[x] = IF up(x) THEN At(p, t.pos[x].at + Offset) ELSE t.pos[x]
  <2>1. ASSUME NEW x \in Rows, t.pos[x].in = p /\ t.pos[x].at \in k + 1 .. Top
        PROVE  t.pos[x].at + Offset \in Nat /\ Vacant(t.pos, p, t.pos[x].at + Offset)
    <3>1. t.pos[x].at > 0 /\ t.pos[x].at \in Nat /\ t.pos[x].at + Offset \in Nat
      BY <1>1, <1>2, <2>1
    <3>2. ASSUME NEW y \in Rows, t.pos[y].in = p PROVE t.pos[y].at # t.pos[x].at + Offset
      BY <1>1, <1>2, <1>a, <2>1, <3>1, <3>2
    <3> QED BY <3>1, <3>2 DEF Vacant
  <2>2. Free(t.pos, p, k + 1, Top, Offset)
    BY <2>1 DEF Free
  <2>3. s \in Tx /\ s.clear = t.clear /\ Shifted(t.pos, s.pos, p, k + 1, Top, Offset)
    BY <1>2, <2>2, ShiftSound
  <2> HIDE DEF s
  <2> QED BY <1>3, <2>3 DEF Shifted
<1> HIDE DEF s
<1>5. \A x \in Rows : up(x) => s.pos[x].in = p /\ s.pos[x].at = t.pos[x].at + Offset
  BY <1>1, <1>2, <1>4, PlaceOf
<1>6. \A x \in Rows : ~up(x) => s.pos[x] = t.pos[x]
  BY <1>4
<1>b. \A x \in Rows : t.pos[x].in = p /\ ~up(x) => t.pos[x].at < k
  BY <1>1 DEF Vacant
<1>7. \A x \in Rows : up(x) <=> (s.pos[x].in = p /\ s.pos[x].at \in k + 1 + Offset .. Top)
  <2> SUFFICES ASSUME NEW x \in Rows
               PROVE  up(x) <=> (s.pos[x].in = p /\ s.pos[x].at \in k + 1 + Offset .. Top)
    OBVIOUS
  <2>1. CASE up(x)
    BY <1>1, <1>2, <1>a, <1>5, <2>1
  <2>2. CASE ~up(x)
    BY <1>1, <1>2, <1>6, <2>2
  <2> QED BY <2>1, <2>2
<1>8. Single(s.pos, p)
  <2> SUFFICES ASSUME NEW x \in Rows, NEW y \in Rows, s.pos[x].in = p, s.pos[y].in = p,
                      s.pos[x].at = s.pos[y].at
               PROVE  x = y
    BY DEF Single
  <2>1. CASE up(x) /\ up(y)
    BY <1>1, <1>2, <1>5, <2>1 DEF Single
  <2>2. CASE up(x) /\ ~up(y)
    BY <1>1, <1>2, <1>5, <1>6, <1>b, <2>2
  <2>3. CASE ~up(x) /\ up(y)
    BY <1>1, <1>2, <1>5, <1>6, <1>b, <2>3
  <2>4. CASE ~up(x) /\ ~up(y)
    BY <1>6, <2>4 DEF Single
  <2> QED BY <2>1, <2>2, <2>3, <2>4
<1>9. u \in Tx /\ u.clear = s.clear
      /\ \A x \in Rows :
           u.pos[x] = IF up(x) THEN At(p, s.pos[x].at + (-(Offset + 1))) ELSE s.pos[x]
  <2>1. ASSUME NEW x \in Rows, s.pos[x].in = p /\ s.pos[x].at \in k + 1 + Offset .. Top
        PROVE  /\ s.pos[x].at + (-(Offset + 1)) \in Nat
               /\ Vacant(s.pos, p, s.pos[x].at + (-(Offset + 1)))
    <3>1. up(x) /\ s.pos[x].at + (-(Offset + 1)) = t.pos[x].at - 1
      BY <1>1, <1>2, <1>5, <1>7, <2>1
    <3>2. t.pos[x].at - 1 \in Nat /\ t.pos[x].at - 1 >= k
      BY <1>1, <3>1
    <3>3. ASSUME NEW y \in Rows, s.pos[y].in = p PROVE s.pos[y].at # t.pos[x].at - 1
      <4>1. CASE up(y)
        <5>1. t.pos[y].at > 0 /\ s.pos[y].at = t.pos[y].at + Offset
          BY <1>1, <1>5, <4>1
        <5>2. t.pos[y].at + 1 < Offset \/ t.pos[y].at = 2 * Offset
          BY <1>a, <4>1
        <5>3. t.pos[x].at + 1 < Offset \/ t.pos[x].at = 2 * Offset
          BY <1>a, <3>1
        <5> QED BY <1>1, <1>2, <5>1, <5>2, <5>3
      <4>2. CASE ~up(y)
        BY <1>1, <1>6, <1>b, <3>2, <3>3, <4>2
      <4> QED BY <4>1, <4>2
    <3> QED BY <3>1, <3>2, <3>3 DEF Vacant
  <2>2. -(Offset + 1) \in Int
    BY <1>2
  <2>3. Free(s.pos, p, k + 1 + Offset, Top, -(Offset + 1))
    BY <2>1 DEF Free
  <2>4. /\ u \in Tx /\ u.clear = s.clear
        /\ Shifted(s.pos, u.pos, p, k + 1 + Offset, Top, -(Offset + 1))
    BY <1>2, <1>4, <1>8, <2>2, <2>3, ShiftSound
  <2> HIDE DEF u
  <2> QED BY <1>7, <2>4 DEF Shifted
<1>10. u = CloseOrderGap(t, p, k)
  BY DEF CloseOrderGap, s
<1> HIDE DEF u
<1>11. ASSUME NEW x \in Rows
       PROVE  u.pos[x] = IF up(x) THEN At(p, t.pos[x].at - 1) ELSE t.pos[x]
  <2>1. CASE up(x)
    <3>1. s.pos[x].at + (-(Offset + 1)) = t.pos[x].at - 1
      BY <1>1, <1>2, <1>5, <2>1
    <3> QED BY <1>9, <2>1, <3>1
  <2>2. CASE ~up(x)
    BY <1>6, <1>9, <2>2
  <2> QED BY <2>1, <2>2
<1> QED BY <1>4, <1>9, <1>10, <1>11

\* The rows of an interval move by one place, over the offset and back.
LEMMA TwoShifts ==
  ASSUME NEW t \in Tx, NEW p \in Parents, NEW low, NEW high, NEW d, NEW low2, NEW high2,
         NEW back, Stride(low, high, d, low2, high2, back),
         Single(t.pos, p), Roomy(t.pos, p),
         WayFree(t.pos, p, low, high, d),
         NEW u, u = Shift(Shift(t, p, low, high, Offset), p, low2, high2, back)
  PROVE  u \in Tx /\ u.clear = t.clear /\ Shifted(t.pos, u.pos, p, low, high, d)
<1> DEFINE s == Shift(t, p, low, high, Offset)
           mv(x) == t.pos[x].in = p /\ t.pos[x].at \in low .. high
<1>0. u = Shift(s, p, low2, high2, back)
  OBVIOUS
<1>1. \A x \in Rows : t.pos[x] \in Place /\ t.pos[x].at \in Nat
  BY TxPlaces
<1>2. /\ Offset \in Nat /\ Parked = 2 * Offset
      /\ low \in Nat /\ high \in Nat /\ low2 \in Nat /\ high2 \in Nat /\ back \in Int
      /\ low2 = low + Offset /\ high2 = high + Offset /\ back = d - Offset
      /\ high + 1 < Offset /\ d \in {1, -1}
  BY Offsets DEF Stride
<1>3. \A x \in Rows : t.pos[x].in = p => t.pos[x].at + 1 < Offset \/ t.pos[x].at = 2 * Offset
  BY <1>2 DEF Roomy
<1>4. s \in Tx /\ s.clear = t.clear /\ Shifted(t.pos, s.pos, p, low, high, Offset)
  <2>1. ASSUME NEW x \in Rows, t.pos[x].in = p /\ t.pos[x].at \in low .. high
        PROVE  t.pos[x].at + Offset \in Nat /\ Vacant(t.pos, p, t.pos[x].at + Offset)
    <3>1. t.pos[x].at \in Nat /\ t.pos[x].at + 1 < Offset
      BY <1>1, <1>2, <2>1
    <3>2. ASSUME NEW y \in Rows, t.pos[y].in = p PROVE t.pos[y].at # t.pos[x].at + Offset
      BY <1>1, <1>2, <1>3, <3>1, <3>2
    <3> QED BY <1>2, <3>1, <3>2 DEF Vacant
  <2>2. Free(t.pos, p, low, high, Offset)
    BY <2>1 DEF Free
  <2> QED BY <1>2, <2>2, ShiftSound
<1> HIDE DEF s
<1>5. \A x \in Rows : mv(x) => /\ s.pos[x].in = p /\ s.pos[x].at = t.pos[x].at + Offset
                               /\ t.pos[x].at + 1 < Offset
  <2> SUFFICES ASSUME NEW x \in Rows, mv(x)
               PROVE  /\ s.pos[x].in = p /\ s.pos[x].at = t.pos[x].at + Offset
                      /\ t.pos[x].at + 1 < Offset
    OBVIOUS
  <2>1. s.pos[x] = At(p, t.pos[x].at + Offset)
    BY <1>4 DEF Shifted
  <2>2. t.pos[x].at + Offset \in Nat /\ t.pos[x].at + 1 < Offset
    BY <1>1, <1>2
  <2> QED BY <2>1, <2>2, PlaceOf
<1>6. \A x \in Rows : ~mv(x) => s.pos[x] = t.pos[x]
  BY <1>4 DEF Shifted
<1>7. \A x \in Rows : mv(x) <=> (s.pos[x].in = p /\ s.pos[x].at \in low2 .. high2)
  <2> SUFFICES ASSUME NEW x \in Rows
               PROVE  mv(x) <=> (s.pos[x].in = p /\ s.pos[x].at \in low2 .. high2)
    OBVIOUS
  <2>1. CASE mv(x)
    BY <1>1, <1>2, <1>5, <2>1
  <2>2. CASE ~mv(x)
    BY <1>1, <1>2, <1>3, <1>6, <2>2
  <2> QED BY <2>1, <2>2
<1>8. Single(s.pos, p)
  <2> SUFFICES ASSUME NEW x \in Rows, NEW y \in Rows, s.pos[x].in = p, s.pos[y].in = p,
                      s.pos[x].at = s.pos[y].at
               PROVE  x = y
    BY DEF Single
  <2>1. CASE mv(x) /\ mv(y)
    BY <1>1, <1>2, <1>5, <2>1 DEF Single
  <2>2. CASE mv(x) /\ ~mv(y)
    BY <1>1, <1>2, <1>3, <1>5, <1>6, <2>2
  <2>3. CASE ~mv(x) /\ mv(y)
    BY <1>1, <1>2, <1>3, <1>5, <1>6, <2>3
  <2>4. CASE ~mv(x) /\ ~mv(y)
    BY <1>6, <2>4 DEF Single
  <2> QED BY <2>1, <2>2, <2>3, <2>4
<1>9. Free(s.pos, p, low2, high2, back)
  <2> SUFFICES ASSUME NEW x \in Rows, s.pos[x].in = p /\ s.pos[x].at \in low2 .. high2
               PROVE  s.pos[x].at + back \in Nat /\ Vacant(s.pos, p, s.pos[x].at + back)
    BY DEF Free
  <2>1. mv(x) /\ s.pos[x].at + back = t.pos[x].at + d
    BY <1>1, <1>2, <1>5, <1>7
  <2>2. t.pos[x].at + d \in Nat /\ t.pos[x].at + 1 < Offset /\ t.pos[x].at \in Nat
    BY <1>1, <1>5, <2>1 DEF WayFree
  <2>3. ASSUME NEW y \in Rows, s.pos[y].in = p PROVE s.pos[y].at # t.pos[x].at + d
    <3>1. CASE mv(y)
      BY <1>1, <1>2, <1>5, <2>2, <3>1
    <3>2. CASE ~mv(y)
      BY <1>6, <2>1, <2>3, <3>2 DEF WayFree
    <3> QED BY <3>1, <3>2
  <2> QED BY <2>1, <2>2, <2>3 DEF Vacant
<1>10. u \in Tx /\ u.clear = s.clear /\ Shifted(s.pos, u.pos, p, low2, high2, back)
  BY <1>0, <1>2, <1>4, <1>8, <1>9, ShiftSound
<1>11. ASSUME NEW x \in Rows
       PROVE  u.pos[x] = IF mv(x) THEN At(p, t.pos[x].at + d) ELSE t.pos[x]
  <2>1. CASE mv(x)
    <3>1. s.pos[x].at + back = t.pos[x].at + d
      BY <1>1, <1>2, <1>5, <2>1
    <3>2. u.pos[x] = At(p, s.pos[x].at + back)
      BY <1>7, <1>10, <2>1 DEF Shifted
    <3> QED BY <2>1, <3>1, <3>2
  <2>2. CASE ~mv(x)
    BY <1>6, <1>7, <1>10, <2>2 DEF Shifted
  <2> QED BY <2>1, <2>2
<1>12. Shifted(t.pos, u.pos, p, low, high, d)
  BY <1>11 DEF Shifted
<1> QED BY <1>4, <1>10, <1>12

\* Where a row stands after another one moved from old to k.
Stepped(a, old, k) ==
  IF k <= a /\ a < old THEN a + 1 ELSE IF old < a /\ a <= k THEN a - 1 ELSE a

\* moveOrderedRow: parked, shifted over one offset and back, placed: the row is
\* at k, and every other row took its step.
LEMMA MoveOrderedRowSound ==
  ASSUME NEW t \in Tx, NEW p \in Parents, NEW x \in Rows, t.pos[x].in = p,
         NEW k \in Nat, k + 1 < Offset, Single(t.pos, p),
         \A y \in Rows : t.pos[y].in = p => t.pos[y].at + 1 < Offset
  PROVE  LET u == MoveOrderedRow(t, x, p, k)
         IN /\ u \in Tx /\ u.clear = t.clear /\ u.pos[x] = At(p, k)
            /\ \A y \in Rows \ {x} :
                 u.pos[y] = IF t.pos[y].in = p THEN At(p, Stepped(t.pos[y].at, t.pos[x].at, k))
                            ELSE t.pos[y]
<1> DEFINE old == t.pos[x].at
           s == Put(t, x, p, Parked)
           v == IF k < old
                THEN Shift(Shift(s, p, k, old - 1, Offset),
                           p, k + Offset, old - 1 + Offset, 1 - Offset)
                ELSE Shift(Shift(s, p, old + 1, k, Offset),
                           p, old + 1 + Offset, k + Offset, -(Offset + 1))
           u == Put(v, x, p, k)
           other(y) == IF t.pos[y].in = p THEN At(p, Stepped(t.pos[y].at, old, k)) ELSE t.pos[y]
<1>1. \A y \in Rows : t.pos[y] \in Place /\ t.pos[y].at \in Nat
  BY TxPlaces
<1>2. Offset \in Nat /\ Parked = 2 * Offset /\ Parked \in Nat
  BY Offsets
<1>3. old \in Nat /\ old + 1 < Offset
  BY <1>1
<1>4. MoveOrderedRow(t, x, p, k) = IF k = old THEN t ELSE u
  BY DEF MoveOrderedRow
<1>5. \A y \in Rows \ {x} : t.pos[y].in = p => t.pos[y].at # old
  BY DEF Single
<1>6. CASE k = old
  <2>1. \A y \in Rows \ {x} : t.pos[y].in = p => Stepped(t.pos[y].at, old, k) = t.pos[y].at
    BY <1>1, <1>3, <1>6 DEF Stepped
  <2>2. \A y \in Rows : t.pos[y].in = p => t.pos[y] = At(p, t.pos[y].at)
    BY <1>1 DEF Place, At
  <2> QED BY <1>4, <1>6, <2>1, <2>2
<1>7. CASE k # old
  <2> HIDE DEF v
  <2>1. /\ s \in Tx /\ s.clear = t.clear /\ s.pos[x] = At(p, Parked)
        /\ \A y \in Rows \ {x} : s.pos[y] = t.pos[y]
    <3>1. Alone(t.pos, x, p, Parked)
      BY <1>1, <1>2 DEF Alone
    <3> QED BY <1>2, <3>1, PutSound
  <2>2. s.pos[x].in = p /\ s.pos[x].at = Parked
    BY <1>2, <2>1, PlaceOf
  <2> HIDE DEF s
  <2>3. Single(s.pos, p)
    <3> SUFFICES ASSUME NEW y \in Rows, NEW z \in Rows, s.pos[y].in = p, s.pos[z].in = p,
                        s.pos[y].at = s.pos[z].at
                 PROVE  y = z
      BY DEF Single
    <3>1. CASE y # x /\ z # x
      BY <2>1, <3>1 DEF Single
    <3>2. CASE y = x /\ z # x
      BY <1>1, <1>2, <2>1, <2>2, <3>2
    <3>3. CASE y # x /\ z = x
      BY <1>1, <1>2, <2>1, <2>2, <3>3
    <3> QED BY <3>1, <3>2, <3>3
  <2>4. Roomy(s.pos, p)
    BY <2>1, <2>2 DEF Roomy
  <2>5. \A y \in Rows : s.pos[y].in = p =>
           (y = x /\ s.pos[y].at = 2 * Offset) \/ (y # x /\ s.pos[y].at = t.pos[y].at
                /\ s.pos[y].at # old /\ s.pos[y].at \in Nat /\ s.pos[y].at + 1 < Offset)
    BY <1>1, <1>2, <1>5, <2>1, <2>2
  <2>6. ASSUME k < old
        PROVE  v \in Tx /\ v.clear = t.clear /\ \A y \in Rows \ {x} : v.pos[y] = other(y)
    <3> DEFINE low == k  high == old - 1
               low2 == low + Offset  high2 == high + Offset  back == 1 - Offset
               d == 1
    <3>1. Stride(low, high, d, low2, high2, back)
      BY <1>2, <1>3, <2>6 DEF Stride
    <3>2. WayFree(s.pos, p, low, high, d)
      BY <1>2, <1>3, <2>5, <2>6 DEF WayFree
    <3>3. v = Shift(Shift(s, p, low, high, Offset), p, low2, high2, back)
      BY <2>6 DEF v
    <3> HIDE DEF low, high, low2, high2, back, d
    <3>4. v \in Tx /\ v.clear = s.clear /\ Shifted(s.pos, v.pos, p, low, high, d)
      BY <2>1, <2>3, <2>4, <3>1, <3>2, <3>3, TwoShifts
    <3>6. ASSUME NEW y \in Rows \ {x} PROVE v.pos[y] = other(y)
      <4>1. CASE t.pos[y].in = p /\ t.pos[y].at \in k .. old - 1
        <5>1. v.pos[y] = At(p, t.pos[y].at + 1)
          BY <2>1, <3>4, <4>1 DEF Shifted, low, high, d
        <5>2. Stepped(t.pos[y].at, old, k) = t.pos[y].at + 1
          BY <1>1, <1>3, <4>1 DEF Stepped
        <5> QED BY <4>1, <5>1, <5>2
      <4>2. CASE t.pos[y].in = p /\ t.pos[y].at \notin k .. old - 1
        <5>1. v.pos[y] = t.pos[y]
          BY <2>1, <3>4, <4>2 DEF Shifted, low, high, d
        <5>2. Stepped(t.pos[y].at, old, k) = t.pos[y].at
          BY <1>1, <1>3, <2>6, <4>2 DEF Stepped
        <5>3. t.pos[y] = At(p, t.pos[y].at)
          BY <1>1, <4>2 DEF Place, At
        <5> QED BY <4>2, <5>1, <5>2, <5>3
      <4>3. CASE t.pos[y].in # p
        BY <2>1, <3>4, <4>3 DEF Shifted
      <4> QED BY <4>1, <4>2, <4>3
    <3> QED BY <2>1, <3>4, <3>6
  <2>7. ASSUME ~(k < old)
        PROVE  v \in Tx /\ v.clear = t.clear /\ \A y \in Rows \ {x} : v.pos[y] = other(y)
    <3> DEFINE low == old + 1  high == k
               low2 == low + Offset  high2 == high + Offset  back == -(Offset + 1)
               d == -1
    <3>1. Stride(low, high, d, low2, high2, back)
      BY <1>2, <1>3, <2>7 DEF Stride
    <3>2. WayFree(s.pos, p, low, high, d)
      <4> SUFFICES ASSUME NEW y \in Rows, s.pos[y].in = p, s.pos[y].at \in low .. high
                   PROVE  /\ s.pos[y].at + d \in Nat
                          /\ \A z \in Rows : s.pos[z].in = p /\ s.pos[z].at \notin low .. high =>
                               s.pos[z].at # s.pos[y].at + d
        BY DEF WayFree
      <4>1. s.pos[y].at \in Nat /\ s.pos[y].at > old /\ s.pos[y].at <= k
        BY <1>3
      <4> QED BY <1>2, <1>3, <2>5, <2>7, <4>1
    <3>3. v = Shift(Shift(s, p, low, high, Offset), p, low2, high2, back)
      BY <2>7 DEF v
    <3> HIDE DEF low, high, low2, high2, back, d
    <3>4. v \in Tx /\ v.clear = s.clear /\ Shifted(s.pos, v.pos, p, low, high, d)
      BY <2>1, <2>3, <2>4, <3>1, <3>2, <3>3, TwoShifts
    <3>6. ASSUME NEW y \in Rows \ {x} PROVE v.pos[y] = other(y)
      <4>1. CASE t.pos[y].in = p /\ t.pos[y].at \in old + 1 .. k
        <5>1. v.pos[y] = At(p, t.pos[y].at + -1)
          BY <2>1, <3>4, <4>1 DEF Shifted, low, high, d
        <5>2. Stepped(t.pos[y].at, old, k) = t.pos[y].at + -1
          BY <1>1, <1>3, <2>7, <4>1 DEF Stepped
        <5> QED BY <4>1, <5>1, <5>2
      <4>2. CASE t.pos[y].in = p /\ t.pos[y].at \notin old + 1 .. k
        <5>1. v.pos[y] = t.pos[y]
          BY <2>1, <3>4, <4>2 DEF Shifted, low, high, d
        <5>2. Stepped(t.pos[y].at, old, k) = t.pos[y].at
          BY <1>1, <1>3, <2>7, <4>2 DEF Stepped
        <5>3. t.pos[y] = At(p, t.pos[y].at)
          BY <1>1, <4>2 DEF Place, At
        <5> QED BY <4>2, <5>1, <5>2, <5>3
      <4>3. CASE t.pos[y].in # p
        BY <2>1, <3>4, <4>3 DEF Shifted
      <4> QED BY <4>1, <4>2, <4>3
    <3> QED BY <2>1, <3>4, <3>6
  <2>8. v \in Tx /\ v.clear = t.clear /\ \A y \in Rows \ {x} : v.pos[y] = other(y)
    BY <2>1, <2>6, <2>7
  <2>9. Alone(v.pos, x, p, k)
    <3> SUFFICES ASSUME NEW y \in Rows \ {x}, t.pos[y].in = p PROVE v.pos[y].at # k
      BY <2>8 DEF Alone
    <3>1. /\ Stepped(t.pos[y].at, old, k) \in Nat /\ Stepped(t.pos[y].at, old, k) # k
      BY <1>1, <1>3, <1>5, <1>7 DEF Stepped
    <3>2. v.pos[y] = At(p, Stepped(t.pos[y].at, old, k))
      BY <2>8
    <3> QED BY <3>1, <3>2, PlaceOf
  <2>10. /\ u \in Tx /\ u.clear = v.clear /\ u.pos[x] = At(p, k)
         /\ \A y \in Rows \ {x} : u.pos[y] = v.pos[y]
    BY <2>8, <2>9, PutSound
  <2> HIDE DEF u
  <2> QED BY <1>4, <1>7, <2>8, <2>10
<1> QED BY <1>6, <1>7

\* A list of n holds n rows.
LEMMA ListedCount ==
  ASSUME NEW pos \in [Rows -> Place], NEW p \in Parents, NEW n \in Nat, Listed(pos, p, n)
  PROVE  Cardinality(Under(pos, p)) = n /\ n < Offset
<1> DEFINE U == Under(pos, p)
           f == [k \in 0 .. n - 1 |-> CHOOSE x \in U : pos[x].at = k]
<1>1. \A x \in U : x \in Rows /\ pos[x].in = p /\ pos[x].at \in 0 .. n - 1
  BY DEF Under, Listed, Below, Place
<1>2. \A k \in 0 .. n - 1 : f[k] \in U /\ pos[f[k]].at = k
  BY DEF Under, Listed
<1>3. f \in [0 .. n - 1 -> U]
  BY <1>2
<1>4. \A x \in U : f[pos[x].at] = x
  BY <1>1, <1>2 DEF Listed, Single
<1>5. \A x \in U : \E k \in 0 .. n - 1 : f[k] = x
  BY <1>1, <1>4
<1>6. \A j, k \in 0 .. n - 1 : f[j] = f[k] => j = k
  BY <1>2
<1> DEFINE D == 0 .. n - 1
<1> HIDE DEF f
<1>7. f \in Bijection(D, U)
  <2>1. f \in [D -> U] /\ (\A a, b \in D : f[a] = f[b] => a = b)
        /\ \A x \in U : \E k \in D : f[k] = x
    BY <1>3, <1>5, <1>6
  <2> HIDE DEF D, U
  <2> QED BY <2>1 DEF Bijection, Injection, IsInjective, Surjection
<1>8. ExistsBijection(0 .. n - 1, U)
  BY <1>7 DEF ExistsBijection
<1>9. IsFiniteSet(0 .. n - 1) /\ Cardinality(0 .. n - 1) = n
  BY FS_Interval
<1>10. Cardinality(U) = n
  BY <1>8, <1>9, FS_Bijection
<1>11. U \in SUBSET Rows /\ IsFiniteSet(Rows)
  BY RowsAssumption DEF Under
<1>12. Cardinality(U) <= Cardinality(Rows) /\ Cardinality(Rows) < Offset
  BY <1>11, FS_Subset, OffsetAssumption
<1>13. Cardinality(Rows) \in Nat /\ Offset \in Nat
  BY <1>11, FS_CardinalityType, OffsetAssumption
<1> QED BY <1>10, <1>12, <1>13

\* Dense orders make lists.
LEMMA DenseListed ==
  ASSUME NEW pos \in [Rows -> Place], Dense(pos), NEW p \in Parents
  PROVE  /\ Cardinality(Under(pos, p)) \in Nat
         /\ Listed(pos, p, Cardinality(Under(pos, p)))
<1> DEFINE U == Under(pos, p)
           S == {pos[x].at : x \in U}
           g == [x \in U |-> pos[x].at]
           n == Cardinality(U)
<1>1. \A x \in U : x \in Rows /\ pos[x].in = p /\ pos[x].at \in Nat
  BY DEF Under, Place
<1>2. \A x, y \in U : pos[x].at = pos[y].at => x = y
  BY DEF Dense
<1>3. \A x \in U : \A k \in 0 .. pos[x].at - 1 : k \in S
  BY DEF Dense
<1>4. IsFiniteSet(U) /\ n \in Nat
  BY RowsAssumption, FS_Subset, FS_CardinalityType DEF Under
<1>5. g \in Surjection(U, S) /\ g \in Injection(U, S)
  <2>1. g \in [U -> S] /\ (\A a, b \in U : g[a] = g[b] => a = b)
        /\ \A a \in S : \E x \in U : g[x] = a
    BY <1>2
  <2> HIDE DEF g, S, U
  <2> QED BY <2>1 DEF Surjection, Injection, IsInjective
<1>6. IsFiniteSet(S) /\ Cardinality(S) = n
  BY <1>4, <1>5, FS_Surjection
<1> HIDE DEF n, g
<1>7. ASSUME NEW x \in U PROVE pos[x].at < n
  <2> DEFINE a == pos[x].at
  <2>1. a \in Nat /\ a \in S
    BY <1>1
  <2>2. 0 .. a \in SUBSET S
    BY <1>3, <2>1
  <2>3. Cardinality(0 .. a) = a + 1
    BY <2>1, FS_Interval
  <2>4. Cardinality(0 .. a) <= Cardinality(S)
    BY <1>6, <2>2, FS_Subset
  <2> QED BY <1>4, <1>6, <2>1, <2>3, <2>4
<1>8. ASSUME NEW k \in 0 .. n - 1 PROVE k \in S
  <2> SUFFICES ASSUME k \notin S PROVE FALSE
    OBVIOUS
  <2>1. S \in SUBSET (0 .. k - 1)
    <3> SUFFICES ASSUME NEW x \in U PROVE pos[x].at \in 0 .. k - 1
      OBVIOUS
    <3>1. pos[x].at \in Nat /\ k \in Nat /\ pos[x].at # k
      BY <1>1, <1>4
    <3>2. ~(k \in 0 .. pos[x].at - 1)
      BY <1>3
    <3> QED BY <3>1, <3>2
  <2>2. IsFiniteSet(0 .. k - 1) /\ Cardinality(0 .. k - 1) = k
    <3>1. k \in Nat
      BY <1>4
    <3>2. CASE k = 0
      <4>1. 0 .. k - 1 = {}
        BY <3>2
      <4> QED BY <3>2, <4>1, FS_EmptySet
    <3>3. CASE k # 0
      <4>1. PICK m : m = k - 1
        OBVIOUS
      <4>2. m \in Int /\ ~(0 > m) /\ m - 0 + 1 = k
        BY <3>1, <3>3, <4>1
      <4>3. IsFiniteSet(0 .. m) /\ Cardinality(0 .. m) = m - 0 + 1
        BY <4>2, FS_Interval
      <4> QED BY <4>1, <4>2, <4>3
    <3> QED BY <3>2, <3>3
  <2>3. Cardinality(S) <= k
    BY <2>1, <2>2, FS_Subset
  <2> QED BY <1>4, <1>6, <2>3
<1>9. Single(pos, p)
  BY <1>2 DEF Single, Under
<1>10. Below(pos, p, n)
  BY <1>7 DEF Below, Under
<1>11. \A k \in 0 .. n - 1 : \E x \in Rows : pos[x].in = p /\ pos[x].at = k
  BY <1>1, <1>8
<1>12. Listed(pos, p, n)
  BY <1>9, <1>10, <1>11 DEF Listed
<1> QED BY <1>4, <1>12 DEF n

\* Every parent's rows are a list.
Lists(pos) == \A p \in Parents : \E n \in Nat : Listed(pos, p, n)

\* Lists are dense.
LEMMA ListsAreDense ==
  ASSUME NEW pos \in [Rows -> Place], Lists(pos)
  PROVE  Dense(pos)
<1> SUFFICES ASSUME NEW p \in Parents
             PROVE  /\ \A x, y \in Under(pos, p) : pos[x].at = pos[y].at => x = y
                    /\ \A x \in Under(pos, p) : \A k \in 0 .. pos[x].at - 1 :
                         \E y \in Under(pos, p) : pos[y].at = k
  BY DEF Dense
<1>1. PICK n \in Nat : Listed(pos, p, n)
  BY DEF Lists
<1>2. \A x, y \in Under(pos, p) : pos[x].at = pos[y].at => x = y
  BY <1>1 DEF Listed, Single, Under
<1>3. ASSUME NEW x \in Under(pos, p), NEW k \in 0 .. pos[x].at - 1
      PROVE  \E y \in Under(pos, p) : pos[y].at = k
  <2>1. pos[x].at < n /\ pos[x].at \in Nat
    BY <1>1 DEF Listed, Below, Under, Place
  <2>2. k \in 0 .. n - 1
    BY <2>1
  <2> QED BY <1>1, <2>2 DEF Listed, Under
<1> QED BY <1>2, <1>3

\* A parent that no row leaves, enters or moves under keeps its list.
LEMMA ListStays ==
  ASSUME NEW pos, NEW new, NEW p, NEW n, Listed(pos, p, n),
         \A y \in Rows : pos[y].in = p \/ new[y].in = p => new[y] = pos[y]
  PROVE  Listed(new, p, n)
BY DEF Listed, Single, Below

\* The rows but those of X stay under their parents, and in place unless under one of P.
Kept(old, new, X, P) == \A y \in Rows \ X :
  new[y].in = old[y].in /\ (old[y].in \notin P => new[y] = old[y])

\* Row x stands at k under p, and the rows from there on made room; the others stay
\* away from p.
Opened(pos, new, p, x, k) ==
  /\ new[x].in = p /\ new[x].at = k
  /\ \A y \in Rows \ {x} :
       /\ pos[y].in # p => new[y].in # p
       /\ pos[y].in = p => /\ new[y].in = p
                           /\ new[y].at = IF pos[y].at >= k THEN pos[y].at + 1 ELSE pos[y].at

\* A list of n with one more.
LEMMA OpenedList ==
  ASSUME NEW pos \in [Rows -> Place], NEW new \in [Rows -> Place], NEW p \in Parents,
         NEW x \in Rows, NEW n \in Nat, Listed(pos, p, n), NEW k \in 0 .. n,
         pos[x].in # p, Opened(pos, new, p, x, k)
  PROVE  Listed(new, p, n + 1)
<1>1. \A y \in Rows : pos[y].at \in Nat /\ new[y].at \in Nat
  BY DEF Place
<1>2. k \in Nat
  OBVIOUS
<1>3. Single(pos, p) /\ \A y \in Rows : pos[y].in = p => pos[y].at < n
  BY DEF Listed, Below
<1>10. new[x].in = p /\ new[x].at = k
  BY DEF Opened
<1>11. \A y \in Rows \ {x} : new[y].in = p <=> pos[y].in = p
  BY DEF Opened
<1>12. \A y \in Rows \ {x} : pos[y].in = p =>
         new[y].at = IF pos[y].at >= k THEN pos[y].at + 1 ELSE pos[y].at
  BY DEF Opened
<1>13. Single(new, p)
  <2> SUFFICES ASSUME NEW y \in Rows, NEW z \in Rows, new[y].in = p, new[z].in = p,
                      new[y].at = new[z].at
               PROVE  y = z
    BY DEF Single
  <2>1. CASE y # x /\ z # x
    BY <1>1, <1>2, <1>3, <1>11, <1>12, <2>1 DEF Single
  <2>2. CASE y = x /\ z # x
    BY <1>1, <1>2, <1>10, <1>11, <1>12, <2>2
  <2>3. CASE y # x /\ z = x
    BY <1>1, <1>2, <1>10, <1>11, <1>12, <2>3
  <2> QED BY <2>1, <2>2, <2>3
<1>14. Below(new, p, n + 1)
  <2> SUFFICES ASSUME NEW y \in Rows, new[y].in = p PROVE new[y].at < n + 1
    BY DEF Below
  <2> QED BY <1>1, <1>2, <1>3, <1>10, <1>11, <1>12
<1>15. ASSUME NEW j \in 0 .. n PROVE \E y \in Rows : new[y].in = p /\ new[y].at = j
  <2>1. CASE j = k
    BY <1>10, <2>1
  <2>2. CASE j < k
    <3>1. PICK y \in Rows : pos[y].in = p /\ pos[y].at = j
      BY <1>2, <2>2 DEF Listed
    <3> QED BY <1>2, <1>11, <1>12, <2>2, <3>1
  <2>3. CASE j > k
    <3>1. j - 1 \in 0 .. n - 1
      BY <1>2, <2>3
    <3>2. PICK y \in Rows : pos[y].in = p /\ pos[y].at = j - 1
      BY <3>1 DEF Listed
    <3> QED BY <1>2, <1>11, <1>12, <2>3, <3>2
  <2> QED BY <1>2, <2>1, <2>2, <2>3
<1> QED BY <1>13, <1>14, <1>15 DEF Listed

\* The n rows under p got one more, at k.
Added(t, u, p, x, n, k) ==
  /\ u \in Tx /\ u.clear = t.clear /\ Listed(u.pos, p, n + 1)
  /\ Opened(t.pos, u.pos, p, x, k) /\ Kept(t.pos, u.pos, {x}, {p})

\* Insertion: room is made, and the row put there.
LEMMA InsertSound ==
  ASSUME NEW t \in Tx, NEW p \in Parents, NEW x \in Rows, NEW n \in Nat, Listed(t.pos, p, n),
         n < Offset, NEW k \in 0 .. n, t.pos[x].in # p,
         NEW u, u = Put(ShiftForInsert(t, p, k), x, p, k)
  PROVE  Added(t, u, p, x, n, k)
<1> DEFINE s == ShiftForInsert(t, p, k)
<1>1. \A y \in Rows : t.pos[y] \in Place /\ t.pos[y].at \in Nat
  BY TxPlaces
<1>2. Offset \in Nat /\ k \in Nat
  BY Offsets
<1>3. Single(t.pos, p) /\ \A y \in Rows : t.pos[y].in = p => t.pos[y].at < n
  BY DEF Listed, Below
<1>4. \A y \in Rows : t.pos[y].in = p => t.pos[y].at + 1 < Offset
  BY <1>1, <1>2, <1>3
<1>5. /\ s \in Tx /\ s.clear = t.clear
      /\ \A y \in Rows :
           s.pos[y] = IF t.pos[y].in = p /\ t.pos[y].at >= k
                      THEN At(p, t.pos[y].at + 1) ELSE t.pos[y]
  BY <1>2, <1>3, <1>4, ShiftForInsertSound
<1> HIDE DEF s
<1>6. \A y \in Rows : t.pos[y].in # p => s.pos[y] = t.pos[y]
  BY <1>5
<1>7. ASSUME NEW y \in Rows, t.pos[y].in = p
      PROVE  /\ s.pos[y].in = p
             /\ s.pos[y].at = IF t.pos[y].at >= k THEN t.pos[y].at + 1 ELSE t.pos[y].at
  <2>1. t.pos[y].at + 1 \in Nat
    BY <1>1
  <2> QED BY <1>5, <1>7, <2>1, PlaceOf
<1>8. Alone(s.pos, x, p, k)
  BY <1>1, <1>2, <1>6, <1>7 DEF Alone
<1>9. /\ u \in Tx /\ u.clear = s.clear /\ u.pos[x] = At(p, k)
      /\ \A y \in Rows \ {x} : u.pos[y] = s.pos[y]
  BY <1>2, <1>5, <1>8, PutSound DEF s
<1>10. u.pos[x].in = p /\ u.pos[x].at = k
  BY <1>2, <1>9, PlaceOf
<1>11. \A y \in Rows \ {x} :
         u.pos[y].in = t.pos[y].in /\ (t.pos[y].in # p => u.pos[y] = t.pos[y])
  BY <1>6, <1>7, <1>9
<1>12. \A y \in Rows \ {x} : t.pos[y].in = p =>
         u.pos[y].at = IF t.pos[y].at >= k THEN t.pos[y].at + 1 ELSE t.pos[y].at
  BY <1>7, <1>9
<1>13. Opened(t.pos, u.pos, p, x, k)
  BY <1>10, <1>11, <1>12 DEF Opened
<1>14. t.pos \in [Rows -> Place] /\ u.pos \in [Rows -> Place]
  BY <1>9 DEF Tx
<1>15. Listed(u.pos, p, n + 1)
  BY <1>13, <1>14, OpenedList
<1>16. Kept(t.pos, u.pos, {x}, {p})
  BY <1>11 DEF Kept
<1> QED BY <1>5, <1>9, <1>13, <1>15, <1>16 DEF Added

\* The rows under p but x close up over k; the others stay away from p.
ClosedUp(pos, new, p, x, k) == \A y \in Rows \ {x} :
  /\ pos[y].in # p => new[y].in # p
  /\ pos[y].in = p => /\ new[y].in = p
                      /\ new[y].at = IF pos[y].at > k THEN pos[y].at - 1 ELSE pos[y].at

\* A list that loses the row at k, and closes up behind it.
LEMMA GapList ==
  ASSUME NEW pos \in [Rows -> Place], NEW new \in [Rows -> Place], NEW p \in Parents,
         NEW x \in Rows, NEW n \in Nat, Listed(pos, p, n), NEW k \in Nat,
         pos[x].in = p, pos[x].at = k, new[x].in # p, ClosedUp(pos, new, p, x, k)
  PROVE  n - 1 \in Nat /\ Listed(new, p, n - 1)
<1>1. \A y \in Rows : pos[y].at \in Nat /\ new[y].at \in Nat
  BY DEF Place
<1>2. \A y \in Rows : pos[y].in = p => pos[y].at < n
  BY DEF Listed, Below
<1>3. k < n
  BY <1>2
<1>4. \A y \in Rows \ {x} : pos[y].in = p => pos[y].at # k
  BY DEF Listed, Single
<1>5. \A y \in Rows : new[y].in = p =>
        /\ y # x /\ pos[y].in = p /\ pos[y].at # k
        /\ new[y].at = IF pos[y].at > k THEN pos[y].at - 1 ELSE pos[y].at
  BY <1>4 DEF ClosedUp
<1>6. Single(new, p)
  <2> SUFFICES ASSUME NEW y \in Rows, NEW z \in Rows, new[y].in = p, new[z].in = p,
                      new[y].at = new[z].at
               PROVE  y = z
    BY DEF Single
  <2>1. pos[y].at = pos[z].at
    BY <1>1, <1>5
  <2> QED BY <1>5, <2>1 DEF Listed, Single
<1>7. Below(new, p, n - 1)
  <2> SUFFICES ASSUME NEW y \in Rows, new[y].in = p PROVE new[y].at < n - 1
    BY DEF Below
  <2> QED BY <1>1, <1>2, <1>3, <1>5
<1>8. ASSUME NEW j \in 0 .. n - 1 - 1 PROVE \E y \in Rows : new[y].in = p /\ new[y].at = j
  <2>1. CASE j < k
    <3>1. j \in 0 .. n - 1
      OBVIOUS
    <3>2. PICK y \in Rows : pos[y].in = p /\ pos[y].at = j
      BY <3>1 DEF Listed
    <3> QED BY <1>1, <2>1, <3>2 DEF ClosedUp
  <2>2. CASE j >= k
    <3>1. j + 1 \in 0 .. n - 1
      OBVIOUS
    <3>2. PICK y \in Rows : pos[y].in = p /\ pos[y].at = j + 1
      BY <3>1 DEF Listed
    <3> QED BY <1>1, <2>2, <3>2 DEF ClosedUp
  <2> QED BY <2>1, <2>2
<1> QED BY <1>3, <1>6, <1>7, <1>8 DEF Listed

\* Row x of p moved to k, and the rows between took a step; the others stay away from p.
Moved(pos, new, p, x, k) ==
  /\ new[x].in = p /\ new[x].at = k
  /\ \A y \in Rows \ {x} :
       /\ pos[y].in # p => new[y].in # p
       /\ pos[y].in = p => new[y].in = p /\ new[y].at = Stepped(pos[y].at, pos[x].at, k)

\* A list whose row x moves to k, the rows between one step the other way.
LEMMA MovedList ==
  ASSUME NEW pos \in [Rows -> Place], NEW new \in [Rows -> Place], NEW p \in Parents,
         NEW x \in Rows, NEW n \in Nat, Listed(pos, p, n), NEW k \in 0 .. n - 1,
         pos[x].in = p, Moved(pos, new, p, x, k)
  PROVE  Listed(new, p, n)
<1> DEFINE old == pos[x].at
<1>1. \A y \in Rows : pos[y].at \in Nat /\ new[y].at \in Nat
  BY DEF Place
<1>2. \A y \in Rows : pos[y].in = p => pos[y].at < n
  BY DEF Listed, Below
<1>3. old \in 0 .. n - 1 /\ k \in Nat
  BY <1>1, <1>2
<1>4. \A y \in Rows \ {x} : pos[y].in = p => pos[y].at # old
  BY DEF Listed, Single
<1>5. \A y \in Rows \ {x} : new[y].in = p =>
        /\ pos[y].in = p /\ pos[y].at # old
        /\ new[y].at = Stepped(pos[y].at, old, k)
  BY <1>4 DEF Moved
<1>5b. \A y \in Rows \ {x} : pos[y].in = p =>
         new[y].in = p /\ new[y].at = Stepped(pos[y].at, old, k)
  BY DEF Moved
<1>5c. new[x].in = p /\ new[x].at = k
  BY DEF Moved
<1> HIDE DEF old
<1>5a. ASSUME NEW y \in Rows \ {x}, new[y].in = p PROVE new[y].at # k
  <2> DEFINE a == pos[y].at
  <2>1. a \in Nat /\ a # old /\ new[y].at = Stepped(a, old, k)
    BY <1>1, <1>5, <1>5a
  <2> HIDE DEF a
  <2> QED BY <1>3, <2>1 DEF Stepped
<1>6. Single(new, p)
  <2> SUFFICES ASSUME NEW y \in Rows, NEW z \in Rows, new[y].in = p, new[z].in = p,
                      new[y].at = new[z].at
               PROVE  y = z
    BY DEF Single
  <2>1. CASE y # x /\ z # x
    <3> DEFINE a == pos[y].at
               b == pos[z].at
    <3>1. a \in Nat /\ b \in Nat /\ a # old /\ b # old
      BY <1>1, <1>5, <2>1
    <3>2. Stepped(a, old, k) = Stepped(b, old, k)
      BY <1>5, <2>1
    <3> HIDE DEF a, b
    <3>3. a = b
      BY <1>3, <3>1, <3>2 DEF Stepped
    <3>4. pos[y].at = pos[z].at
      BY <3>3 DEF a, b
    <3> QED BY <1>5, <2>1, <3>4 DEF Listed, Single
  <2>2. CASE y = x /\ z # x
    BY <1>5a, <1>5c, <2>2
  <2>3. CASE y # x /\ z = x
    BY <1>5a, <1>5c, <2>3
  <2> QED BY <2>1, <2>2, <2>3
<1>7. Below(new, p, n)
  <2> SUFFICES ASSUME NEW y \in Rows, new[y].in = p PROVE new[y].at < n
    BY DEF Below
  <2>1. CASE y = x
    BY <1>5c, <2>1
  <2>2. CASE y # x
    <3>1. pos[y].at < n /\ new[y].at = Stepped(pos[y].at, old, k)
      BY <1>2, <1>5, <2>2
    <3> QED BY <1>1, <1>3, <3>1 DEF Stepped
  <2> QED BY <2>1, <2>2
<1>8. ASSUME NEW j \in 0 .. n - 1 PROVE \E y \in Rows : new[y].in = p /\ new[y].at = j
  <2> DEFINE i == IF k < old /\ j > k /\ j <= old THEN j - 1
                  ELSE IF k > old /\ j >= old /\ j < k THEN j + 1 ELSE j
  <2>1. CASE j = k
    BY <1>5c, <2>1
  <2>2. CASE j # k
    <3>1. i \in 0 .. n - 1 /\ i # old /\ Stepped(i, old, k) = j
      BY <1>3, <2>2 DEF Stepped
    <3> HIDE DEF i
    <3>2. PICK y \in Rows : pos[y].in = p /\ pos[y].at = i
      BY <3>1 DEF Listed
    <3>3. y # x
      BY <3>1, <3>2 DEF old
    <3> QED BY <1>5b, <3>1, <3>2, <3>3
  <2> QED BY <2>1, <2>2
<1> QED BY <1>6, <1>7, <1>8 DEF Listed

\* Which names are parents.
LEMMA Kinds ==
  /\ "stops" \in Parents /\ "days" \in Parents /\ Days \subseteq Parents
  /\ "unsaved" \notin Parents /\ "deleted" \notin Parents
  /\ "stops" \notin Days /\ "days" \notin Days
BY RowsAssumption DEF Parents

\* Another list stays as it is.
LEMMA OtherList ==
  ASSUME NEW old, NEW new, NEW X, NEW P, Kept(old, new, X, P),
         NEW q, q \notin P, \A x \in X : old[x].in # q /\ new[x].in # q,
         NEW n, Listed(old, q, n)
  PROVE  Listed(new, q, n)
<1>1. \A y \in Rows : old[y].in = q \/ new[y].in = q => new[y] = old[y]
  BY DEF Kept
<1> QED BY <1>1, ListStays

\* Row x of the n rows under p moved to k.
Rearranged(t, u, p, x, n, k) ==
  /\ u \in Tx /\ u.clear = t.clear /\ Listed(u.pos, p, n) /\ u.pos[x] = At(p, k)
  /\ Moved(t.pos, u.pos, p, x, k) /\ Kept(t.pos, u.pos, {}, {p})

\* A move within a list of n leaves a list of n.
LEMMA MoveSound ==
  ASSUME NEW t \in Tx, NEW p \in Parents, NEW x \in Rows, t.pos[x].in = p,
         NEW n \in Nat, Listed(t.pos, p, n), n < Offset, NEW k \in 0 .. n - 1,
         NEW u, u = MoveOrderedRow(t, x, p, k)
  PROVE  Rearranged(t, u, p, x, n, k)
<1>1. \A y \in Rows : t.pos[y] \in Place /\ t.pos[y].at \in Nat
  BY TxPlaces
<1>2. Offset \in Nat /\ k \in Nat /\ k + 1 < Offset
  BY Offsets
<1>3. Single(t.pos, p) /\ \A y \in Rows : t.pos[y].in = p => t.pos[y].at < n
  BY DEF Listed, Below
<1>4. \A y \in Rows : t.pos[y].in = p => t.pos[y].at + 1 < Offset
  BY <1>1, <1>2, <1>3
<1>5. /\ u \in Tx /\ u.clear = t.clear /\ u.pos[x] = At(p, k)
      /\ \A y \in Rows \ {x} :
           u.pos[y] = IF t.pos[y].in = p THEN At(p, Stepped(t.pos[y].at, t.pos[x].at, k))
                      ELSE t.pos[y]
  BY <1>2, <1>3, <1>4, MoveOrderedRowSound
<1>6. u.pos[x].in = p /\ u.pos[x].at = k
  BY <1>2, <1>5, PlaceOf
<1>7. ASSUME NEW y \in Rows \ {x}, t.pos[y].in = p
      PROVE  u.pos[y].in = p /\ u.pos[y].at = Stepped(t.pos[y].at, t.pos[x].at, k)
  <2>1. u.pos[y] = At(p, Stepped(t.pos[y].at, t.pos[x].at, k))
    BY <1>5, <1>7
  <2> QED BY <2>1 DEF At
<1>8. \A y \in Rows \ {x} : t.pos[y].in # p => u.pos[y] = t.pos[y]
  BY <1>5
<1>9. t.pos \in [Rows -> Place] /\ u.pos \in [Rows -> Place]
  BY <1>5 DEF Tx
<1>9a. Moved(t.pos, u.pos, p, x, k)
  BY <1>6, <1>7, <1>8 DEF Moved
<1>10. Listed(u.pos, p, n)
  BY <1>9, <1>9a, MovedList
<1>11. Kept(t.pos, u.pos, {}, {p})
  BY <1>6, <1>7, <1>8 DEF Kept
<1> QED BY <1>5, <1>9a, <1>10, <1>11 DEF Rearranged

\* Deleted rows hang under no parent, the others stay.
LEMMA WithoutSound ==
  ASSUME NEW t \in Tx, NEW gone \in SUBSET Rows
  PROVE  /\ Without(t, gone) \in Tx /\ Without(t, gone).clear = t.clear
         /\ \A y \in Rows \ gone : Without(t, gone).pos[y] = t.pos[y]
         /\ \A y \in gone : /\ Without(t, gone).pos[y] = At("deleted", 0)
                            /\ Without(t, gone).pos[y].in = "deleted"
<1> DEFINE pos == [x \in Rows |-> IF x \in gone THEN At("deleted", 0) ELSE t.pos[x]]
<1>1. t.pos \in [Rows -> Place] /\ t.clear \in BOOLEAN /\ t = [pos |-> t.pos, clear |-> t.clear]
  BY DEF Tx
<1>2. At("deleted", 0) \in Place /\ At("deleted", 0).in = "deleted"
  BY PlaceOf
<1>3. /\ pos \in [Rows -> Place]
      /\ \A y \in Rows : pos[y] = IF y \in gone THEN At("deleted", 0) ELSE t.pos[y]
  BY <1>1, <1>2
<1>4. Without(t, gone) = [pos |-> pos, clear |-> t.clear]
  BY <1>1 DEF Without
<1> HIDE DEF pos
<1> QED BY <1>1, <1>2, <1>3, <1>4 DEF Tx

\* The n rows under p lost one, with rows that hang elsewhere.
Removed(t, u, gone, x, p, n) ==
  /\ u \in Tx /\ u.clear = t.clear /\ n - 1 \in Nat /\ Listed(u.pos, p, n - 1)
  /\ \A y \in gone : u.pos[y].in = "deleted" /\ u.pos[y] = At("deleted", 0)
  /\ ClosedUp(t.pos, u.pos, p, x, t.pos[x].at) /\ Kept(t.pos, u.pos, gone, {p})

\* One row of p goes, with rows that hang elsewhere, and the gap closes.
LEMMA RemoveSound ==
  ASSUME NEW t \in Tx, NEW p \in Parents, NEW n \in Nat, Listed(t.pos, p, n), n < Offset,
         NEW gone \in SUBSET Rows, NEW x \in gone, t.pos[x].in = p,
         \A y \in gone \ {x} : t.pos[y].in # p,
         NEW u, u = CloseOrderGap(Without(t, gone), p, t.pos[x].at)
  PROVE  Removed(t, u, gone, x, p, n)
<1> DEFINE s == Without(t, gone)
           k == t.pos[x].at
<1>1. \A y \in Rows : t.pos[y] \in Place /\ t.pos[y].at \in Nat
  BY TxPlaces
<1>2. Single(t.pos, p) /\ \A y \in Rows : t.pos[y].in = p => t.pos[y].at < n
  BY DEF Listed, Below
<1>3. Offset \in Nat /\ k \in Nat /\ k < Offset /\ x \in Rows
  BY <1>1, <1>2, Offsets
<1>4. /\ s \in Tx /\ s.clear = t.clear /\ \A y \in Rows \ gone : s.pos[y] = t.pos[y]
      /\ \A y \in gone : s.pos[y] = At("deleted", 0) /\ s.pos[y].in = "deleted"
  BY WithoutSound
<1> HIDE DEF s
<1>5. \A y \in Rows : s.pos[y].in = p => y \notin gone /\ s.pos[y] = t.pos[y]
  BY <1>4, Kinds
<1>6. Single(s.pos, p)
  BY <1>2, <1>5 DEF Single
<1>7. Roomy(s.pos, p)
  BY <1>1, <1>2, <1>3, <1>5 DEF Roomy
<1>8. Vacant(s.pos, p, k)
  BY <1>2, <1>3, <1>5 DEF Vacant, Single
<1>9. u = CloseOrderGap(s, p, k)
  BY DEF s
<1>10. /\ u \in Tx /\ u.clear = s.clear
       /\ \A y \in Rows :
            u.pos[y] = IF s.pos[y].in = p /\ s.pos[y].at > k
                       THEN At(p, s.pos[y].at - 1) ELSE s.pos[y]
  BY <1>3, <1>4, <1>6, <1>7, <1>8, <1>9, CloseOrderGapSound
<1>11. \A y \in gone : u.pos[y].in = "deleted" /\ u.pos[y] = At("deleted", 0)
  BY <1>4, <1>10, Kinds
<1>12. \A y \in Rows \ gone : t.pos[y].in # p => u.pos[y] = t.pos[y]
  BY <1>4, <1>10
<1>13. ASSUME NEW y \in Rows \ gone, t.pos[y].in = p
       PROVE  /\ u.pos[y].in = p
              /\ u.pos[y].at = IF t.pos[y].at > k THEN t.pos[y].at - 1 ELSE t.pos[y].at
  <2>1. s.pos[y] = t.pos[y]
    BY <1>4
  <2>2. CASE t.pos[y].at > k
    <3>1. u.pos[y] = At(p, t.pos[y].at - 1)
      BY <1>10, <1>13, <2>1, <2>2
    <3> QED BY <2>2, <3>1 DEF At
  <2>3. CASE ~(t.pos[y].at > k)
    <3>1. u.pos[y] = t.pos[y]
      BY <1>10, <2>1, <2>3
    <3> QED BY <1>13, <2>3, <3>1
  <2> QED BY <2>2, <2>3
<1>14. Kept(t.pos, u.pos, gone, {p})
  BY <1>12, <1>13 DEF Kept
<1>15. t.pos \in [Rows -> Place] /\ u.pos \in [Rows -> Place]
  BY <1>10 DEF Tx
<1>16. \A y \in Rows \ {x} : t.pos[y].in # p => u.pos[y].in # p
  BY <1>11, <1>12, Kinds
<1>17. \A y \in Rows \ {x} : t.pos[y].in = p =>
         u.pos[y].in = p /\ u.pos[y].at = IF t.pos[y].at > k THEN t.pos[y].at - 1 ELSE t.pos[y].at
  BY <1>13
<1>18. u.pos[x].in # p
  BY <1>11, Kinds
<1>18a. ClosedUp(t.pos, u.pos, p, x, k)
  BY <1>16, <1>17 DEF ClosedUp
<1>19. n - 1 \in Nat /\ Listed(u.pos, p, n - 1)
  BY <1>3, <1>15, <1>18, <1>18a, GapList
<1> QED BY <1>4, <1>10, <1>11, <1>14, <1>18a, <1>19 DEF Removed

\* Row x of the n rows under p can go to place k of the m rows under d.
Transfer(t, x, p, n, d, m, k) ==
  /\ t.pos[x].in = p /\ d # p
  /\ Listed(t.pos, p, n) /\ n < Offset
  /\ Listed(t.pos, d, m) /\ m < Offset
  /\ k \in 0 .. m

Transferred(t, u, x, p, n, d, m, k) ==
  /\ u \in Tx /\ u.clear = t.clear
  /\ ClosedUp(t.pos, u.pos, p, x, t.pos[x].at) /\ Opened(t.pos, u.pos, d, x, k)
  /\ n - 1 \in Nat /\ Listed(u.pos, p, n - 1) /\ Listed(u.pos, d, m + 1)
  /\ Kept(t.pos, u.pos, {x}, {p, d})

\* A row of one list is placed in another.
LEMMA MoveToDaySound ==
  ASSUME NEW t \in Tx, NEW x \in Rows, NEW p \in Parents, NEW n \in Nat,
         NEW d \in Parents, NEW m \in Nat, NEW k \in Nat, Transfer(t, x, p, n, d, m, k),
         NEW u, u = MoveToDay(t, x, d, k)
  PROVE  Transferred(t, u, x, p, n, d, m, k)
<1>0. /\ t.pos[x].in = p /\ d # p
      /\ Listed(t.pos, p, n) /\ n < Offset
      /\ Listed(t.pos, d, m) /\ m < Offset
      /\ k \in 0 .. m
  BY DEF Transfer
<1> DEFINE s == Put(t, x, p, Parked)
           g == t.pos[x].at
           c == CloseOrderGap(s, p, g)
<1>1. \A y \in Rows : t.pos[y] \in Place /\ t.pos[y].at \in Nat
  BY TxPlaces
<1>2. Single(t.pos, p) /\ \A y \in Rows : t.pos[y].in = p => t.pos[y].at < n
  BY <1>0 DEF Listed, Below
<1>3. Offset \in Nat /\ Parked = 2 * Offset /\ Parked \in Nat /\ g \in Nat /\ g < Offset
  BY <1>0, <1>1, <1>2, Offsets
<1>4. Alone(t.pos, x, p, Parked)
  BY <1>0, <1>1, <1>2, <1>3 DEF Alone
<1>5. /\ s \in Tx /\ s.clear = t.clear /\ s.pos[x] = At(p, Parked)
      /\ \A y \in Rows \ {x} : s.pos[y] = t.pos[y]
  BY <1>0, <1>3, <1>4, PutSound
<1>6. s.pos[x].in = p /\ s.pos[x].at = Parked
  BY <1>0, <1>3, <1>5, PlaceOf
<1> HIDE DEF s
<1>7. Single(s.pos, p)
  <2> SUFFICES ASSUME NEW y \in Rows, NEW z \in Rows, s.pos[y].in = p, s.pos[z].in = p,
                      s.pos[y].at = s.pos[z].at
               PROVE  y = z
    BY DEF Single
  <2>1. CASE y # x /\ z # x
    BY <1>0, <1>2, <1>5, <2>1 DEF Single
  <2>2. CASE y = x \/ z = x
    BY <1>0, <1>4, <1>5, <1>6, <2>2 DEF Alone
  <2> QED BY <2>1, <2>2
<1>8. Roomy(s.pos, p)
  <2> SUFFICES ASSUME NEW y \in Rows, s.pos[y].in = p
               PROVE  s.pos[y].at + 1 < Offset \/ s.pos[y].at = Parked
    BY DEF Roomy
  <2>1. CASE y = x
    BY <1>0, <1>6, <2>1
  <2>2. CASE y # x
    BY <1>0, <1>1, <1>2, <1>3, <1>5, <2>2
  <2> QED BY <2>1, <2>2
<1>9. Vacant(s.pos, p, g)
  <2> SUFFICES ASSUME NEW y \in Rows, s.pos[y].in = p PROVE s.pos[y].at # g
    BY DEF Vacant
  <2>1. CASE y = x
    BY <1>0, <1>3, <1>6, <2>1
  <2>2. CASE y # x
    BY <1>0, <1>2, <1>5, <2>2 DEF Single
  <2> QED BY <2>1, <2>2
<1>10. /\ c \in Tx /\ c.clear = s.clear
       /\ \A y \in Rows :
            c.pos[y] = IF s.pos[y].in = p /\ s.pos[y].at > g
                       THEN At(p, s.pos[y].at - 1) ELSE s.pos[y]
  BY <1>0, <1>3, <1>5, <1>7, <1>8, <1>9, CloseOrderGapSound
<1>11. u = Put(ShiftForInsert(c, d, k), x, d, k)
  BY <1>0 DEF MoveToDay, s
<1> HIDE DEF c
<1>12. c.pos[x].in = p
  <2>1. c.pos[x] = At(p, Parked - 1)
    BY <1>0, <1>3, <1>6, <1>10
  <2> QED BY <2>1 DEF At
<1>13. \A y \in Rows \ {x} : t.pos[y].in # p => c.pos[y] = t.pos[y]
  BY <1>0, <1>5, <1>10
<1>14. ASSUME NEW y \in Rows \ {x}, t.pos[y].in = p
       PROVE  /\ c.pos[y].in = p
              /\ c.pos[y].at = IF t.pos[y].at > g THEN t.pos[y].at - 1 ELSE t.pos[y].at
  <2>1. s.pos[y] = t.pos[y]
    BY <1>0, <1>5
  <2>2. CASE t.pos[y].at > g
    <3>1. c.pos[y] = At(p, t.pos[y].at - 1)
      BY <1>0, <1>10, <1>14, <2>1, <2>2
    <3> QED BY <2>2, <3>1 DEF At
  <2>3. CASE ~(t.pos[y].at > g)
    <3>1. c.pos[y] = t.pos[y]
      BY <1>0, <1>10, <2>1, <2>3
    <3> QED BY <1>0, <1>14, <2>3, <3>1
  <2> QED BY <2>2, <2>3
<1> HIDE DEF g
<1>15. \A y \in Rows : t.pos[y].in = d \/ c.pos[y].in = d => c.pos[y] = t.pos[y]
  BY <1>0, <1>12, <1>13, <1>14
<1>16. Listed(c.pos, d, m) /\ c.pos[x].in # d
  BY <1>0, <1>12, <1>15, ListStays
<1>17a. /\ u \in Tx /\ u.clear = c.clear /\ Listed(u.pos, d, m + 1)
        /\ Opened(c.pos, u.pos, d, x, k) /\ Kept(c.pos, u.pos, {x}, {d})
  <2>1. Added(c, u, d, x, m, k)
    BY <1>0, <1>10, <1>11, <1>16, InsertSound
  <2> QED BY <2>1 DEF Added
<1>17. /\ u \in Tx
       /\ \A y \in Rows \ {x} :
            u.pos[y].in = c.pos[y].in /\ (c.pos[y].in # d => u.pos[y] = c.pos[y])
  BY <1>17a DEF Kept
<1>18. u.pos[x].in = d /\ u.pos[x].at = k
  BY <1>17a DEF Opened
<1>18a. Opened(t.pos, u.pos, d, x, k)
  <2> SUFFICES ASSUME NEW y \in Rows \ {x}
               PROVE  /\ t.pos[y].in # d => u.pos[y].in # d
                      /\ t.pos[y].in = d =>
                           /\ u.pos[y].in = d
                           /\ u.pos[y].at = IF t.pos[y].at >= k THEN t.pos[y].at + 1
                                            ELSE t.pos[y].at
    BY <1>18 DEF Opened
  <2>1. CASE t.pos[y].in = d
    <3>1. c.pos[y] = t.pos[y]
      BY <1>15, <2>1
    <3> QED BY <1>17a, <2>1, <3>1 DEF Opened
  <2>2. CASE t.pos[y].in # d
    BY <1>15, <1>17, <2>2
  <2> QED BY <2>1, <2>2
<1>19. \A y \in Rows \ {x} : t.pos[y].in = p =>
         u.pos[y].in = p /\ u.pos[y].at = IF t.pos[y].at > g THEN t.pos[y].at - 1 ELSE t.pos[y].at
  BY <1>0, <1>14, <1>17
<1>20. \A y \in Rows \ {x} : t.pos[y].in # p => u.pos[y].in = t.pos[y].in
  BY <1>0, <1>13, <1>17
<1>21. \A y \in Rows \ {x} : t.pos[y].in \notin {p, d} => u.pos[y] = t.pos[y]
  BY <1>0, <1>13, <1>17
<1>22. Kept(t.pos, u.pos, {x}, {p, d})
  BY <1>0, <1>19, <1>20, <1>21 DEF Kept
<1>23. t.pos \in [Rows -> Place] /\ u.pos \in [Rows -> Place]
  BY <1>0, <1>17 DEF Tx
<1>24. \A y \in Rows \ {x} : t.pos[y].in # p => u.pos[y].in # p
  BY <1>0, <1>20
<1>25. t.pos[x].at = g
  BY DEF g
<1>26. n - 1 \in Nat /\ Listed(u.pos, p, n - 1)
  <2>1. ClosedUp(t.pos, u.pos, p, x, g)
    BY <1>0, <1>19, <1>24 DEF ClosedUp
  <2>2. u.pos[x].in # p
    BY <1>0, <1>18
  <2> QED BY <1>0, <1>3, <1>23, <1>25, <2>1, <2>2, GapList
<1>27. ClosedUp(t.pos, u.pos, p, x, t.pos[x].at)
  BY <1>19, <1>24, <1>25 DEF ClosedUp
<1> QED BY <1>5, <1>10, <1>17a, <1>18a, <1>22, <1>26, <1>27 DEF Transferred

\* Row y stands at k in place of x.
Replaced(t, u, p, x, y, n, k) ==
  /\ u \in Tx /\ u.clear = t.clear /\ Listed(u.pos, p, n)
  /\ u.pos[x].in = "deleted" /\ u.pos[y] = At(p, k)
  /\ \A z \in Rows \ {x, y} : u.pos[z] = t.pos[z]

\* A row is replaced by a new one: it goes from k, and the new one is put there.
LEMMA ReplaceSound ==
  ASSUME NEW t \in Tx, NEW p \in Parents, NEW x \in Rows, NEW k \in Nat, t.pos[x] = At(p, k),
         NEW n \in Nat, Listed(t.pos, p, n), NEW y \in Rows, y # x, t.pos[y].in # p,
         NEW u, u = Put(Without(t, {x}), y, p, k)
  PROVE  Replaced(t, u, p, x, y, n, k)
<1> DEFINE s == Without(t, {x})
<1>1. /\ s \in Tx /\ s.clear = t.clear /\ \A z \in Rows \ {x} : s.pos[z] = t.pos[z]
      /\ s.pos[x].in = "deleted"
  BY WithoutSound
<1>2. t.pos[x].in = p /\ t.pos[x].at = k
  BY DEF At
<1> HIDE DEF s
<1>3. \A z \in Rows \ {x} : t.pos[z].in = p => t.pos[z].at # k
  BY <1>2 DEF Listed, Single
<1>4. Alone(s.pos, y, p, k)
  BY <1>1, <1>3, Kinds DEF Alone
<1>5. u = Put(s, y, p, k)
  BY DEF s
<1>6. /\ u \in Tx /\ u.clear = s.clear /\ u.pos[y] = At(p, k)
      /\ \A z \in Rows \ {y} : u.pos[z] = s.pos[z]
  <2>1. s \in Tx
    BY <1>1
  <2>2. PICK v : v = s
    OBVIOUS
  <2>3. v \in Tx /\ u = Put(v, y, p, k) /\ Alone(v.pos, y, p, k)
    BY <1>4, <1>5, <2>1, <2>2
  <2>4. u \in Tx /\ u.clear = v.clear /\ u.pos[y] = At(p, k)
    BY <2>3, PutSound
  <2>5. \A z \in Rows \ {y} : u.pos[z] = v.pos[z]
    BY <2>3, PutSound
  <2> QED BY <2>2, <2>4, <2>5
<1>7. u.pos[y].in = p /\ u.pos[y].at = k
  BY <1>6 DEF At
<1>8. u.pos[x].in # p /\ u.pos[x].in = "deleted" /\ \A z \in Rows \ {x, y} : u.pos[z] = t.pos[z]
  BY <1>1, <1>6, Kinds
<1>9. Single(u.pos, p)
  <2> SUFFICES ASSUME NEW z \in Rows, NEW w \in Rows, u.pos[z].in = p, u.pos[w].in = p,
                      u.pos[z].at = u.pos[w].at
               PROVE  z = w
    BY DEF Single
  <2>1. CASE z # y /\ w # y
    BY <1>8, <2>1 DEF Listed, Single
  <2>2. \A v \in Rows \ {y} : u.pos[v].in = p => u.pos[v].at # k
    BY <1>3, <1>8
  <2>3. CASE z = y \/ w = y
    BY <1>7, <2>2, <2>3
  <2> QED BY <2>1, <2>3
<1>10. Below(u.pos, p, n)
  <2> SUFFICES ASSUME NEW z \in Rows, u.pos[z].in = p PROVE u.pos[z].at < n
    BY DEF Below
  <2>1. CASE z = y
    BY <1>2, <1>7, <2>1 DEF Listed, Below
  <2>2. CASE z # y
    BY <1>8, <2>2 DEF Listed, Below
  <2> QED BY <2>1, <2>2
<1>11. ASSUME NEW j \in 0 .. n - 1 PROVE \E z \in Rows : u.pos[z].in = p /\ u.pos[z].at = j
  <2>1. PICK z \in Rows : t.pos[z].in = p /\ t.pos[z].at = j
    BY DEF Listed
  <2>2. CASE z = x
    BY <1>2, <1>7, <2>1, <2>2
  <2>3. CASE z # x
    BY <1>8, <2>1, <2>3
  <2> QED BY <2>2, <2>3
<1>12. Listed(u.pos, p, n)
  BY <1>9, <1>10, <1>11 DEF Listed
<1> QED BY <1>1, <1>6, <1>8, <1>12 DEF Replaced

SameParents(old, new, X) == \A y \in Rows \ X : new[y].in = old[y].in

\* A transaction went through, and only the rows X have other parents.
Done(t, u, X) ==
  u \in Tx /\ u.clear = t.clear /\ Lists(u.pos) /\ SameParents(t.pos, u.pos, X)

Stands(u, x, p, k) == u.pos[x] = At(p, k)

\* With x goes all that hangs under the parents Q, which are not x's own.
Leaves(t, gone, x, p, Q) ==
  /\ x \in gone /\ t.pos[x].in = p
  /\ \A y \in gone \ {x} : t.pos[y].in \in Q
  /\ \A y \in Rows : t.pos[y].in \in Q => y \in gone

\* Under every parent there is a list, as long as its rows are many.
LEMMA ListOf ==
  ASSUME NEW pos \in [Rows -> Place], Lists(pos), NEW p \in Parents
  PROVE  /\ Cardinality(Under(pos, p)) \in Nat /\ Cardinality(Under(pos, p)) < Offset
         /\ Listed(pos, p, Cardinality(Under(pos, p)))
<1>1. PICK n \in Nat : Listed(pos, p, n)
  BY DEF Lists
<1> QED BY <1>1, ListedCount

\* The lists after a change of the rows X and of the lists P.
LEMMA ListsStay ==
  ASSUME NEW old \in [Rows -> Place], NEW new \in [Rows -> Place], Lists(old),
         NEW X, NEW P, Kept(old, new, X, P),
         \A q \in P : \E n \in Nat : Listed(new, q, n),
         \A x \in X : old[x].in \notin Parents \ P /\ new[x].in \notin Parents \ P
  PROVE  Lists(new)
<1> SUFFICES ASSUME NEW q \in Parents PROVE \E n \in Nat : Listed(new, q, n)
  BY DEF Lists
<1>1. CASE q \in P
  BY <1>1
<1>2. CASE q \notin P
  <2>1. PICK n \in Nat : Listed(old, q, n)
    BY DEF Lists
  <2>2. \A x \in X : old[x].in # q /\ new[x].in # q
    BY <1>2
  <2>3. Listed(new, q, n)
    BY <1>2, <2>1, <2>2, OtherList
  <2> QED BY <2>3
<1> QED BY <1>1, <1>2

\* A new row: all lists stay lists.
LEMMA InsertLists ==
  ASSUME NEW t \in Tx, Lists(t.pos), NEW p \in Parents, NEW x \in Rows, t.pos[x].in \notin Parents,
         NEW k \in 0 .. Cardinality(Under(t.pos, p)),
         NEW u, u = Put(ShiftForInsert(t, p, k), x, p, k)
  PROVE  Done(t, u, {x}) /\ u.pos[x].in = p
<1> DEFINE n == Cardinality(Under(t.pos, p))
<1>1. t.pos \in [Rows -> Place]
  BY DEF Tx
<1>2. n \in Nat /\ n < Offset /\ Listed(t.pos, p, n)
  BY <1>1, ListOf
<1>3. k \in 0 .. n /\ t.pos[x].in # p
  OBVIOUS
<1> HIDE DEF n
<1>4. /\ u \in Tx /\ u.clear = t.clear /\ Listed(u.pos, p, n + 1)
      /\ Opened(t.pos, u.pos, p, x, k) /\ Kept(t.pos, u.pos, {x}, {p})
  <2>1. Added(t, u, p, x, n, k)
    BY <1>2, <1>3, InsertSound
  <2> QED BY <2>1 DEF Added
<1>5. u.pos[x].in = p /\ u.pos \in [Rows -> Place] /\ n + 1 \in Nat
  BY <1>2, <1>4 DEF Opened, Tx
<1>6. SameParents(t.pos, u.pos, {x})
  BY <1>4 DEF Kept, SameParents
<1>7. \A q \in {p} : \E m \in Nat : Listed(u.pos, q, m)
  BY <1>4, <1>5
<1>8. \A y \in {x} : t.pos[y].in \notin Parents \ {p} /\ u.pos[y].in \notin Parents \ {p}
  BY <1>5
<1>9. Lists(u.pos)
  BY <1>1, <1>4, <1>5, <1>7, <1>8, ListsStay
<1> QED BY <1>4, <1>5, <1>6, <1>9 DEF Done

\* A row moved within its list: all lists stay lists.
LEMMA MoveLists ==
  ASSUME NEW t \in Tx, Lists(t.pos), NEW p \in Parents, NEW x \in Rows, t.pos[x].in = p,
         NEW k \in 0 .. Cardinality(Under(t.pos, p)) - 1,
         NEW u, u = MoveOrderedRow(t, x, p, k)
  PROVE  Done(t, u, {}) /\ Stands(u, x, p, k)
<1> DEFINE n == Cardinality(Under(t.pos, p))
<1>1. t.pos \in [Rows -> Place]
  BY DEF Tx
<1>2. n \in Nat /\ n < Offset /\ Listed(t.pos, p, n)
  BY <1>1, ListOf
<1>3. k \in 0 .. n - 1
  OBVIOUS
<1> HIDE DEF n
<1>4. /\ u \in Tx /\ u.clear = t.clear /\ Listed(u.pos, p, n) /\ u.pos[x] = At(p, k)
      /\ Kept(t.pos, u.pos, {}, {p})
  <2>1. PICK m : m = n
    OBVIOUS
  <2>2. m \in Nat /\ m < Offset /\ Listed(t.pos, p, m) /\ k \in 0 .. m - 1
    BY <1>2, <1>3, <2>1
  <2>3. Rearranged(t, u, p, x, m, k)
    BY <2>2, MoveSound
  <2> QED BY <2>1, <2>3 DEF Rearranged
<1>5. u.pos \in [Rows -> Place] /\ SameParents(t.pos, u.pos, {})
  BY <1>4 DEF Tx, Kept, SameParents
<1>6. \A q \in {p} : \E m \in Nat : Listed(u.pos, q, m)
  BY <1>2, <1>4
<1>7. Lists(u.pos)
  <2>1. \A y \in {} : t.pos[y].in \notin Parents \ {p} /\ u.pos[y].in \notin Parents \ {p}
    OBVIOUS
  <2> QED BY <1>1, <1>4, <1>5, <1>6, <2>1, ListsStay
<1> QED BY <1>4, <1>5, <1>7 DEF Done, Stands

\* A removal, with the rows that cascade: all lists stay lists.
LEMMA RemoveLists ==
  ASSUME NEW t \in Tx, Lists(t.pos), NEW p \in Parents, NEW gone \in SUBSET Rows,
         NEW x \in gone, NEW Q \in SUBSET (Parents \ {p}), Leaves(t, gone, x, p, Q),
         NEW u, u = CloseOrderGap(Without(t, gone), p, t.pos[x].at)
  PROVE  Done(t, u, gone) /\ \A y \in gone : u.pos[y].in = "deleted"
<1>0. /\ x \in gone /\ t.pos[x].in = p
      /\ \A y \in gone \ {x} : t.pos[y].in \in Q
      /\ \A y \in Rows : t.pos[y].in \in Q => y \in gone
  BY DEF Leaves
<1>1. t.pos \in [Rows -> Place]
  BY DEF Tx
<1>2. PICK n \in Nat : n < Offset /\ Listed(t.pos, p, n)
  BY <1>1, ListOf
<1>3. \A y \in gone \ {x} : t.pos[y].in # p
  BY <1>0
<1>4. /\ u \in Tx /\ u.clear = t.clear /\ n - 1 \in Nat /\ Listed(u.pos, p, n - 1)
      /\ \A y \in gone : u.pos[y].in = "deleted"
      /\ Kept(t.pos, u.pos, gone, {p})
  <2>1. Removed(t, u, gone, x, p, n)
    BY <1>0, <1>2, <1>3, RemoveSound
  <2> QED BY <2>1 DEF Removed
<1>5. u.pos \in [Rows -> Place] /\ SameParents(t.pos, u.pos, gone)
  BY <1>4 DEF Tx, Kept, SameParents
<1>6. \A y \in gone : u.pos[y].in \notin Parents
  BY <1>4, Kinds
<1>7. ASSUME NEW q \in Q PROVE Listed(u.pos, q, 0)
  <2>1. \A y \in Rows : u.pos[y].in # q
    BY <1>0, <1>5, <1>6, <1>7 DEF SameParents
  <2>2. 0 .. 0 - 1 = {}
    OBVIOUS
  <2> QED BY <2>1, <2>2 DEF Listed, Single, Below
<1>8. PICK P : P = {p} \union Q
  OBVIOUS
<1>9. \A q \in P : \E m \in Nat : Listed(u.pos, q, m)
  BY <1>4, <1>7, <1>8
<1>10. Kept(t.pos, u.pos, gone, P)
  BY <1>4, <1>8 DEF Kept
<1>11. \A y \in gone : t.pos[y].in \notin Parents \ P /\ u.pos[y].in \notin Parents \ P
  BY <1>0, <1>6, <1>8
<1>12. Lists(u.pos)
  BY <1>1, <1>5, <1>9, <1>10, <1>11, ListsStay
<1> QED BY <1>4, <1>5, <1>12 DEF Done

\* A row moved to another list: all lists stay lists.
LEMMA TransferLists ==
  ASSUME NEW t \in Tx, Lists(t.pos), NEW x \in Rows, NEW p \in Parents, t.pos[x].in = p,
         NEW d \in Parents, d # p, NEW k \in 0 .. Cardinality(Under(t.pos, d)),
         NEW u, u = MoveToDay(t, x, d, k)
  PROVE  Done(t, u, {x}) /\ u.pos[x].in = d
<1>1. t.pos \in [Rows -> Place]
  BY DEF Tx
<1>2. PICK n \in Nat : n < Offset /\ Listed(t.pos, p, n)
  BY <1>1, ListOf
<1>3. PICK m \in Nat : m < Offset /\ Listed(t.pos, d, m) /\ m = Cardinality(Under(t.pos, d))
  BY <1>1, ListOf
<1>4. k \in 0 .. m /\ t.pos[x].in = p
  BY <1>3
<1>5. d # p
  OBVIOUS
<1>6. /\ u \in Tx /\ u.clear = t.clear /\ u.pos[x].in = d
      /\ n - 1 \in Nat /\ Listed(u.pos, p, n - 1) /\ Listed(u.pos, d, m + 1)
      /\ Kept(t.pos, u.pos, {x}, {p, d})
  <2>1. Transfer(t, x, p, n, d, m, k) /\ k \in Nat
    BY <1>2, <1>3, <1>4, <1>5 DEF Transfer
  <2>2. Transferred(t, u, x, p, n, d, m, k)
    BY <2>1, MoveToDaySound
  <2> QED BY <2>2 DEF Transferred, Opened
<1>7. u.pos \in [Rows -> Place] /\ SameParents(t.pos, u.pos, {x}) /\ u.pos[x].in = d
  BY <1>6 DEF Tx, Kept, SameParents
<1>8. \A q \in {p, d} : \E j \in Nat : Listed(u.pos, q, j)
  <2>1. m + 1 \in Nat
    BY <1>3
  <2> QED BY <1>6, <2>1
<1>9. \A y \in {x} : t.pos[y].in \notin Parents \ {p, d} /\ u.pos[y].in \notin Parents \ {p, d}
  BY <1>4, <1>7
<1>10. Lists(u.pos)
  BY <1>1, <1>6, <1>7, <1>8, <1>9, ListsStay
<1> QED BY <1>6, <1>7, <1>10 DEF Done

\* A row replaced: all lists stay lists.
LEMMA ReplaceLists ==
  ASSUME NEW t \in Tx, Lists(t.pos), NEW p \in Parents, NEW x \in Rows, NEW k \in Nat,
         Stands(t, x, p, k), NEW y \in Rows, y # x, t.pos[y].in \notin Parents,
         NEW u, u = Put(Without(t, {x}), y, p, k)
  PROVE  Done(t, u, {x, y}) /\ u.pos[x].in = "deleted" /\ u.pos[y].in = p
<1>1. t.pos \in [Rows -> Place] /\ t.pos[x].in = p
  BY DEF Tx, At, Stands
<1>2. PICK n \in Nat : Listed(t.pos, p, n)
  BY DEF Lists
<1>3. t.pos[y].in # p
  OBVIOUS
<1>4. /\ u \in Tx /\ u.clear = t.clear /\ Listed(u.pos, p, n)
      /\ u.pos[x].in = "deleted" /\ u.pos[y] = At(p, k)
      /\ \A z \in Rows \ {x, y} : u.pos[z] = t.pos[z]
  <2>1. Replaced(t, u, p, x, y, n, k)
    BY <1>2, <1>3, ReplaceSound DEF Stands
  <2> QED BY <2>1 DEF Replaced
<1>5. u.pos \in [Rows -> Place] /\ u.pos[y].in = p
  <2>1. u.pos \in [Rows -> Place]
    BY <1>4 DEF Tx
  <2>2. At(p, k).in = p
    BY DEF At
  <2> QED BY <1>4, <2>1, <2>2
<1>6. Kept(t.pos, u.pos, {x, y}, {p}) /\ SameParents(t.pos, u.pos, {x, y})
  BY <1>4 DEF Kept, SameParents
<1>7. \A q \in {p} : \E m \in Nat : Listed(u.pos, q, m)
  BY <1>2, <1>4
<1>8. \A z \in {x, y} : t.pos[z].in \notin Parents \ {p} /\ u.pos[z].in \notin Parents \ {p}
  BY <1>1, <1>4, <1>5, Kinds
<1>9. Lists(u.pos)
  <2>1. PICK X, P : X = {x, y} /\ P = {p}
    OBVIOUS
  <2>2. \A z \in X : t.pos[z].in \notin Parents \ P /\ u.pos[z].in \notin Parents \ P
    BY <1>8, <2>1
  <2>3. Kept(t.pos, u.pos, X, P) /\ \A q \in P : \E m \in Nat : Listed(u.pos, q, m)
    BY <1>6, <1>7, <2>1
  <2> QED BY <1>1, <1>5, <2>2, <2>3, ListsStay
<1> QED BY <1>4, <1>5, <1>6, <1>9 DEF Done

\* The itinerary is sound, of its types, and no statement has failed: the
\* property is inductive as it stands.
IInv == TypeOK /\ ItineraryIsSound /\ OrderingNeverFails

\* Rows that move stay under parents of their kind, and an item's day is there.
LEMMA FitStays ==
  ASSUME NEW old, NEW new, Fitting(old), NEW X \in SUBSET Rows, SameParents(old, new, X),
         \A x \in X \intersect Stops : new[x].in \in {"stops", "deleted"},
         \A x \in X \intersect Days : new[x].in \in {"days", "deleted"},
         \A x \in X \intersect Items :
           new[x].in = "deleted" \/ \E d \in Days : new[x].in = d /\ new[d].in = "days",
         \A x \in X \intersect Days : new[x].in = "days" \/ \A i \in Items \ X : old[i].in # x
  PROVE  Fitting(new)
<1>1. ASSUME NEW x \in Stops PROVE new[x].in \in {"stops", "unsaved", "deleted"}
  <2>1. CASE x \in X
    BY <2>1
  <2>2. CASE x \notin X
    BY <2>2 DEF Fitting, SameParents, Rows
  <2> QED BY <2>1, <2>2
<1>2. ASSUME NEW x \in Days PROVE new[x].in \in {"days", "unsaved", "deleted"}
  <2>1. CASE x \in X
    BY <2>1
  <2>2. CASE x \notin X
    BY <2>2 DEF Fitting, SameParents, Rows
  <2> QED BY <2>1, <2>2
<1>3. ASSUME NEW i \in Items
      PROVE  new[i].in \in {d \in Days : new[d].in = "days"} \union {"unsaved", "deleted"}
  <2>1. CASE i \in X
    BY <2>1
  <2>2. CASE i \notin X
    <3>1. i \in Rows /\ new[i].in = old[i].in
      BY <2>2 DEF SameParents, Rows
    <3>2. CASE old[i].in \in {"unsaved", "deleted"}
      BY <3>1, <3>2
    <3>3. CASE old[i].in \in {d \in Days : old[d].in = "days"}
      <4>1. PICK d \in Days : old[i].in = d /\ old[d].in = "days"
        BY <3>3
      <4>2. new[d].in = "days"
        <5>1. CASE d \in X
          BY <2>2, <4>1, <5>1
        <5>2. CASE d \notin X
          BY <4>1, <5>2 DEF SameParents, Rows
        <5> QED BY <5>1, <5>2
      <4> QED BY <3>1, <4>1, <4>2
    <3> QED BY <3>2, <3>3 DEF Fitting
  <2> QED BY <2>1, <2>2
<1> QED BY <1>1, <1>2, <1>3 DEF Fitting

\* What hangs where is of that kind.
LEMMA KindOf ==
  ASSUME NEW pos, Fitting(pos), NEW x \in Rows
  PROVE  /\ pos[x].in = "stops" => x \in Stops
         /\ pos[x].in = "days" => x \in Days
         /\ pos[x].in \in Days => x \in Items
  BY Kinds, RowsAssumption DEF Fitting, Rows

\* The transaction of an operation begins with sound lists.
LEMMA BeginSound ==
  ASSUME IInv
  PROVE  \E t \in Tx : /\ t = Begin /\ t.pos = place /\ t.clear = TRUE
                       /\ Lists(t.pos) /\ Fitting(t.pos)
<1>1. place \in [Rows -> Place] /\ Dense(place) /\ Fitting(place)
  BY DEF IInv, TypeOK, ItineraryIsSound, OrdersAreDense
<1>2. Lists(place)
  BY <1>1, DenseListed DEF Lists
<1>3. Begin \in Tx /\ Begin.pos = place /\ Begin.clear = TRUE
  BY <1>1 DEF Begin, Tx
<1> QED BY <1>1, <1>2, <1>3

\* What a transaction that keeps clear leaves.
LEMMA BumpSound ==
  ASSUME IInv, NEW u \in Tx, u.clear = TRUE, Lists(u.pos), Fitting(u.pos), Bump(u)
  PROVE  /\ place' = u.pos /\ place' \in [Rows -> Place] /\ revision' \in Nat /\ clashed' = FALSE
         /\ OrdersAreDense' /\ OrderingNeverFails'
<1>1. place' = u.pos /\ u.pos \in [Rows -> Place]
  BY DEF Bump, Tx
<1>2. Dense(u.pos)
  BY <1>1, ListsAreDense
<1>3. revision' \in Nat /\ clashed' = FALSE
  BY DEF Bump, IInv, TypeOK, OrderingNeverFails
<1>4. Dense(place') /\ Fitting(place')
  BY <1>1, <1>2
<1> QED BY <1>1, <1>3, <1>4 DEF OrdersAreDense, OrderingNeverFails

\* No new day: the dates fit as before.
LEMMA DatesStay ==
  ASSUME DatesFit, UNCHANGED <<range, date>>,
         \A d \in Rows : place'[d].in = "days" => place[d].in = "days"
  PROVE  DatesFit'
<1>1. Under(place', "days") \subseteq Under(place, "days")
  BY DEF Under
<1>2. \A d \in Under(place', "days") :
        /\ date[d] \in range.from .. range.to
        /\ \A e \in Under(place', "days") : date[e] = date[d] => e = d
  BY <1>1 DEF DatesFit
<1> QED BY <1>2 DEF DatesFit

\* The day x gets a free date.
LEMMA DatesMove ==
  ASSUME DatesFit, NEW x \in Days, NEW n \in Dates, DateFree(x, n), date \in [Days -> Dates],
         UNCHANGED range, date' = [date EXCEPT ![x] = n],
         Fitting(place'), \A d \in Rows \ {x} : place'[d].in = "days" => place[d].in = "days"
  PROVE  DatesFit'
<1>1. \A d \in Under(place', "days") : d \in Days
  BY KindOf DEF Under
<1>2. \A d \in Under(place', "days") \ {x} : d \in Under(place, "days") /\ date'[d] = date[d]
  BY <1>1 DEF Under
<1>3. date'[x] = n
  OBVIOUS
<1>4. ASSUME NEW d \in Under(place', "days")
      PROVE  /\ date'[d] \in range.from .. range.to
             /\ \A e \in Under(place', "days") : date'[e] = date'[d] => e = d
  <2>1. CASE d = x
    BY <1>2, <1>3, <2>1 DEF DateFree
  <2>2. CASE d # x
    BY <1>2, <1>3, <2>2 DEF DateFree, DatesFit
  <2> QED BY <2>1, <2>2
<1> QED BY <1>4 DEF DatesFit

\* The parts of the invariant.
LEMMA Whole ==
  ASSUME IInv, exists' \in BOOLEAN, clashed' = FALSE, revision' \in Nat,
         range' \in [from : Dates, to : Dates], place' \in [Rows -> Place],
         date' \in [Days -> Dates], text' \in [Items -> Texts],
         audited' \subseteq {"trip"} \union Items,
         OrdersAreDense', exists' => DatesFit'
  PROVE  IInv'
BY DEF IInv, TypeOK, ItineraryIsSound, DaysStayInRange, OrderingNeverFails

\* createDestination preserves the invariant.
LEMMA CreateDestinationSound ==
  ASSUME IInv, NEW x \in Stops, NEW k \in Nat, CreateDestination(revision, x, k)
  PROVE  IInv'
<1>0. PICK t \in Tx : /\ t = Begin /\ t.pos = place /\ t.clear = TRUE
                      /\ Lists(t.pos) /\ Fitting(t.pos)
  BY BeginSound
<1>1. PICK u : u = Put(ShiftForInsert(t, "stops", k), x, "stops", k)
  OBVIOUS
<1>2. x \in Rows /\ t.pos[x].in \in {"unsaved", "deleted"}
  BY <1>0 DEF CreateDestination, Fitting, Rows
<1>3. k \in 0 .. Cardinality(Under(t.pos, "stops"))
  BY <1>0 DEF CreateDestination, Total
<1>4. t.pos[x].in \notin Parents /\ "stops" \in Parents
  BY <1>2, Kinds
<1>5. Done(t, u, {x}) /\ u.pos[x].in = "stops"
  BY <1>0, <1>1, <1>2, <1>3, <1>4, InsertLists
<1>6. Bump(u) /\ exists /\ UNCHANGED <<exists, range, date, text, audited>>
  BY <1>0, <1>1 DEF CreateDestination, Locked
<1>7. Fitting(u.pos)
  <2>1. {x} \intersect Days = {} /\ {x} \intersect Items = {}
    BY RowsAssumption
  <2> QED BY <1>0, <1>2, <1>5, <2>1, FitStays DEF Done
<1>8. /\ place' = u.pos /\ place' \in [Rows -> Place] /\ revision' \in Nat /\ clashed' = FALSE
      /\ OrdersAreDense'
  BY <1>0, <1>5, <1>6, <1>7, BumpSound DEF Done
<1>9. DatesFit'
  <2>1. \A d \in Rows : place'[d].in = "days" => place[d].in = "days"
    BY <1>0, <1>5, <1>8 DEF Done, SameParents
  <2> QED BY <1>6, <2>1, DatesStay DEF IInv, ItineraryIsSound, DaysStayInRange
<1> QED BY <1>6, <1>8, <1>9, Whole DEF IInv, TypeOK

\* updateDestination preserves it, with another position or another place.
LEMMA UpdateDestinationSound ==
  ASSUME IInv, NEW x \in Stops, NEW y \in Stops, NEW k \in Nat, UpdateDestination(revision, x, y, k)
  PROVE  IInv'
<1>0. PICK t \in Tx : /\ t = Begin /\ t.pos = place /\ t.clear = TRUE
                      /\ Lists(t.pos) /\ Fitting(t.pos)
  BY BeginSound
<1>1. PICK v : v = MoveOrderedRow(t, x, "stops", k)
  OBVIOUS
<1>2. x \in Rows /\ y \in Rows /\ t.pos[x].in = "stops" /\ "stops" \in Parents
  BY <1>0, Kinds DEF UpdateDestination, Rows
<1>3. k \in 0 .. Cardinality(Under(t.pos, "stops")) - 1
  BY <1>0 DEF UpdateDestination, Total
<1>4. Done(t, v, {}) /\ Stands(v, x, "stops", k)
  <2>1. PICK p \in Parents : p = "stops"
    BY <1>2
  <2>2. /\ t.pos[x].in = p /\ k \in 0 .. Cardinality(Under(t.pos, p)) - 1
        /\ v = MoveOrderedRow(t, x, p, k)
    BY <1>1, <1>2, <1>3, <2>1
  <2>3. Done(t, v, {}) /\ Stands(v, x, p, k)
    BY <1>0, <1>2, <2>2, MoveLists
  <2> QED BY <2>1, <2>3
<1>5. exists /\ UNCHANGED <<exists, range, date, text, audited>>
  BY DEF UpdateDestination, Locked
<1>6. PICK u : u = (IF x = y THEN v ELSE Put(Without(v, {x}), y, "stops", k)) /\ Bump(u)
  BY <1>0, <1>1 DEF UpdateDestination
<1>7. ASSUME x # y
      PROVE  Done(v, u, {x, y}) /\ u.pos[x].in = "deleted" /\ u.pos[y].in = "stops"
  <2>1. v \in Tx /\ Lists(v.pos)
    BY <1>4 DEF Done
  <2>2. t.pos[y].in \in {"unsaved", "deleted"}
    BY <1>0, <1>2, <1>7 DEF UpdateDestination, Fitting
  <2>3. v.pos[y].in \notin Parents
    BY <1>2, <1>4, <1>7, <2>2, Kinds DEF Done, SameParents
  <2>4. u = Put(Without(v, {x}), y, "stops", k)
    BY <1>6, <1>7
  <2> QED BY <1>2, <1>4, <1>7, <2>1, <2>3, <2>4, ReplaceLists
<1>8. /\ Done(t, u, {x, y})
      /\ u.pos[x].in \in {"stops", "deleted"} /\ u.pos[y].in \in {"stops", "deleted"}
  <2>1. CASE x = y
    BY <1>2, <1>4, <1>6, <2>1 DEF Done, SameParents
  <2>2. CASE x # y
    BY <1>4, <1>7, <2>2 DEF Done, SameParents
  <2> QED BY <2>1, <2>2
<1>9. Fitting(u.pos)
  <2>1. {x, y} \intersect Days = {} /\ {x, y} \intersect Items = {}
    BY RowsAssumption
  <2> QED BY <1>0, <1>2, <1>8, <2>1, FitStays DEF Done
<1>10. /\ place' = u.pos /\ place' \in [Rows -> Place] /\ revision' \in Nat /\ clashed' = FALSE
       /\ OrdersAreDense'
  BY <1>0, <1>6, <1>8, <1>9, BumpSound DEF Done
<1>11. DatesFit'
  <2>1. \A d \in Rows : place'[d].in = "days" => place[d].in = "days"
    BY <1>0, <1>8, <1>10 DEF Done, SameParents
  <2> QED BY <1>5, <2>1, DatesStay DEF IInv, ItineraryIsSound, DaysStayInRange
<1> QED BY <1>5, <1>10, <1>11, Whole DEF IInv, TypeOK

\* deleteDestination preserves it.
LEMMA DeleteDestinationSound ==
  ASSUME IInv, NEW x \in Stops, DeleteDestination(revision, x)
  PROVE  IInv'
<1>0. PICK t \in Tx : /\ t = Begin /\ t.pos = place /\ t.clear = TRUE
                      /\ Lists(t.pos) /\ Fitting(t.pos)
  BY BeginSound
<1>1. PICK u : u = CloseOrderGap(Without(t, {x}), "stops", t.pos[x].at)
  OBVIOUS
<1>2. x \in Rows /\ t.pos[x].in = "stops" /\ "stops" \in Parents
  BY <1>0, Kinds DEF DeleteDestination, Rows
<1>3. PICK gone \in SUBSET Rows, Q \in SUBSET (Parents \ {"stops"}) : gone = {x} /\ Q = {}
  BY <1>2
<1>4. Done(t, u, {x}) /\ u.pos[x].in = "deleted"
  <2>1. Leaves(t, gone, x, "stops", Q) /\ u = CloseOrderGap(Without(t, gone), "stops", t.pos[x].at)
    BY <1>1, <1>2, <1>3 DEF Leaves
  <2>0. x \in gone
    BY <1>3
  <2>2. Done(t, u, gone) /\ \A y \in gone : u.pos[y].in = "deleted"
    BY <1>0, <1>2, <2>0, <2>1, RemoveLists
  <2> QED BY <1>3, <2>2
<1>5. /\ Bump(u) /\ exists /\ audited' = audited \union {"trip"}
      /\ UNCHANGED <<exists, range, date, text>>
  BY <1>0, <1>1 DEF DeleteDestination, Locked
<1>6. Fitting(u.pos)
  <2>1. {x} \intersect Days = {} /\ {x} \intersect Items = {}
    BY RowsAssumption
  <2> QED BY <1>0, <1>2, <1>4, <2>1, FitStays DEF Done
<1>7. /\ place' = u.pos /\ place' \in [Rows -> Place] /\ revision' \in Nat /\ clashed' = FALSE
      /\ OrdersAreDense'
  BY <1>0, <1>4, <1>5, <1>6, BumpSound DEF Done
<1>8. DatesFit'
  <2>1. \A d \in Rows : place'[d].in = "days" => place[d].in = "days"
    BY <1>0, <1>4, <1>7 DEF Done, SameParents
  <2> QED BY <1>5, <2>1, DatesStay DEF IInv, ItineraryIsSound, DaysStayInRange
<1> QED BY <1>5, <1>7, <1>8, Whole DEF IInv, TypeOK

\* createDay preserves it: the date is free.
LEMMA CreateDaySound ==
  ASSUME IInv, NEW x \in Days, NEW n \in Dates, NEW k \in Nat, CreateDay(revision, x, n, k)
  PROVE  IInv'
<1>0. PICK t \in Tx : /\ t = Begin /\ t.pos = place /\ t.clear = TRUE
                      /\ Lists(t.pos) /\ Fitting(t.pos)
  BY BeginSound
<1>1. PICK u : u = Put(ShiftForInsert(t, "days", k), x, "days", k)
  OBVIOUS
<1>2. x \in Rows /\ t.pos[x].in = "unsaved"
  BY <1>0 DEF CreateDay, Rows
<1>3. k \in 0 .. Cardinality(Under(t.pos, "days"))
  BY <1>0 DEF CreateDay, Total
<1>4. t.pos[x].in \notin Parents /\ "days" \in Parents
  BY <1>2, Kinds
<1>5. Done(t, u, {x}) /\ u.pos[x].in = "days"
  BY <1>0, <1>1, <1>2, <1>3, <1>4, InsertLists
<1>6. /\ Bump(u) /\ exists /\ DateFree(x, n) /\ date' = [date EXCEPT ![x] = n]
      /\ UNCHANGED <<exists, range, text, audited>>
  BY <1>0, <1>1 DEF CreateDay, Locked
<1>7. Fitting(u.pos)
  <2>1. {x} \intersect Stops = {} /\ {x} \intersect Items = {}
    BY RowsAssumption
  <2> QED BY <1>0, <1>2, <1>5, <2>1, FitStays DEF Done
<1>8. /\ place' = u.pos /\ place' \in [Rows -> Place] /\ revision' \in Nat /\ clashed' = FALSE
      /\ OrdersAreDense'
  BY <1>0, <1>5, <1>6, <1>7, BumpSound DEF Done
<1>9. DatesFit'
  <2>1. \A d \in Rows \ {x} : place'[d].in = "days" => place[d].in = "days"
    BY <1>0, <1>5, <1>8 DEF Done, SameParents
  <2>2. DatesFit /\ date \in [Days -> Dates] /\ Fitting(place')
    BY <1>6, <1>7, <1>8 DEF IInv, TypeOK, ItineraryIsSound, DaysStayInRange
  <2> QED BY <1>6, <2>1, <2>2, DatesMove
<1>10. date' \in [Days -> Dates]
  BY <1>6 DEF IInv, TypeOK
<1> QED BY <1>6, <1>8, <1>9, <1>10, Whole DEF IInv, TypeOK

\* updateDay preserves it, with another date or another position.
LEMMA UpdateDaySound ==
  ASSUME IInv, NEW x \in Days, NEW n \in Dates, NEW k \in Nat, UpdateDay(revision, x, n, k)
  PROVE  IInv'
<1>0. PICK t \in Tx : /\ t = Begin /\ t.pos = place /\ t.clear = TRUE
                      /\ Lists(t.pos) /\ Fitting(t.pos)
  BY BeginSound
<1>1. PICK u, p : u = MoveOrderedRow(t, x, p, k) /\ p = "days"
  OBVIOUS
<1>2. x \in Rows /\ t.pos[x].in = p /\ p \in Parents
  BY <1>0, <1>1, Kinds DEF UpdateDay, Rows
<1>3. k \in 0 .. Cardinality(Under(t.pos, p)) - 1
  BY <1>0, <1>1 DEF UpdateDay, Total
<1>4. Done(t, u, {})
  BY <1>0, <1>1, <1>2, <1>3, MoveLists
<1>5. /\ Bump(u) /\ exists /\ DateFree(x, n) /\ date' = [date EXCEPT ![x] = n]
      /\ UNCHANGED <<exists, range, text, audited>>
  BY <1>0, <1>1 DEF UpdateDay, Locked
<1>6. Fitting(u.pos)
  <2>1. SameParents(t.pos, u.pos, {})
    BY <1>4 DEF Done
  <2> QED BY <1>0, <2>1, FitStays
<1>7. /\ place' = u.pos /\ place' \in [Rows -> Place] /\ revision' \in Nat /\ clashed' = FALSE
      /\ OrdersAreDense'
  BY <1>0, <1>4, <1>5, <1>6, BumpSound DEF Done
<1>8. DatesFit'
  <2>1. \A d \in Rows \ {x} : place'[d].in = "days" => place[d].in = "days"
    BY <1>0, <1>4, <1>7 DEF Done, SameParents
  <2>2. DatesFit /\ date \in [Days -> Dates] /\ Fitting(place')
    BY <1>5, <1>6, <1>7 DEF IInv, TypeOK, ItineraryIsSound, DaysStayInRange
  <2> QED BY <1>5, <2>1, <2>2, DatesMove
<1>9. date' \in [Days -> Dates]
  BY <1>5 DEF IInv, TypeOK
<1> QED BY <1>5, <1>7, <1>8, <1>9, Whole DEF IInv, TypeOK

\* The day's items go with it.
LEMMA DeleteDaySound ==
  ASSUME IInv, NEW x \in Days, DeleteDay(revision, x)
  PROVE  IInv'
<1>0. PICK t \in Tx : /\ t = Begin /\ t.pos = place /\ t.clear = TRUE
                      /\ Lists(t.pos) /\ Fitting(t.pos)
  BY BeginSound
<1>1. PICK p, gone, Q, u : /\ p = "days" /\ gone = {x} \union Under(t.pos, x) /\ Q = {x}
                           /\ u = CloseOrderGap(Without(t, gone), p, t.pos[x].at)
  OBVIOUS
<1>2. x \in Rows /\ t.pos[x].in = p /\ p \in Parents /\ x \in Parents \ {p}
  BY <1>0, <1>1, Kinds DEF DeleteDay, Rows
<1>3. gone \in SUBSET Rows /\ Q \in SUBSET (Parents \ {p}) /\ x \in gone
  BY <1>1, <1>2 DEF Under
<1>4. Leaves(t, gone, x, p, Q)
  BY <1>1, <1>2 DEF Leaves, Under
<1>5. Done(t, u, gone) /\ \A y \in gone : u.pos[y].in = "deleted"
  <2>1. u = CloseOrderGap(Without(t, gone), p, t.pos[x].at) /\ Lists(t.pos)
    BY <1>0, <1>1
  <2> QED BY <1>2, <1>3, <1>4, <2>1, RemoveLists
<1>6. /\ Bump(u) /\ exists /\ audited' = audited \union {"trip"}
      /\ UNCHANGED <<exists, range, date, text>>
  BY <1>0, <1>1 DEF DeleteDay, Locked
<1>7. Fitting(u.pos)
  <2>1. \A d \in gone \intersect Days : \A i \in Items \ gone : t.pos[i].in # d
    <3> SUFFICES ASSUME NEW d \in gone \intersect Days, NEW i \in Items \ gone, t.pos[i].in = d
                 PROVE  FALSE
      OBVIOUS
    <3>1. d # x
      BY <1>1 DEF Under, Rows
    <3>2. t.pos[d].in = x
      BY <1>1, <3>1 DEF Under
    <3> QED BY <1>0, <3>2, Kinds, RowsAssumption DEF Fitting
  <2> QED BY <1>0, <1>3, <1>5, <2>1, FitStays DEF Done
<1>8. /\ place' = u.pos /\ place' \in [Rows -> Place] /\ revision' \in Nat /\ clashed' = FALSE
      /\ OrdersAreDense'
  BY <1>0, <1>5, <1>6, <1>7, BumpSound DEF Done
<1>9. DatesFit'
  <2>1. \A d \in Rows : place'[d].in = "days" => place[d].in = "days"
    BY <1>0, <1>5, <1>8 DEF Done, SameParents
  <2> QED BY <1>6, <2>1, DatesStay DEF IInv, ItineraryIsSound, DaysStayInRange
<1> QED BY <1>6, <1>8, <1>9, Whole DEF IInv, TypeOK

\* createItem preserves it.
LEMMA CreateItemSound ==
  ASSUME IInv, NEW x \in Items, NEW d \in Days, NEW k \in Nat, NEW c \in Texts,
         CreateItem(revision, x, d, k, c)
  PROVE  IInv'
<1>0. PICK t \in Tx : /\ t = Begin /\ t.pos = place /\ t.clear = TRUE
                      /\ Lists(t.pos) /\ Fitting(t.pos)
  BY BeginSound
<1>1. PICK u : u = Put(ShiftForInsert(t, d, k), x, d, k)
  OBVIOUS
<1>2. x \in Rows /\ d \in Rows /\ x # d /\ t.pos[x].in = "unsaved" /\ t.pos[d].in = "days"
  BY <1>0, RowsAssumption DEF CreateItem, Rows
<1>3. k \in 0 .. Cardinality(Under(t.pos, d))
  BY <1>0 DEF CreateItem, Total
<1>4. t.pos[x].in \notin Parents /\ d \in Parents
  BY <1>2, Kinds
<1>5. Done(t, u, {x}) /\ u.pos[x].in = d
  BY <1>0, <1>1, <1>2, <1>3, <1>4, InsertLists
<1>6. /\ Bump(u) /\ exists /\ text' = [text EXCEPT ![x] = c]
      /\ UNCHANGED <<exists, range, date, audited>>
  BY <1>0, <1>1 DEF CreateItem, Locked
<1>7. Fitting(u.pos)
  <2>1. {x} \intersect Stops = {} /\ {x} \intersect Days = {}
    BY RowsAssumption
  <2>2. u.pos[d].in = "days"
    BY <1>2, <1>5 DEF Done, SameParents
  <2> QED BY <1>0, <1>2, <1>5, <2>1, <2>2, FitStays DEF Done
<1>8. /\ place' = u.pos /\ place' \in [Rows -> Place] /\ revision' \in Nat /\ clashed' = FALSE
      /\ OrdersAreDense'
  BY <1>0, <1>5, <1>6, <1>7, BumpSound DEF Done
<1>9. DatesFit'
  <2>1. \A e \in Rows : place'[e].in = "days" => place[e].in = "days"
    BY <1>0, <1>5, <1>8, Kinds DEF Done, SameParents
  <2> QED BY <1>6, <2>1, DatesStay DEF IInv, ItineraryIsSound, DaysStayInRange
<1>10. text' \in [Items -> Texts]
  BY <1>6 DEF IInv, TypeOK
<1> QED BY <1>6, <1>8, <1>9, <1>10, Whole DEF IInv, TypeOK

\* updateItem preserves it, in the item's day or into another.
LEMMA UpdateItemSound ==
  ASSUME IInv, NEW x \in Items, NEW d \in Days, NEW k \in Nat, NEW c \in Texts,
         UpdateItem(revision, x, d, k, c)
  PROVE  IInv'
<1>0. PICK t \in Tx : /\ t = Begin /\ t.pos = place /\ t.clear = TRUE
                      /\ Lists(t.pos) /\ Fitting(t.pos)
  BY BeginSound
<1>1. PICK p : p = t.pos[x].in
  OBVIOUS
<1>2. /\ x \in Rows /\ d \in Rows /\ x # d /\ t.pos[x].in = p /\ t.pos[d].in = "days"
      /\ p \in Parents /\ d \in Parents
  BY <1>0, <1>1, Kinds, RowsAssumption DEF UpdateItem, Rows
<1>3. PICK u : /\ Bump(u)
               /\ p = d => u = MoveOrderedRow(t, x, d, k)
                           /\ k \in 0 .. Cardinality(Under(t.pos, d)) - 1
               /\ p # d => u = MoveToDay(t, x, d, k)
                           /\ k \in 0 .. Cardinality(Under(t.pos, d))
  <2>1. CASE p = d
    BY <1>0, <1>1, <2>1 DEF UpdateItem, Total
  <2>2. CASE p # d
    BY <1>0, <1>1, <2>2 DEF UpdateItem, Total
  <2> QED BY <2>1, <2>2
<1>4. Done(t, u, {x}) /\ u.pos[x].in = d
  <2>1. CASE p = d
    <3>1. Done(t, u, {})
      BY <1>0, <1>2, <1>3, <2>1, MoveLists
    <3> QED BY <1>2, <2>1, <3>1 DEF Done, SameParents
  <2>2. CASE p # d
    BY <1>0, <1>2, <1>3, <2>2, TransferLists
  <2> QED BY <2>1, <2>2
<1>5. exists /\ text' = [text EXCEPT ![x] = c] /\ UNCHANGED <<exists, range, date, audited>>
  BY DEF UpdateItem, Locked
<1>6. Fitting(u.pos)
  <2>1. {x} \intersect Stops = {} /\ {x} \intersect Days = {}
    BY RowsAssumption
  <2>2. u.pos[d].in = "days"
    BY <1>2, <1>4 DEF Done, SameParents
  <2> QED BY <1>0, <1>2, <1>4, <2>1, <2>2, FitStays DEF Done
<1>7. /\ place' = u.pos /\ place' \in [Rows -> Place] /\ revision' \in Nat /\ clashed' = FALSE
      /\ OrdersAreDense'
  BY <1>0, <1>3, <1>4, <1>6, BumpSound DEF Done
<1>8. DatesFit'
  <2>1. \A e \in Rows : place'[e].in = "days" => place[e].in = "days"
    BY <1>0, <1>4, <1>7, Kinds DEF Done, SameParents
  <2> QED BY <1>5, <2>1, DatesStay DEF IInv, ItineraryIsSound, DaysStayInRange
<1>9. text' \in [Items -> Texts]
  BY <1>5 DEF IInv, TypeOK
<1> QED BY <1>5, <1>7, <1>8, <1>9, Whole DEF IInv, TypeOK

\* deleteItem preserves it.
LEMMA DeleteItemSound ==
  ASSUME IInv, NEW x \in Items, DeleteItem(revision, x)
  PROVE  IInv'
<1>0. PICK t \in Tx : /\ t = Begin /\ t.pos = place /\ t.clear = TRUE
                      /\ Lists(t.pos) /\ Fitting(t.pos)
  BY BeginSound
<1>1. PICK p, gone, Q, u : /\ p = t.pos[x].in /\ gone = {x} /\ Q = {}
                           /\ u = CloseOrderGap(Without(t, gone), p, t.pos[x].at)
  OBVIOUS
<1>2. x \in Rows /\ t.pos[x].in = p /\ p \in Parents
  BY <1>0, <1>1, Kinds DEF DeleteItem, Rows
<1>3. gone \in SUBSET Rows /\ Q \in SUBSET (Parents \ {p}) /\ x \in gone
  BY <1>1, <1>2
<1>4. Leaves(t, gone, x, p, Q)
  BY <1>1, <1>2 DEF Leaves
<1>5. Done(t, u, {x}) /\ u.pos[x].in = "deleted"
  <2>1. Done(t, u, gone) /\ \A y \in gone : u.pos[y].in = "deleted"
    BY <1>0, <1>1, <1>2, <1>3, <1>4, RemoveLists
  <2> QED BY <1>1, <2>1
<1>6. /\ Bump(u) /\ exists /\ audited' = audited \union {x}
      /\ UNCHANGED <<exists, range, date, text>>
  BY <1>0, <1>1 DEF DeleteItem, Locked
<1>7. Fitting(u.pos)
  <2>1. {x} \intersect Stops = {} /\ {x} \intersect Days = {}
    BY RowsAssumption
  <2> QED BY <1>0, <1>2, <1>5, <2>1, FitStays DEF Done
<1>8. /\ place' = u.pos /\ place' \in [Rows -> Place] /\ revision' \in Nat /\ clashed' = FALSE
      /\ OrdersAreDense'
  BY <1>0, <1>5, <1>6, <1>7, BumpSound DEF Done
<1>9. DatesFit'
  <2>1. \A d \in Rows : place'[d].in = "days" => place[d].in = "days"
    BY <1>0, <1>5, <1>8 DEF Done, SameParents
  <2> QED BY <1>6, <2>1, DatesStay DEF IInv, ItineraryIsSound, DaysStayInRange
<1> QED BY <1>6, <1>8, <1>9, Whole DEF IInv, TypeOK

\* updateTrip preserves it: the new dates hold every day.
LEMMA UpdateTripSound ==
  ASSUME IInv, NEW from \in Dates, NEW to \in Dates, UpdateTrip(revision, from, to)
  PROVE  IInv'
<1>0. PICK t \in Tx : /\ t = Begin /\ t.pos = place /\ t.clear = TRUE
                      /\ Lists(t.pos) /\ Fitting(t.pos)
  BY BeginSound
<1>1. /\ Bump(t) /\ exists /\ range' = [from |-> from, to |-> to]
      /\ UNCHANGED <<exists, date, text, audited>>
  BY <1>0 DEF UpdateTrip, Locked
<1>2. /\ place' = place /\ place' \in [Rows -> Place] /\ revision' \in Nat /\ clashed' = FALSE
      /\ OrdersAreDense'
  BY <1>0, <1>1, BumpSound
<1>3. DatesFit'
  <2>1. \A d \in Under(place, "days") : date[d] \in from .. to
    BY <1>1 DEF UpdateTrip, IInv, ItineraryIsSound, DaysStayInRange, DatesFit
  <2>2. \A d \in Under(place, "days") : \A e \in Under(place, "days") : date[e] = date[d] => e = d
    BY <1>1 DEF IInv, ItineraryIsSound, DaysStayInRange, DatesFit
  <2> QED BY <1>1, <1>2, <2>1, <2>2 DEF DatesFit
<1> QED BY <1>1, <1>2, <1>3, Whole DEF IInv, TypeOK

\* deleteTrip preserves it: nothing is left under any parent.
LEMMA DeleteTripSound ==
  ASSUME IInv, DeleteTrip(revision)
  PROVE  IInv'
<1>0. PICK t \in Tx : /\ t = Begin /\ t.pos = place /\ t.clear = TRUE
                      /\ Lists(t.pos) /\ Fitting(t.pos)
  BY BeginSound
<1>1. PICK gone \in SUBSET Rows : gone = {x \in Rows : t.pos[x].in \in Parents}
  OBVIOUS
<1>2. /\ exists' = FALSE /\ place' = Without(t, gone).pos /\ audited' = audited \union {"trip"}
      /\ UNCHANGED <<revision, range, date, text, clashed>>
  BY <1>0, <1>1 DEF DeleteTrip
<1>3. /\ Without(t, gone) \in Tx
      /\ \A y \in Rows \ gone : place'[y] = t.pos[y]
      /\ \A y \in gone : place'[y].in = "deleted"
  BY <1>2, WithoutSound
<1>4. place' \in [Rows -> Place]
  BY <1>2, <1>3 DEF Tx
<1>5. \A y \in Rows : place'[y].in \notin Parents
  BY <1>1, <1>3, Kinds
<1>6. Dense(place')
  <2>1. \A p \in Parents : Under(place', p) = {}
    BY <1>5 DEF Under
  <2> QED BY <2>1 DEF Dense
<1>7. Fitting(place')
  <2>1. \A i \in Items : place'[i].in \in {"unsaved", "deleted"}
    BY <1>0, <1>1, <1>3, Kinds DEF Fitting, Rows
  <2>2. \A y \in Stops \union Days : place'[y].in \in {"unsaved", "deleted"}
    BY <1>0, <1>1, <1>3, Kinds DEF Fitting, Rows
  <2> QED BY <2>1, <2>2 DEF Fitting
<1>8. OrdersAreDense'
  BY <1>6, <1>7 DEF OrdersAreDense
<1> QED BY <1>2, <1>4, <1>8, Whole DEF IInv, TypeOK, OrderingNeverFails

\* A saved trip satisfies the invariant.
LEMMA InitSound == Init => IInv
<1> SUFFICES ASSUME Init PROVE IInv
  OBVIOUS
<1>1. PICK s \in Starts : place = s.place /\ date = s.date /\ text = s.text
  BY DEF Init
<1>2. place \in [Rows -> Place] /\ date \in [Days -> Dates] /\ text \in [Items -> Texts]
  BY <1>1, StartsAssumption
<1> QED BY <1>2 DEF Init, IInv, TypeOK, ItineraryIsSound, OrdersAreDense, DaysStayInRange,
                    OrderingNeverFails

\* A step that leaves the trip alone preserves the invariant.
LEMMA Unchanged == IInv /\ UNCHANGED saved => IInv'
BY DEF IInv, saved, TypeOK, ItineraryIsSound, OrdersAreDense, DaysStayInRange, OrderingNeverFails,
       Dense, Fitting, Under, DatesFit

\* Every step preserves the invariant.
LEMMA StepPreserves == IInv /\ [Next]_saved => IInv'
<1> SUFFICES ASSUME IInv, [Next]_saved PROVE IInv'
  OBVIOUS
<1>0. \A k \in 0 .. Cardinality(Rows) : k \in Nat
  OBVIOUS
<1>1. CASE StopRoutes
  <2>1. PICK x \in Stops, k \in 0 .. Cardinality(Rows) :
          \/ CreateDestination(revision, x, k) \/ DeleteDestination(revision, x)
          \/ \E y \in Stops : UpdateDestination(revision, x, y, k)
    BY <1>1 DEF StopRoutes
  <2> QED BY <1>0, <2>1, CreateDestinationSound, DeleteDestinationSound, UpdateDestinationSound
<1>2. CASE DayRoutes
  <2>1. PICK x \in Days, n \in Dates, k \in 0 .. Cardinality(Rows) :
          CreateDay(revision, x, n, k) \/ UpdateDay(revision, x, n, k) \/ DeleteDay(revision, x)
    BY <1>2 DEF DayRoutes
  <2> QED BY <1>0, <2>1, CreateDaySound, UpdateDaySound, DeleteDaySound
<1>3. CASE ItemRoutes
  <2>1. PICK x \in Items, d \in Days, k \in 0 .. Cardinality(Rows), c \in Texts :
          \/ CreateItem(revision, x, d, k, c) \/ UpdateItem(revision, x, d, k, c)
          \/ DeleteItem(revision, x)
    BY <1>3 DEF ItemRoutes
  <2> QED BY <1>0, <2>1, CreateItemSound, UpdateItemSound, DeleteItemSound
<1>4. CASE TripRoutes
  BY <1>4, DeleteTripSound, UpdateTripSound DEF TripRoutes
<1>5. CASE UNCHANGED saved
  BY <1>5, Unchanged
<1> QED BY <1>1, <1>2, <1>3, <1>4, <1>5 DEF Next

\* The invariant holds in every state of every trip.
THEOREM Inductive == Spec => []IInv
BY InitSound, StepPreserves, PTL DEF Spec

\* What a trip is, between any two operations: the orders of its stops, its
\* days and every day's items are 0 .. n - 1, and its days have distinct dates
\* inside its range (trip-repository.ts).
THEOREM ItineraryIsSoundHolds == Spec => []ItineraryIsSound
<1>1. IInv => ItineraryIsSound
  BY DEF IInv
<1> QED BY <1>1, Inductive, PTL

\* No statement of any reordering meets the unique constraint on the way
\* (trip-repository.ts, shiftForInsert, closeOrderGap, moveOrderedRow).
THEOREM OrderingNeverFailsHolds == Spec => []OrderingNeverFails
<1>1. IInv => OrderingNeverFails
  BY DEF IInv
<1> QED BY <1>1, Inductive, PTL

\* The rows under p in the order they stand.
RowsOf(pos, p) ==
  [k \in 1 .. Cardinality(Under(pos, p)) |-> CHOOSE x \in Under(pos, p) : pos[x].at = k - 1]

\* Every row of the sequence stands at its place under p.
Reads(s, pos, p) == \A j \in 1 .. Len(s) : pos[s[j]].in = p /\ pos[s[j]].at = j - 1

\* The sequence of a list has every row at its place.
LEMMA SeqReads ==
  ASSUME NEW pos \in [Rows -> Place], NEW p \in Parents, NEW n \in Nat, Listed(pos, p, n)
  PROVE  RowsOf(pos, p) \in Seq(Rows) /\ Len(RowsOf(pos, p)) = n /\ Reads(RowsOf(pos, p), pos, p)
<1> DEFINE s == RowsOf(pos, p)
<1>1. Cardinality(Under(pos, p)) = n
  BY ListedCount
<1>2. s = [k \in 1 .. n |-> CHOOSE x \in Under(pos, p) : pos[x].at = k - 1]
  BY <1>1 DEF RowsOf
<1>3. ASSUME NEW k \in 1 .. n
      PROVE  s[k] \in Rows /\ pos[s[k]].in = p /\ pos[s[k]].at = k - 1
  <2>1. k - 1 \in 0 .. n - 1
    OBVIOUS
  <2>2. \E x \in Under(pos, p) : pos[x].at = k - 1
    BY <2>1 DEF Listed, Under
  <2>3. s[k] = CHOOSE x \in Under(pos, p) : pos[x].at = k - 1
    BY <1>2
  <2>4. s[k] \in Under(pos, p) /\ pos[s[k]].at = k - 1
    BY <2>2, <2>3
  <2> QED BY <2>4 DEF Under
<1>4. s \in [1 .. n -> Rows]
  BY <1>2, <1>3
<1> HIDE DEF s
<1>5. s \in Seq(Rows) /\ Len(s) = n
  BY <1>4
<1>6. Reads(s, pos, p)
  BY <1>3, <1>5 DEF Reads
<1> QED BY <1>5, <1>6 DEF s

\* There is one such sequence.
LEMMA OneSeq ==
  ASSUME NEW pos \in [Rows -> Place], NEW p \in Parents, NEW n \in Nat, Listed(pos, p, n),
         NEW s \in Seq(Rows), Len(s) = n, Reads(s, pos, p)
  PROVE  RowsOf(pos, p) = s
<1> DEFINE r == RowsOf(pos, p)
<1>1. r \in Seq(Rows) /\ Len(r) = n /\ Reads(r, pos, p)
  BY SeqReads
<1> HIDE DEF r
<1>2. ASSUME NEW j \in 1 .. n PROVE r[j] = s[j]
  <2>1. r[j] \in Rows /\ s[j] \in Rows
    BY <1>1
  <2>2. pos[r[j]].in = p /\ pos[s[j]].in = p /\ pos[r[j]].at = pos[s[j]].at
    BY <1>1 DEF Reads
  <2> QED BY <2>1, <2>2 DEF Listed, Single
<1>3. r = s
  BY <1>1, <1>2, SeqEqual
<1> QED BY <1>3 DEF r

\* A row is found at its place.
LEMMA SeqHas ==
  ASSUME NEW pos \in [Rows -> Place], NEW p \in Parents, NEW n \in Nat, Listed(pos, p, n),
         NEW s, s = RowsOf(pos, p), NEW x \in Rows, pos[x].in = p
  PROVE  pos[x].at + 1 \in 1 .. Len(s) /\ s[pos[x].at + 1] = x
<1>1. s \in Seq(Rows) /\ Len(s) = n /\ Reads(s, pos, p)
  BY SeqReads
<1>2. PICK k : k = pos[x].at + 1
  OBVIOUS
<1>3. pos[x].at \in Nat /\ pos[x].at < n
  BY DEF Listed, Below, Place
<1>4. k \in 1 .. Len(s) /\ pos[x].at = k - 1
  BY <1>1, <1>2, <1>3
<1>5. s[k] \in Rows /\ pos[s[k]].in = p /\ pos[s[k]].at = k - 1
  BY <1>1, <1>4 DEF Reads
<1>6. s[k] = x
  BY <1>4, <1>5 DEF Listed, Single
<1> QED BY <1>2, <1>4, <1>6

\* What the helpers of the community modules do, element by element.
WithElement(s, k, x, r) ==
  /\ Len(r) = Len(s) + 1 /\ r[k] = x
  /\ \A j \in 1 .. k - 1 : r[j] = s[j]
  /\ \A j \in k + 1 .. Len(s) + 1 : r[j] = s[j - 1]
WithoutElement(s, k, r) ==
  /\ Len(r) = Len(s) - 1
  /\ \A j \in 1 .. Len(s) - 1 : r[j] = IF j < k THEN s[j] ELSE s[j + 1]

\* An element more, and the others in order.
LEMMA InsertAtElements ==
  ASSUME NEW S, NEW s \in Seq(S), NEW x \in S, NEW k \in 1 .. Len(s) + 1,
         NEW r, r = Ordered!InsertAt(s, k, x)
  PROVE  r \in Seq(S) /\ WithElement(s, k, x, r)
<1> DEFINE a == SubSeq(s, 1, k - 1)
           b == SubSeq(s, k, Len(s))
           c == a \o <<x>>
<1>1. r = c \o b
  BY DEF Ordered!InsertAt
<1>2. a \in Seq(S) /\ Len(a) = k - 1 /\ \A j \in 1 .. k - 1 : a[j] = s[j]
  BY SubSeqProperties
<1>3. b \in Seq(S) /\ Len(b) = Len(s) - k + 1 /\ \A j \in 1 .. Len(b) : b[j] = s[k + j - 1]
  BY SubSeqProperties
<1> HIDE DEF a, b
<1>4. c \in Seq(S) /\ Len(c) = k /\ c[k] = x /\ \A j \in 1 .. k - 1 : c[j] = s[j]
  <2>1. PICK e : e = <<x>>
    OBVIOUS
  <2>2. e \in Seq(S) /\ Len(e) = 1 /\ e[1] = x
    BY <2>1
  <2>3. /\ c \in Seq(S) /\ Len(c) = Len(a) + Len(e)
        /\ \A j \in 1 .. Len(a) + Len(e) :
             c[j] = IF j <= Len(a) THEN a[j] ELSE e[j - Len(a)]
    <3>1. a \in Seq(S) /\ c = a \o e
      BY <1>2, <2>1
    <3> QED BY <2>2, <3>1, ConcatProperties
  <2>4. Len(a) = k - 1 /\ Len(c) = k
    BY <1>2, <2>2, <2>3
  <2>5. c[k] = x
    <3>1. k \in 1 .. Len(a) + Len(e) /\ ~(k <= Len(a)) /\ k - Len(a) = 1
      BY <2>2, <2>4
    <3> QED BY <2>2, <2>3, <3>1
  <2>6. ASSUME NEW j \in 1 .. k - 1 PROVE c[j] = s[j]
    <3>1. j \in 1 .. Len(a) + Len(e) /\ j <= Len(a)
      BY <2>2, <2>4
    <3>2. c[j] = a[j]
      BY <2>3, <3>1
    <3> QED BY <1>2, <3>2
  <2>7. c \in Seq(S)
    BY <2>3
  <2> QED BY <2>4, <2>5, <2>6, <2>7
<1> HIDE DEF c
<1>5. /\ r \in Seq(S) /\ Len(r) = Len(c) + Len(b)
      /\ \A j \in 1 .. Len(c) + Len(b) :
           r[j] = IF j <= Len(c) THEN c[j] ELSE b[j - Len(c)]
  <2>1. c \in Seq(S) /\ b \in Seq(S)
    BY <1>3, <1>4
  <2> QED BY <1>1, <2>1, ConcatProperties
<1>6. ASSUME NEW j \in 1 .. k PROVE r[j] = c[j]
  <2>1. j \in 1 .. Len(c) + Len(b) /\ j <= Len(c)
    BY <1>3, <1>4
  <2> QED BY <1>5, <2>1
<1>7. ASSUME NEW j \in k + 1 .. Len(s) + 1 PROVE r[j] = s[j - 1]
  <2>1. j - k \in 1 .. Len(b)
    BY <1>3
  <2>2. j \in 1 .. Len(c) + Len(b) /\ ~(j <= Len(c)) /\ j - Len(c) = j - k
    BY <1>3, <1>4
  <2>3. r[j] = b[j - k]
    BY <1>5, <2>2
  <2> QED BY <1>3, <2>1, <2>3
<1>8. Len(r) = Len(s) + 1
  BY <1>3, <1>4, <1>5
<1>9. r[k] = x /\ \A j \in 1 .. k - 1 : r[j] = s[j]
  BY <1>4, <1>6
<1>10. r \in Seq(S)
  BY <1>5
<1> QED BY <1>7, <1>8, <1>9, <1>10 DEF WithElement

\* An element less, and the others in order.
LEMMA RemoveAtElements ==
  ASSUME NEW S, NEW s \in Seq(S), NEW k \in 1 .. Len(s), NEW r, r = Ordered!RemoveAt(s, k)
  PROVE  r \in Seq(S) /\ WithoutElement(s, k, r)
<1> DEFINE a == SubSeq(s, 1, k - 1)
           b == SubSeq(s, k + 1, Len(s))
<1>1. r = a \o b
  BY DEF Ordered!RemoveAt
<1>2. a \in Seq(S) /\ Len(a) = k - 1 /\ \A j \in 1 .. k - 1 : a[j] = s[j]
  BY SubSeqProperties
<1>3. b \in Seq(S) /\ Len(b) = Len(s) - k /\ \A j \in 1 .. Len(b) : b[j] = s[k + j]
  BY SubSeqProperties
<1> HIDE DEF a, b
<1>5. /\ r \in Seq(S) /\ Len(r) = Len(a) + Len(b)
      /\ \A j \in 1 .. Len(a) + Len(b) :
           r[j] = IF j <= Len(a) THEN a[j] ELSE b[j - Len(a)]
  <2>1. a \in Seq(S) /\ b \in Seq(S)
    BY <1>2, <1>3
  <2> QED BY <1>1, <2>1, ConcatProperties
<1>6. ASSUME NEW j \in 1 .. k - 1 PROVE r[j] = s[j]
  <2>1. j \in 1 .. Len(a) + Len(b) /\ j <= Len(a)
    BY <1>2, <1>3
  <2>2. r[j] = a[j]
    BY <1>5, <2>1
  <2> QED BY <1>2, <2>2
<1>7. ASSUME NEW j \in k .. Len(s) - 1 PROVE r[j] = s[j + 1]
  <2>1. j - (k - 1) \in 1 .. Len(b)
    BY <1>3
  <2>2. j \in 1 .. Len(a) + Len(b) /\ ~(j <= Len(a)) /\ j - Len(a) = j - (k - 1)
    BY <1>2, <1>3
  <2>3. r[j] = b[j - (k - 1)]
    BY <1>5, <2>2
  <2> QED BY <1>3, <2>1, <2>3
<1>8. Len(r) = Len(s) - 1
  BY <1>2, <1>3, <1>5
<1>9. ASSUME NEW j \in 1 .. Len(s) - 1 PROVE r[j] = IF j < k THEN s[j] ELSE s[j + 1]
  BY <1>6, <1>7
<1>10. r \in Seq(S)
  BY <1>5
<1> QED BY <1>8, <1>9, <1>10 DEF WithoutElement

\* A list with one more row is the sequence with one more element.
LEMMA OpenedSeq ==
  ASSUME NEW old \in [Rows -> Place], NEW new \in [Rows -> Place], NEW p \in Parents,
         NEW n \in Nat, Listed(old, p, n), Listed(new, p, n + 1), NEW k \in 0 .. n,
         NEW x \in Rows, old[x].in # p, Opened(old, new, p, x, k)
  PROVE  /\ RowsOf(new, p) = Ordered!InsertAt(RowsOf(old, p), k + 1, x)
         /\ k + 1 \in 1 .. Len(RowsOf(old, p)) + 1
<1>1. PICK s : s = RowsOf(old, p)
  OBVIOUS
<1>2. PICK m, r : m = k + 1 /\ r = Ordered!InsertAt(s, m, x)
  OBVIOUS
<1>3. s \in Seq(Rows) /\ Len(s) = n /\ Reads(s, old, p)
  BY <1>1, SeqReads
<1>4. m \in 1 .. Len(s) + 1 /\ m = k + 1 /\ m - 1 = k /\ n + 1 \in Nat
  BY <1>2, <1>3
<1>5. /\ r \in Seq(Rows) /\ Len(r) = Len(s) + 1 /\ r[m] = x
      /\ \A j \in 1 .. m - 1 : r[j] = s[j]
      /\ \A j \in m + 1 .. Len(s) + 1 : r[j] = s[j - 1]
  <2>1. s \in Seq(Rows) /\ m \in 1 .. Len(s) + 1 /\ r = Ordered!InsertAt(s, m, x)
    BY <1>2, <1>3, <1>4
  <2>2. r \in Seq(Rows) /\ WithElement(s, m, x, r)
    BY <2>1, InsertAtElements
  <2> QED BY <2>2 DEF WithElement
<1>6. ASSUME NEW j \in 1 .. n + 1 PROVE new[r[j]].in = p /\ new[r[j]].at = j - 1
  <2>1. CASE j = m
    BY <1>4, <1>5, <2>1 DEF Opened
  <2>2. CASE j < m
    <3>1. j \in 1 .. Len(s) /\ r[j] = s[j]
      BY <1>3, <1>4, <1>5, <2>2
    <3>2. s[j] \in Rows /\ old[s[j]].in = p /\ old[s[j]].at = j - 1
      BY <1>3, <3>1 DEF Reads
    <3>3. s[j] # x /\ ~(old[s[j]].at >= k)
      BY <1>4, <2>2, <3>2
    <3> QED BY <3>1, <3>2, <3>3 DEF Opened
  <2>3. CASE j > m
    <3>1. j - 1 \in 1 .. Len(s) /\ r[j] = s[j - 1]
      BY <1>3, <1>4, <1>5, <2>3
    <3>2. s[j - 1] \in Rows /\ old[s[j - 1]].in = p /\ old[s[j - 1]].at = j - 2
      BY <1>3, <3>1 DEF Reads
    <3>3. s[j - 1] # x /\ old[s[j - 1]].at >= k
      BY <1>4, <2>3, <3>2
    <3>4. new[s[j - 1]].in = p /\ new[s[j - 1]].at = old[s[j - 1]].at + 1
      BY <3>2, <3>3 DEF Opened
    <3>5. PICK y : y = s[j - 1]
      OBVIOUS
    <3>6. r[j] = y /\ new[y].in = p /\ new[y].at = j - 2 + 1
      BY <3>1, <3>2, <3>4, <3>5
    <3> QED BY <3>6
  <2> QED BY <1>4, <2>1, <2>2, <2>3
<1>7. Len(r) = n + 1 /\ Reads(r, new, p)
  BY <1>3, <1>5, <1>6 DEF Reads
<1>8. RowsOf(new, p) = r
  <2>1. PICK l \in Nat : l = n + 1
    BY <1>4
  <2>2. r \in Seq(Rows) /\ Len(r) = l /\ Reads(r, new, p) /\ Listed(new, p, l)
    BY <1>5, <1>7, <2>1
  <2> QED BY <2>2, OneSeq
<1> QED BY <1>1, <1>2, <1>4, <1>8

\* A list that lost a row is the sequence without the element.
LEMMA ClosedSeq ==
  ASSUME NEW old \in [Rows -> Place], NEW new \in [Rows -> Place], NEW p \in Parents,
         NEW n \in Nat, Listed(old, p, n), Listed(new, p, n - 1),
         NEW x \in Rows, old[x].in = p, ClosedUp(old, new, p, x, old[x].at)
  PROVE  /\ RowsOf(new, p) = Ordered!RemoveAt(RowsOf(old, p), old[x].at + 1)
         /\ old[x].at + 1 \in 1 .. Len(RowsOf(old, p)) /\ RowsOf(old, p)[old[x].at + 1] = x
<1>1. PICK s : s = RowsOf(old, p)
  OBVIOUS
<1>2. PICK k : k = old[x].at + 1
  OBVIOUS
<1>3. PICK r : r = Ordered!RemoveAt(s, k)
  OBVIOUS
<1>4. s \in Seq(Rows) /\ Len(s) = n /\ Reads(s, old, p)
  BY <1>1, SeqReads
<1>5. k \in 1 .. Len(s) /\ s[k] = x
  <2>1. old[x].at + 1 \in 1 .. Len(s) /\ s[old[x].at + 1] = x
    BY <1>1, SeqHas
  <2> QED BY <1>2, <2>1
<1>6. /\ r \in Seq(Rows) /\ Len(r) = Len(s) - 1
      /\ \A j \in 1 .. Len(s) - 1 : r[j] = IF j < k THEN s[j] ELSE s[j + 1]
  <2>1. s \in Seq(Rows) /\ k \in 1 .. Len(s)
    BY <1>4, <1>5
  <2>2. r \in Seq(Rows) /\ WithoutElement(s, k, r)
    BY <1>3, <2>1, RemoveAtElements
  <2> QED BY <2>2 DEF WithoutElement
<1>7. ASSUME NEW j \in 1 .. n - 1 PROVE new[r[j]].in = p /\ new[r[j]].at = j - 1
  <2>1. CASE j < k
    <3>1. j \in 1 .. Len(s) /\ r[j] = s[j]
      BY <1>4, <1>6, <2>1
    <3>2. s[j] \in Rows /\ old[s[j]].in = p /\ old[s[j]].at = j - 1
      BY <1>4, <3>1 DEF Reads
    <3>3. old[x].at = k - 1
      BY <1>4, <1>5 DEF Reads
    <3>4. s[j] # x /\ ~(old[s[j]].at > old[x].at)
      BY <1>5, <2>1, <3>2, <3>3
    <3> QED BY <3>1, <3>2, <3>4 DEF ClosedUp
  <2>2. CASE ~(j < k)
    <3>1. j + 1 \in 1 .. Len(s) /\ r[j] = s[j + 1]
      BY <1>4, <1>6, <2>2
    <3>2. s[j + 1] \in Rows /\ old[s[j + 1]].in = p /\ old[s[j + 1]].at = j
      BY <1>4, <3>1 DEF Reads
    <3>3. old[x].at = k - 1
      BY <1>4, <1>5 DEF Reads
    <3>4. s[j + 1] # x /\ old[s[j + 1]].at > old[x].at
      BY <1>5, <2>2, <3>2, <3>3
    <3> QED BY <3>1, <3>2, <3>4 DEF ClosedUp
  <2> QED BY <2>1, <2>2
<1>8. Len(r) = n - 1 /\ Reads(r, new, p) /\ n - 1 \in Nat
  BY <1>4, <1>5, <1>6, <1>7 DEF Reads
<1>9. RowsOf(new, p) = r
  <2>1. PICK l \in Nat : l = n - 1
    BY <1>8
  <2>2. r \in Seq(Rows) /\ Len(r) = l /\ Reads(r, new, p) /\ Listed(new, p, l)
    BY <1>6, <1>8, <2>1
  <2> QED BY <2>2, OneSeq
<1> QED BY <1>1, <1>2, <1>3, <1>5, <1>9

\* Row y stands at k under p in place of x, the other rows step as for a move of x to k.
Reordered(pos, new, p, x, y, k) ==
  /\ new[y].in = p /\ new[y].at = k
  /\ \A z \in Rows \ {x, y} : pos[z].in = p =>
       new[z].in = p /\ new[z].at = Stepped(pos[z].at, pos[x].at, k)

\* Which row of the old list stands at j of the new one.
LEMMA SteppedBack ==
  ASSUME NEW g \in Nat, NEW k \in Nat, NEW i \in Nat
  PROVE  /\ i < g /\ i < k => Stepped(i, g, k) = i
         /\ i < g /\ i >= k => Stepped(i, g, k) = i + 1
         /\ i > g /\ i <= k => Stepped(i, g, k) = i - 1
         /\ i > g /\ i > k => Stepped(i, g, k) = i
BY DEF Stepped

\* A move in a list, perhaps to another row: one element is removed, and one inserted.
LEMMA ReorderedSeq ==
  ASSUME NEW old \in [Rows -> Place], NEW new \in [Rows -> Place], NEW p \in Parents,
         NEW n \in Nat, Listed(old, p, n), Listed(new, p, n), NEW k \in 0 .. n - 1,
         NEW x \in Rows, old[x].in = p, NEW y \in Rows, y # x => old[y].in # p,
         Reordered(old, new, p, x, y, k)
  PROVE  \E v \in Seq(Rows) :
           /\ v = Ordered!RemoveAt(RowsOf(old, p), old[x].at + 1)
           /\ RowsOf(new, p) = Ordered!InsertAt(v, k + 1, y)
           /\ old[x].at + 1 \in 1 .. Len(RowsOf(old, p)) /\ k + 1 \in 1 .. Len(v) + 1
           /\ RowsOf(old, p)[old[x].at + 1] = x
<1>1. PICK s : s = RowsOf(old, p)
  OBVIOUS
<1>2. PICK g, h : g = old[x].at /\ h = g + 1
  OBVIOUS
<1>3. PICK v : v = Ordered!RemoveAt(s, h)
  OBVIOUS
<1>4. PICK m, r : m = k + 1 /\ r = Ordered!InsertAt(v, m, y)
  OBVIOUS
<1>5. s \in Seq(Rows) /\ Len(s) = n /\ Reads(s, old, p)
  BY <1>1, SeqReads
<1>6. h \in 1 .. Len(s) /\ s[h] = x
  <2>1. old[x].at + 1 \in 1 .. Len(s) /\ s[old[x].at + 1] = x
    BY <1>1, SeqHas
  <2> QED BY <1>2, <2>1
<1>7. v \in Seq(Rows) /\ WithoutElement(s, h, v)
  BY <1>3, <1>5, <1>6, RemoveAtElements
<1>8. Len(v) = n - 1 /\ \A j \in 1 .. n - 1 : v[j] = IF j < h THEN s[j] ELSE s[j + 1]
  BY <1>5, <1>7 DEF WithoutElement
<1>9. m \in 1 .. Len(v) + 1
  BY <1>4, <1>8
<1>10. r \in Seq(Rows) /\ WithElement(v, m, y, r)
  BY <1>4, <1>7, <1>9, InsertAtElements
<1>11. /\ Len(r) = n /\ r[m] = y
       /\ \A j \in 1 .. m - 1 : r[j] = v[j]
       /\ \A j \in m + 1 .. n : r[j] = v[j - 1]
  BY <1>8, <1>10 DEF WithElement
<1>12. g \in Nat /\ k \in Nat /\ h = g + 1 /\ m = k + 1 /\ m \in 1 .. n /\ h \in 1 .. n
  BY <1>2, <1>4, <1>5, <1>6, <1>8, <1>9 DEF Place
<1>13. ASSUME NEW i \in 1 .. n, i # h
       PROVE  /\ s[i] \in Rows
              /\ new[s[i]].in = p /\ new[s[i]].at = Stepped(i - 1, g, k)
  <2>1. s[i] \in Rows /\ old[s[i]].in = p /\ old[s[i]].at = i - 1
    BY <1>5 DEF Reads
  <2>2. i - 1 # g
    BY <1>12, <1>13
  <2>3. s[i] # x
    BY <1>2, <2>1, <2>2
  <2>4. s[i] # y
    BY <2>1, <2>3
  <2> QED BY <1>2, <2>1, <2>3, <2>4 DEF Reordered
<1>14. ASSUME NEW j \in 1 .. n PROVE new[r[j]].in = p /\ new[r[j]].at = j - 1
  <2>1. CASE j = m
    BY <1>11, <1>12, <2>1 DEF Reordered
  <2>2. CASE j < m /\ j < h
    <3>1. r[j] = s[j] /\ j \in 1 .. n /\ j # h
      BY <1>8, <1>11, <1>12, <2>2
    <3>2. j - 1 \in Nat /\ j - 1 < g /\ j - 1 < k
      BY <1>12, <2>2
    <3>3. Stepped(j - 1, g, k) = j - 1
      BY <1>12, <3>2, SteppedBack
    <3> QED BY <1>13, <3>1, <3>3
  <2>3. CASE j < m /\ ~(j < h)
    <3>1. PICK i : i = j + 1
      OBVIOUS
    <3>2. r[j] = s[i] /\ i \in 1 .. n /\ i # h
      BY <1>8, <1>11, <1>12, <2>3, <3>1
    <3>3. j \in Nat /\ j > g /\ j <= k /\ i - 1 = j
      BY <1>12, <2>3, <3>1
    <3>4. Stepped(i - 1, g, k) = j - 1
      BY <1>12, <3>3, SteppedBack
    <3> QED BY <1>13, <3>2, <3>4
  <2>4. CASE j > m /\ j - 1 < h
    <3>1. PICK i : i = j - 1
      OBVIOUS
    <3>2. r[j] = s[i] /\ i \in 1 .. n /\ i # h
      BY <1>8, <1>11, <1>12, <2>4, <3>1
    <3>3. i - 1 \in Nat /\ i - 1 < g /\ i - 1 >= k
      BY <1>12, <2>4, <3>1
    <3>4. Stepped(i - 1, g, k) = i - 1 + 1
      BY <1>12, <3>3, SteppedBack
    <3>5. Stepped(i - 1, g, k) = j - 1
      BY <3>1, <3>3, <3>4
    <3> QED BY <1>13, <3>2, <3>5
  <2>5. CASE j > m /\ ~(j - 1 < h)
    <3>0. j \in 1 .. n /\ j # h
      BY <1>12, <2>5
    <3>1. r[j] = s[j] /\ j \in 1 .. n /\ j # h
      BY <1>8, <1>11, <1>12, <2>5, <3>0
    <3>2. j - 1 \in Nat /\ j - 1 > g /\ j - 1 > k
      BY <1>12, <2>5
    <3>3. Stepped(j - 1, g, k) = j - 1
      BY <1>12, <3>2, SteppedBack
    <3> QED BY <1>13, <3>1, <3>3
  <2> QED BY <1>12, <2>1, <2>2, <2>3, <2>4, <2>5
<1>15. RowsOf(new, p) = r
  <2>1. Reads(r, new, p)
    BY <1>11, <1>14 DEF Reads
  <2> QED BY <1>10, <1>11, <2>1, OneSeq
<1> QED BY <1>1, <1>2, <1>3, <1>4, <1>6, <1>7, <1>9, <1>15

SeqsOf(pos) == [p \in Parents |-> RowsOf(pos, p)]

\* The lists of the API are these sequences, before a step and after it.
LEMMA ListsAreSeqs ==
  /\ [p \in Parents |-> List(p)] = SeqsOf(place)
  /\ [p \in Parents |-> List(p)]' = SeqsOf(place')
<1>1. \A p \in Parents : List(p) = RowsOf(place, p)
  BY DEF List, RowsOf, Total, Under
<1>2. \A p \in Parents : List(p)' = RowsOf(place', p)
  BY DEF List, RowsOf, Total, Under
<1> QED BY <1>1, <1>2 DEF SeqsOf

\* A list that no row leaves, enters or moves in.
LEMMA SeqStays ==
  ASSUME NEW old \in [Rows -> Place], NEW new \in [Rows -> Place], Lists(old), NEW q \in Parents,
         \A y \in Rows : old[y].in = q \/ new[y].in = q => new[y] = old[y]
  PROVE  RowsOf(new, q) = RowsOf(old, q)
<1>1. PICK n \in Nat : Listed(old, q, n)
  BY DEF Lists
<1>2. PICK s : s = RowsOf(old, q)
  OBVIOUS
<1>3. s \in Seq(Rows) /\ Len(s) = n /\ Reads(s, old, q)
  BY <1>1, <1>2, SeqReads
<1>4. Listed(new, q, n)
  BY <1>1, ListStays
<1>5. Reads(s, new, q)
  <2> SUFFICES ASSUME NEW j \in 1 .. Len(s)
               PROVE  new[s[j]].in = q /\ new[s[j]].at = j - 1
    BY DEF Reads
  <2>1. s[j] \in Rows /\ old[s[j]].in = q /\ old[s[j]].at = j - 1
    BY <1>3 DEF Reads
  <2> QED BY <2>1
<1> QED BY <1>2, <1>3, <1>4, <1>5, OneSeq

\* One list changes.
LEMMA OneSeqChanges ==
  ASSUME NEW old \in [Rows -> Place], NEW new \in [Rows -> Place], Lists(old), NEW p \in Parents,
         NEW X, Kept(old, new, X, {p}),
         \A x \in X : old[x].in \notin Parents \ {p} /\ new[x].in \notin Parents \ {p}
  PROVE  SeqsOf(new) = Ordered!With(SeqsOf(old), p, RowsOf(new, p))
<1>1. ASSUME NEW q \in Parents, q # p PROVE RowsOf(new, q) = RowsOf(old, q)
  <2>1. \A y \in Rows : old[y].in = q \/ new[y].in = q => new[y] = old[y]
    BY <1>1 DEF Kept
  <2> QED BY <2>1, SeqStays
<1> QED BY <1>1 DEF SeqsOf, Ordered!With

\* A row that is under no parent is in no list.
LEMMA NotHeld ==
  ASSUME NEW pos \in [Rows -> Place], Lists(pos), NEW x \in Rows, pos[x].in \notin Parents,
         NEW p \in Parents
  PROVE  x \notin Ordered!ToSet(RowsOf(pos, p))
<1>1. PICK n \in Nat : Listed(pos, p, n)
  BY DEF Lists
<1>2. PICK s : s = RowsOf(pos, p)
  OBVIOUS
<1>3. s \in Seq(Rows) /\ Reads(s, pos, p)
  BY <1>1, <1>2, SeqReads
<1>4. \A j \in 1 .. Len(s) : s[j] # x
  BY <1>3 DEF Reads
<1>5. DOMAIN s = 1 .. Len(s)
  BY <1>3
<1> QED BY <1>2, <1>4, <1>5 DEF Ordered!ToSet

\* An insertion is an insertion.
LEMMA InsertStep ==
  ASSUME IInv, NEW p \in Parents, NEW x \in Rows, place[x].in \notin Parents,
         NEW k \in 0 .. Total(p), Bump(Put(ShiftForInsert(Begin, p, k), x, p, k))
  PROVE  Ordered!Insert(p, x)
<1>0. PICK t \in Tx : /\ t = Begin /\ t.pos = place /\ t.clear = TRUE
                      /\ Lists(t.pos) /\ Fitting(t.pos)
  BY BeginSound
<1>1. PICK u : u = Put(ShiftForInsert(t, p, k), x, p, k)
  OBVIOUS
<1>2. PICK n \in Nat : n = Cardinality(Under(t.pos, p)) /\ n < Offset /\ Listed(t.pos, p, n)
  BY <1>0, ListOf DEF Tx
<1>3. k \in 0 .. n /\ t.pos[x].in # p /\ t.pos[x].in \notin Parents
  BY <1>0, <1>2 DEF Total
<1>4. Added(t, u, p, x, n, k)
  BY <1>1, <1>2, <1>3, InsertSound
<1>5. PICK old, new : old = t.pos /\ new = u.pos
  OBVIOUS
<1>6. old \in [Rows -> Place] /\ new \in [Rows -> Place] /\ Lists(old)
  BY <1>0, <1>4, <1>5 DEF Added, Tx
<1>7. /\ Listed(old, p, n) /\ Listed(new, p, n + 1) /\ old[x].in \notin Parents
      /\ Opened(old, new, p, x, k) /\ Kept(old, new, {x}, {p})
  BY <1>2, <1>3, <1>4, <1>5 DEF Added
<1>8. PICK s, j : s = RowsOf(old, p) /\ j = k + 1
  OBVIOUS
<1>9. RowsOf(new, p) = Ordered!InsertAt(s, j, x) /\ j \in 1 .. Len(s) + 1
  BY <1>3, <1>5, <1>6, <1>7, <1>8, OpenedSeq
<1>10. SeqsOf(new) = Ordered!With(SeqsOf(old), p, RowsOf(new, p))
  <2>1. PICK X : X = {x}
    OBVIOUS
  <2>2. \A y \in X : old[y].in \notin Parents \ {p} /\ new[y].in \notin Parents \ {p}
    BY <1>7, <2>1 DEF Opened
  <2> QED BY <1>6, <1>7, <2>1, <2>2, OneSeqChanges
<1>11. place = old /\ place' = new /\ revision' = revision + 1
  BY <1>0, <1>1, <1>5 DEF Bump
<1>12. ~Ordered!Held(x)
  <2>1. \A q \in Parents : x \notin Ordered!ToSet(SeqsOf(old)[q])
    BY <1>6, <1>7, NotHeld DEF SeqsOf
  <2> QED BY <1>11, <2>1, ListsAreSeqs DEF Ordered!Held
<1>13. SeqsOf(old)[p] = s
  BY <1>8 DEF SeqsOf
<1>14. [q \in Parents |-> List(q)]' = Ordered!With(SeqsOf(old), p, Ordered!InsertAt(s, j, x))
  BY <1>9, <1>10, <1>11, ListsAreSeqs
<1> QED BY <1>9, <1>11, <1>12, <1>13, <1>14, ListsAreSeqs DEF Ordered!Insert, Ordered!Bump

\* A move in a list is a removal and an insertion there.
LEMMA MoveStep ==
  ASSUME IInv, NEW p \in Parents, NEW x \in Rows, place[x].in = p,
         NEW k \in 0 .. Total(p) - 1, Bump(MoveOrderedRow(Begin, x, p, k))
  PROVE  Ordered!Move(p, p)
<1>0. PICK t \in Tx : /\ t = Begin /\ t.pos = place /\ t.clear = TRUE
                      /\ Lists(t.pos) /\ Fitting(t.pos)
  BY BeginSound
<1>1. PICK u : u = MoveOrderedRow(t, x, p, k)
  OBVIOUS
<1>2. PICK n \in Nat : n = Cardinality(Under(t.pos, p)) /\ n < Offset /\ Listed(t.pos, p, n)
  BY <1>0, ListOf DEF Tx
<1>3. k \in 0 .. n - 1 /\ t.pos[x].in = p
  BY <1>0, <1>2 DEF Total
<1>4. Rearranged(t, u, p, x, n, k)
  BY <1>1, <1>2, <1>3, MoveSound
<1>5. PICK old, new : old = t.pos /\ new = u.pos
  OBVIOUS
<1>6. old \in [Rows -> Place] /\ new \in [Rows -> Place] /\ Lists(old)
  BY <1>0, <1>4, <1>5 DEF Rearranged, Tx
<1>7. /\ Listed(old, p, n) /\ Listed(new, p, n) /\ old[x].in = p
      /\ Moved(old, new, p, x, k) /\ Kept(old, new, {}, {p})
  BY <1>2, <1>3, <1>4, <1>5 DEF Rearranged
<1>8. Reordered(old, new, p, x, x, k)
  BY <1>7 DEF Moved, Reordered
<1>9. PICK s, g, h : s = RowsOf(old, p) /\ g = old[x].at + 1 /\ h = k + 1
  OBVIOUS
<1>10. PICK v \in Seq(Rows) :
         /\ v = Ordered!RemoveAt(s, g) /\ RowsOf(new, p) = Ordered!InsertAt(v, h, x)
         /\ g \in 1 .. Len(s) /\ h \in 1 .. Len(v) + 1 /\ s[g] = x
  BY <1>3, <1>6, <1>7, <1>8, <1>9, ReorderedSeq
<1>11. SeqsOf(new) = Ordered!With(SeqsOf(old), p, RowsOf(new, p))
  <2>1. \A y \in {} : old[y].in \notin Parents \ {p} /\ new[y].in \notin Parents \ {p}
    OBVIOUS
  <2> QED BY <1>6, <1>7, <2>1, OneSeqChanges
<1>12. place = old /\ place' = new /\ revision' = revision + 1
  BY <1>0, <1>1, <1>5 DEF Bump
<1>13. PICK l, taken : l = SeqsOf(old) /\ taken = Ordered!With(l, p, v)
  OBVIOUS
<1>14. l[p] = s
  BY <1>9, <1>13 DEF SeqsOf
<1>15. taken[p] = v /\ Ordered!With(taken, p, RowsOf(new, p)) = Ordered!With(l, p, RowsOf(new, p))
  <2>1. taken[p] = v
    BY <1>13 DEF Ordered!With
  <2>2. \A r : Ordered!With(Ordered!With(l, p, v), p, r) = Ordered!With(l, p, r)
    BY DEF Ordered!With
  <2> QED BY <1>13, <2>1, <2>2
<1>16. /\ [q \in Parents |-> List(q)] = l
       /\ [q \in Parents |-> List(q)]'
            = Ordered!With(taken, p, Ordered!InsertAt(taken[p], h, l[p][g]))
  BY <1>10, <1>11, <1>12, <1>13, <1>14, <1>15, ListsAreSeqs
<1>17. taken = Ordered!With(l, p, Ordered!RemoveAt(l[p], g)) /\ g \in 1 .. Len(l[p])
  BY <1>10, <1>13, <1>14
<1>18. h \in 1 .. Len(taken[p]) + 1
  BY <1>10, <1>15
<1> QED BY <1>12, <1>16, <1>17, <1>18 DEF Ordered!Move, Ordered!Bump, Ordered!Places

\* Another place at another position is a removal and an insertion of another element.
LEMMA ReplaceStep ==
  ASSUME IInv, NEW p \in Parents, NEW x \in Rows, place[x].in = p,
         NEW y \in Rows, y # x, place[y].in \notin Parents,
         NEW k \in 0 .. Total(p) - 1,
         Bump(Put(Without(MoveOrderedRow(Begin, x, p, k), {x}), y, p, k))
  PROVE  Ordered!Replace(p, y)
<1>0. PICK t \in Tx : /\ t = Begin /\ t.pos = place /\ t.clear = TRUE
                      /\ Lists(t.pos) /\ Fitting(t.pos)
  BY BeginSound
<1>1. PICK v, u : v = MoveOrderedRow(t, x, p, k) /\ u = Put(Without(v, {x}), y, p, k)
  OBVIOUS
<1>2. PICK n \in Nat : n = Cardinality(Under(t.pos, p)) /\ n < Offset /\ Listed(t.pos, p, n)
  BY <1>0, ListOf DEF Tx
<1>3. k \in 0 .. n - 1 /\ k \in Nat /\ t.pos[x].in = p /\ t.pos[y].in \notin Parents
  BY <1>0, <1>2 DEF Total
<1>4. Rearranged(t, v, p, x, n, k)
  BY <1>1, <1>2, <1>3, MoveSound
<1>4a. /\ v \in Tx /\ Listed(v.pos, p, n) /\ v.pos[x] = At(p, k)
       /\ Moved(t.pos, v.pos, p, x, k) /\ Kept(t.pos, v.pos, {}, {p})
  BY <1>4 DEF Rearranged
<1>4b. v.pos[y].in # p
  BY <1>3, <1>4a DEF Kept
<1>4c. Replaced(v, u, p, x, y, n, k)
  BY <1>1, <1>3, <1>4a, <1>4b, ReplaceSound
<1>4d. /\ u \in Tx /\ Listed(u.pos, p, n) /\ u.pos[x].in = "deleted" /\ u.pos[y] = At(p, k)
       /\ \A z \in Rows \ {x, y} : u.pos[z] = v.pos[z]
  BY <1>4c DEF Replaced
<1>5. PICK old, new : old = t.pos /\ new = u.pos
  OBVIOUS
<1>6. old \in [Rows -> Place] /\ new \in [Rows -> Place] /\ Lists(old)
  BY <1>0, <1>4d, <1>5 DEF Tx
<1>7. Listed(old, p, n) /\ Listed(new, p, n) /\ old[x].in = p /\ old[y].in \notin Parents
  BY <1>2, <1>3, <1>4d, <1>5
<1>8. Reordered(old, new, p, x, y, k)
  <2>1. new[y].in = p /\ new[y].at = k
    BY <1>4d, <1>5 DEF At
  <2>2. \A z \in Rows \ {x, y} : old[z].in = p =>
          new[z].in = p /\ new[z].at = Stepped(old[z].at, old[x].at, k)
    BY <1>4a, <1>4d, <1>5 DEF Moved
  <2> QED BY <2>1, <2>2 DEF Reordered
<1>8a. Kept(old, new, {x, y}, {p})
  BY <1>4a, <1>4d, <1>5 DEF Kept
<1>9. PICK s, g, h : s = RowsOf(old, p) /\ g = old[x].at + 1 /\ h = k + 1
  OBVIOUS
<1>10. PICK w \in Seq(Rows) :
         /\ w = Ordered!RemoveAt(s, g) /\ RowsOf(new, p) = Ordered!InsertAt(w, h, y)
         /\ g \in 1 .. Len(s) /\ h \in 1 .. Len(w) + 1 /\ s[g] = x
  <2>1. y # x => old[y].in # p
    BY <1>7
  <2> QED BY <1>3, <1>6, <1>7, <1>8, <1>9, <2>1, ReorderedSeq
<1>10a. h \in 1 .. Len(s)
  <2>1. Len(s) = n
    BY <1>6, <1>7, <1>9, SeqReads
  <2> QED BY <1>3, <1>9, <2>1
<1>11. SeqsOf(new) = Ordered!With(SeqsOf(old), p, RowsOf(new, p))
  <2>1. PICK X : X = {x, y}
    OBVIOUS
  <2>2. new[x].in \notin Parents /\ new[y].in = p
    BY <1>4d, <1>5, <1>8, Kinds DEF Reordered
  <2>3. \A z \in X : old[z].in \notin Parents \ {p} /\ new[z].in \notin Parents \ {p}
    BY <1>7, <2>1, <2>2
  <2> QED BY <1>6, <1>8a, <2>1, <2>3, OneSeqChanges
<1>12. place = old /\ place' = new /\ revision' = revision + 1
  BY <1>0, <1>1, <1>5 DEF Bump
<1>13. ~Ordered!Held(y)
  <2>1. \A q \in Parents : y \notin Ordered!ToSet(SeqsOf(old)[q])
    BY <1>6, <1>7, NotHeld DEF SeqsOf
  <2> QED BY <1>12, <2>1, ListsAreSeqs DEF Ordered!Held
<1>14. PICK l : l = SeqsOf(old)
  OBVIOUS
<1>15. l[p] = s
  BY <1>9, <1>14 DEF SeqsOf
<1>16. /\ [q \in Parents |-> List(q)] = l
       /\ [q \in Parents |-> List(q)]'
            = Ordered!With(l, p, Ordered!InsertAt(Ordered!RemoveAt(l[p], g), h, y))
  BY <1>10, <1>11, <1>12, <1>14, <1>15, ListsAreSeqs
<1>17. g \in 1 .. Len(l[p]) /\ h \in 1 .. Len(l[p])
  BY <1>10, <1>10a, <1>15
<1> QED BY <1>12, <1>13, <1>16, <1>17 DEF Ordered!Replace, Ordered!Bump, Ordered!Places

\* A deleted row is taken out of its list.
LEMMA TakeStep ==
  ASSUME IInv, NEW p \in Parents, NEW x \in Rows \ Days, place[x].in = p,
         Bump(CloseOrderGap(Without(Begin, {x}), p, place[x].at))
  PROVE  Ordered!Take(p)
<1>0. PICK t \in Tx : /\ t = Begin /\ t.pos = place /\ t.clear = TRUE
                      /\ Lists(t.pos) /\ Fitting(t.pos)
  BY BeginSound
<1>1. PICK gone, u : /\ gone = {x} /\ gone \in SUBSET Rows
                     /\ u = CloseOrderGap(Without(t, gone), p, t.pos[x].at)
  OBVIOUS
<1>2. PICK n \in Nat : n < Offset /\ Listed(t.pos, p, n)
  BY <1>0, ListOf DEF Tx
<1>3. x \in gone /\ t.pos[x].in = p /\ \A y \in gone \ {x} : t.pos[y].in # p
  BY <1>0, <1>1
<1>4. Removed(t, u, gone, x, p, n)
  BY <1>1, <1>2, <1>3, RemoveSound
<1>5. PICK old, new : old = t.pos /\ new = u.pos
  OBVIOUS
<1>6. old \in [Rows -> Place] /\ new \in [Rows -> Place] /\ Lists(old)
  BY <1>0, <1>4, <1>5 DEF Removed, Tx
<1>7. /\ Listed(old, p, n) /\ Listed(new, p, n - 1) /\ old[x].in = p /\ new[x].in = "deleted"
      /\ ClosedUp(old, new, p, x, old[x].at) /\ Kept(old, new, gone, {p})
  BY <1>2, <1>3, <1>4, <1>5 DEF Removed
<1>8. PICK s, g : s = RowsOf(old, p) /\ g = old[x].at + 1
  OBVIOUS
<1>9. RowsOf(new, p) = Ordered!RemoveAt(s, g) /\ g \in 1 .. Len(s) /\ s[g] = x
  BY <1>6, <1>7, <1>8, ClosedSeq
<1>10. SeqsOf(new) = Ordered!With(SeqsOf(old), p, RowsOf(new, p))
  <2>1. \A y \in gone : old[y].in \notin Parents \ {p} /\ new[y].in \notin Parents \ {p}
    BY <1>1, <1>7, Kinds
  <2> QED BY <1>6, <1>7, <2>1, OneSeqChanges
<1>11. place = old /\ place' = new /\ revision' = revision + 1
  BY <1>0, <1>1, <1>5 DEF Bump
<1>12. PICK l : l = SeqsOf(old)
  OBVIOUS
<1>13. l[p] = s
  BY <1>8, <1>12 DEF SeqsOf
<1>14. /\ [q \in Parents |-> List(q)] = l
       /\ [q \in Parents |-> List(q)]' = Ordered!With(l, p, Ordered!RemoveAt(l[p], g))
  BY <1>9, <1>10, <1>11, <1>12, <1>13, ListsAreSeqs
<1>15. g \in 1 .. Len(l[p]) /\ l[p][g] \notin Days
  BY <1>9, <1>13
<1> QED BY <1>11, <1>14, <1>15 DEF Ordered!Take, Ordered!Bump, Ordered!Places

\* A list that no row is in.
LEMMA NoSeq ==
  ASSUME NEW pos \in [Rows -> Place], NEW p \in Parents, \A y \in Rows : pos[y].in # p
  PROVE  RowsOf(pos, p) = <<>>
<1>1. Listed(pos, p, 0)
  <2>1. 0 .. 0 - 1 = {}
    OBVIOUS
  <2> QED BY <2>1 DEF Listed, Single, Below
<1>2. RowsOf(pos, p) \in Seq(Rows) /\ Len(RowsOf(pos, p)) = 0
  BY <1>1, SeqReads
<1> QED BY <1>2, EmptySeq

\* A day is taken out of the days, and its list is empty.
LEMMA DropDayStep ==
  ASSUME IInv, NEW x \in Days, place[x].in = "days",
         Bump(CloseOrderGap(Without(Begin, {x} \union Under(place, x)), "days", place[x].at))
  PROVE  Ordered!DropDay
<1>0. PICK t \in Tx : /\ t = Begin /\ t.pos = place /\ t.clear = TRUE
                      /\ Lists(t.pos) /\ Fitting(t.pos)
  BY BeginSound
<1>1. PICK p, gone, u : /\ p = "days" /\ gone = {x} \union Under(t.pos, x)
                        /\ u = CloseOrderGap(Without(t, gone), p, t.pos[x].at)
  OBVIOUS
<1>1a. p \in Parents /\ x \in Parents /\ x # p /\ gone \in SUBSET Rows /\ x \in Rows
  BY <1>1, Kinds DEF Under, Rows
<1>2. PICK n \in Nat : n < Offset /\ Listed(t.pos, p, n)
  BY <1>0, <1>1a, ListOf DEF Tx
<1>3. x \in gone /\ t.pos[x].in = p /\ \A y \in gone \ {x} : t.pos[y].in # p
  BY <1>0, <1>1, <1>1a DEF Under
<1>4. Removed(t, u, gone, x, p, n)
  BY <1>1, <1>1a, <1>2, <1>3, RemoveSound
<1>5. PICK old, new : old = t.pos /\ new = u.pos
  OBVIOUS
<1>6. old \in [Rows -> Place] /\ new \in [Rows -> Place] /\ Lists(old)
  BY <1>0, <1>4, <1>5 DEF Removed, Tx
<1>7. /\ Listed(old, p, n) /\ Listed(new, p, n - 1) /\ old[x].in = p
      /\ \A y \in gone : new[y].in = "deleted"
      /\ ClosedUp(old, new, p, x, old[x].at) /\ Kept(old, new, gone, {p})
  BY <1>2, <1>3, <1>4, <1>5 DEF Removed
<1>8. PICK s, g : s = RowsOf(old, p) /\ g = old[x].at + 1
  OBVIOUS
<1>9. RowsOf(new, p) = Ordered!RemoveAt(s, g) /\ g \in 1 .. Len(s) /\ s[g] = x
  BY <1>1a, <1>6, <1>7, <1>8, ClosedSeq
<1>10. RowsOf(new, x) = <<>>
  <2>1. \A y \in Rows : new[y].in # x
    <3> SUFFICES ASSUME NEW y \in Rows, new[y].in = x PROVE FALSE
      OBVIOUS
    <3>1. y \notin gone
      BY <1>1a, <1>7, Kinds
    <3>2. old[y].in = x
      BY <1>7, <3>1 DEF Kept
    <3> QED BY <1>1, <1>5, <3>1, <3>2 DEF Under
  <2> QED BY <1>1a, <1>6, <2>1, NoSeq
<1>11. ASSUME NEW q \in Parents, q # p, q # x PROVE RowsOf(new, q) = RowsOf(old, q)
  <2>1. \A y \in gone : old[y].in # q /\ new[y].in # q
    BY <1>1, <1>5, <1>7, <1>11, Kinds DEF Under
  <2>2. \A y \in Rows : old[y].in = q \/ new[y].in = q => new[y] = old[y]
    BY <1>7, <1>11, <2>1 DEF Kept
  <2> QED BY <1>6, <2>2, SeqStays
<1>12. place = old /\ place' = new /\ revision' = revision + 1
  BY <1>0, <1>1, <1>5 DEF Bump
<1>13. PICK l, c : l = SeqsOf(old) /\ c = Ordered!With(l, p, Ordered!RemoveAt(s, g))
  OBVIOUS
<1>14. l[p] = s
  BY <1>1a, <1>8, <1>13 DEF SeqsOf
<1>15. SeqsOf(new) = Ordered!With(c, x, <<>>)
  <2>1. \A q \in Parents : RowsOf(new, q)
          = IF q = x THEN <<>> ELSE IF q = p THEN Ordered!RemoveAt(s, g) ELSE RowsOf(old, q)
    BY <1>1a, <1>9, <1>10, <1>11
  <2>2. Ordered!With(c, x, <<>>) = [q \in Parents |->
          IF q = x THEN <<>> ELSE IF q = p THEN Ordered!RemoveAt(s, g) ELSE RowsOf(old, q)]
    BY <1>13 DEF Ordered!With, SeqsOf
  <2> QED BY <2>1, <2>2 DEF SeqsOf
<1>16. /\ [q \in Parents |-> List(q)] = l /\ l["days"][g] = x /\ g \in 1 .. Len(l["days"])
       /\ [q \in Parents |-> List(q)]'
            = Ordered!With(Ordered!With(l, "days", Ordered!RemoveAt(l["days"], g)),
                           l["days"][g], <<>>)
  BY <1>1, <1>9, <1>12, <1>13, <1>14, <1>15, ListsAreSeqs
<1> QED BY <1>12, <1>16 DEF Ordered!DropDay, Ordered!Bump, Ordered!Places

\* An item taken out of the list of its day is put into another one.
LEMMA TransferStep ==
  ASSUME IInv, NEW p \in Parents, NEW d \in Parents, d # p, NEW x \in Rows, place[x].in = p,
         NEW k \in 0 .. Total(d), Bump(MoveToDay(Begin, x, d, k))
  PROVE  Ordered!Move(p, d)
<1>0. PICK t \in Tx : /\ t = Begin /\ t.pos = place /\ t.clear = TRUE
                      /\ Lists(t.pos) /\ Fitting(t.pos)
  BY BeginSound
<1>1. PICK u : u = MoveToDay(t, x, d, k)
  OBVIOUS
<1>2. PICK n \in Nat : n < Offset /\ Listed(t.pos, p, n)
  BY <1>0, ListOf DEF Tx
<1>3. PICK m \in Nat : m = Cardinality(Under(t.pos, d)) /\ m < Offset /\ Listed(t.pos, d, m)
  BY <1>0, ListOf DEF Tx
<1>4. k \in 0 .. m /\ k \in Nat /\ t.pos[x].in = p
  BY <1>0, <1>3 DEF Total
<1>5. Transferred(t, u, x, p, n, d, m, k)
  <2>1. Transfer(t, x, p, n, d, m, k)
    BY <1>2, <1>3, <1>4 DEF Transfer
  <2> QED BY <1>1, <1>4, <2>1, MoveToDaySound
<1>6. PICK old, new : old = t.pos /\ new = u.pos
  OBVIOUS
<1>7. old \in [Rows -> Place] /\ new \in [Rows -> Place] /\ Lists(old)
  BY <1>0, <1>5, <1>6 DEF Transferred, Tx
<1>8. /\ Listed(old, p, n) /\ Listed(new, p, n - 1) /\ Listed(old, d, m) /\ Listed(new, d, m + 1)
      /\ old[x].in = p /\ ClosedUp(old, new, p, x, old[x].at) /\ Opened(old, new, d, x, k)
      /\ Kept(old, new, {x}, {p, d})
  BY <1>2, <1>3, <1>4, <1>5, <1>6 DEF Transferred
<1>9. PICK s, r, g, h : s = RowsOf(old, p) /\ r = RowsOf(old, d) /\ g = old[x].at + 1 /\ h = k + 1
  OBVIOUS
<1>10. RowsOf(new, p) = Ordered!RemoveAt(s, g) /\ g \in 1 .. Len(s) /\ s[g] = x
  BY <1>7, <1>8, <1>9, ClosedSeq
<1>11. RowsOf(new, d) = Ordered!InsertAt(r, h, x) /\ h \in 1 .. Len(r) + 1
  <2>1. old[x].in # d
    BY <1>8
  <2> QED BY <1>4, <1>7, <1>8, <1>9, <2>1, OpenedSeq
<1>12. ASSUME NEW q \in Parents, q # p, q # d PROVE RowsOf(new, q) = RowsOf(old, q)
  <2>1. old[x].in # q /\ new[x].in # q
    BY <1>8, <1>12 DEF Opened
  <2>2. \A y \in Rows : old[y].in = q \/ new[y].in = q => new[y] = old[y]
    BY <1>8, <1>12, <2>1 DEF Kept
  <2> QED BY <1>7, <2>2, SeqStays
<1>13. place = old /\ place' = new /\ revision' = revision + 1
  BY <1>0, <1>1, <1>6 DEF Bump
<1>14. PICK l, taken : l = SeqsOf(old) /\ taken = Ordered!With(l, p, Ordered!RemoveAt(s, g))
  OBVIOUS
<1>15. l[p] = s /\ l[d] = r
  BY <1>9, <1>14 DEF SeqsOf
<1>16. taken[d] = r
  BY <1>14, <1>15 DEF Ordered!With
<1>17. SeqsOf(new) = Ordered!With(taken, d, Ordered!InsertAt(r, h, x))
  <2>1. \A q \in Parents : RowsOf(new, q)
          = IF q = d THEN Ordered!InsertAt(r, h, x)
            ELSE IF q = p THEN Ordered!RemoveAt(s, g) ELSE RowsOf(old, q)
    BY <1>10, <1>11, <1>12
  <2>2. Ordered!With(taken, d, Ordered!InsertAt(r, h, x)) = [q \in Parents |->
          IF q = d THEN Ordered!InsertAt(r, h, x)
          ELSE IF q = p THEN Ordered!RemoveAt(s, g) ELSE RowsOf(old, q)]
    BY <1>14 DEF Ordered!With, SeqsOf
  <2> QED BY <2>1, <2>2 DEF SeqsOf
<1>18. /\ [q \in Parents |-> List(q)] = l /\ g \in 1 .. Len(l[p]) /\ h \in 1 .. Len(taken[d]) + 1
       /\ taken = Ordered!With(l, p, Ordered!RemoveAt(l[p], g))
       /\ [q \in Parents |-> List(q)]'
            = Ordered!With(taken, d, Ordered!InsertAt(taken[d], h, l[p][g]))
  BY <1>10, <1>11, <1>13, <1>14, <1>15, <1>16, <1>17, ListsAreSeqs
<1> QED BY <1>13, <1>18 DEF Ordered!Move, Ordered!Bump, Ordered!Places

\* A saved trip maps to lists.
LEMMA InitRefines == Init => Ordered!Init
<1> SUFFICES ASSUME Init PROVE Ordered!Init
  OBVIOUS
<1>1. IInv
  BY InitSound
<1>2. place \in [Rows -> Place] /\ Lists(place)
  BY <1>1, BeginSound DEF Tx
<1>3. ASSUME NEW p \in Parents PROVE RowsOf(place, p) \in Seq(Rows)
  <2>1. PICK n \in Nat : Listed(place, p, n)
    BY <1>2 DEF Lists
  <2> QED BY <1>2, <2>1, SeqReads
<1>4. SeqsOf(place) \in [Parents -> Seq(Rows)]
  BY <1>3 DEF SeqsOf
<1>5. PICK l : l = SeqsOf(place)
  OBVIOUS
<1>6. ASSUME NEW p \in Parents, NEW j \in 1 .. Len(l[p])
      PROVE  place[l[p][j]].in = p /\ place[l[p][j]].at = j - 1
  <2>1. PICK n \in Nat : Listed(place, p, n)
    BY <1>2 DEF Lists
  <2>2. Reads(l[p], place, p)
    BY <1>2, <1>5, <2>1, SeqReads DEF SeqsOf
  <2> QED BY <2>2 DEF Reads
<1>7. ASSUME NEW p \in Parents, NEW q \in Parents,
             NEW j \in 1 .. Len(l[p]), NEW k \in 1 .. Len(l[q]), l[p][j] = l[q][k]
      PROVE  p = q /\ j = k
  <2>1. /\ place[l[p][j]].in = p /\ place[l[p][j]].at = j - 1
        /\ place[l[q][k]].in = q /\ place[l[q][k]].at = k - 1
    BY <1>6
  <2>2. j - 1 = k - 1 /\ p = q
    BY <1>7, <2>1
  <2>3. j \in Int /\ k \in Int
    OBVIOUS
  <2> QED BY <2>2, <2>3
<1>8. [p \in Parents |-> List(p)] = l /\ revision = 1
  BY <1>5, ListsAreSeqs DEF Init
<1> QED BY <1>4, <1>5, <1>7, <1>8 DEF Ordered!Init, Ordered!Places

\* The end of the trip empties every list.
LEMMA DropStep ==
  ASSUME IInv, DeleteTrip(revision)
  PROVE  Ordered!Drop
<1>1. /\ revision' = revision /\ place \in [Rows -> Place]
      /\ place' = Without(Begin, {x \in Rows : place[x].in \in Parents}).pos
  BY DEF DeleteTrip, IInv, TypeOK
<1>2. PICK t \in Tx : t = Begin /\ t.pos = place
  BY BeginSound
<1>3. PICK gone, u : /\ gone = {x \in Rows : place[x].in \in Parents}
                     /\ gone \in SUBSET Rows /\ u = Without(t, gone)
  OBVIOUS
<1>4. /\ u \in Tx /\ \A y \in Rows \ gone : u.pos[y] = t.pos[y]
      /\ \A y \in gone : u.pos[y].in = "deleted"
  BY <1>3, WithoutSound
<1>5. place' = u.pos /\ u.pos \in [Rows -> Place]
  BY <1>1, <1>2, <1>3, <1>4 DEF Tx
<1>6. \A y \in Rows : u.pos[y].in \notin Parents
  BY <1>2, <1>3, <1>4, Kinds
<1>7. \A p \in Parents : RowsOf(u.pos, p) = <<>>
  BY <1>5, <1>6, NoSeq
<1>8. SeqsOf(place') = [p \in Parents |-> <<>>]
  BY <1>5, <1>7 DEF SeqsOf
<1> QED BY <1>1, <1>8, ListsAreSeqs DEF Ordered!Drop

\* Every operation on stops is one step of lists.
LEMMA StopsRefine ==
  ASSUME IInv, StopRoutes
  PROVE  Ordered!Next
<1>1. PICK x \in Stops, k \in 0 .. Cardinality(Rows) :
        \/ CreateDestination(revision, x, k) \/ DeleteDestination(revision, x)
        \/ \E y \in Stops : UpdateDestination(revision, x, y, k)
  BY DEF StopRoutes
<1>2. PICK p \in Parents : p = "stops"
  BY Kinds
<1>3. Fitting(place) /\ x \in Rows /\ x \notin Days
  BY RowsAssumption DEF IInv, ItineraryIsSound, OrdersAreDense, Rows
<1>4. CASE CreateDestination(revision, x, k)
  <2>1. /\ place[x].in \notin Parents /\ k \in 0 .. Total(p)
        /\ Bump(Put(ShiftForInsert(Begin, p, k), x, p, k))
    BY <1>2, <1>3, <1>4, Kinds DEF CreateDestination, Fitting
  <2>2. Ordered!Insert(p, x)
    BY <1>3, <2>1, InsertStep
  <2> QED BY <1>3, <2>2 DEF Ordered!Next
<1>5. CASE DeleteDestination(revision, x)
  <2>1. place[x].in = p /\ Bump(CloseOrderGap(Without(Begin, {x}), p, place[x].at))
    BY <1>2, <1>5 DEF DeleteDestination
  <2>2. Ordered!Take(p)
    BY <1>3, <2>1, TakeStep
  <2> QED BY <2>2 DEF Ordered!Next
<1>6. ASSUME NEW y \in Stops, UpdateDestination(revision, x, y, k) PROVE Ordered!Next
  <2>1. place[x].in = p /\ k \in 0 .. Total(p) - 1 /\ y \in Rows
    BY <1>2, <1>6 DEF UpdateDestination, Rows
  <2>2. CASE x = y
    <3>1. Bump(MoveOrderedRow(Begin, x, p, k))
      BY <1>2, <1>6, <2>2 DEF UpdateDestination
    <3>2. Ordered!Move(p, p)
      BY <1>3, <2>1, <3>1, MoveStep
    <3> QED BY <3>2 DEF Ordered!Next
  <2>3. CASE x # y
    <3>1. /\ place[y].in \notin Parents
          /\ Bump(Put(Without(MoveOrderedRow(Begin, x, p, k), {x}), y, p, k))
      BY <1>2, <1>3, <1>6, <2>3, Kinds DEF UpdateDestination, Fitting
    <3>2. Ordered!Replace(p, y)
      BY <1>3, <2>1, <2>3, <3>1, ReplaceStep
    <3> QED BY <2>1, <3>2 DEF Ordered!Next
  <2> QED BY <2>2, <2>3
<1> QED BY <1>1, <1>4, <1>5, <1>6

\* Every operation on days is one step of lists.
LEMMA DaysRefine ==
  ASSUME IInv, DayRoutes
  PROVE  Ordered!Next
<1>1. PICK x \in Days, n \in Dates, k \in 0 .. Cardinality(Rows) :
        CreateDay(revision, x, n, k) \/ UpdateDay(revision, x, n, k) \/ DeleteDay(revision, x)
  BY DEF DayRoutes
<1>2. PICK p \in Parents : p = "days"
  BY Kinds
<1>3. x \in Rows
  BY DEF Rows
<1>4. CASE CreateDay(revision, x, n, k)
  <2>1. /\ place[x].in \notin Parents /\ k \in 0 .. Total(p)
        /\ Bump(Put(ShiftForInsert(Begin, p, k), x, p, k))
    BY <1>2, <1>4, Kinds DEF CreateDay
  <2>2. Ordered!Insert(p, x)
    BY <1>3, <2>1, InsertStep
  <2> QED BY <1>3, <2>2 DEF Ordered!Next
<1>5. CASE UpdateDay(revision, x, n, k)
  <2>1. /\ place[x].in = p /\ k \in 0 .. Total(p) - 1
        /\ Bump(MoveOrderedRow(Begin, x, p, k))
    BY <1>2, <1>5 DEF UpdateDay
  <2>2. Ordered!Move(p, p)
    BY <1>3, <2>1, MoveStep
  <2> QED BY <2>2 DEF Ordered!Next
<1>6. CASE DeleteDay(revision, x)
  <2>1. /\ place[x].in = "days"
        /\ Bump(CloseOrderGap(Without(Begin, {x} \union Under(place, x)), "days", place[x].at))
    BY <1>6 DEF DeleteDay
  <2>2. Ordered!DropDay
    BY <2>1, DropDayStep
  <2> QED BY <2>2 DEF Ordered!Next
<1> QED BY <1>1, <1>4, <1>5, <1>6

\* Every operation on items is one step of lists.
LEMMA ItemsRefine ==
  ASSUME IInv, ItemRoutes
  PROVE  Ordered!Next
<1>1. PICK x \in Items, d \in Days, k \in 0 .. Cardinality(Rows), c \in Texts :
        \/ CreateItem(revision, x, d, k, c) \/ UpdateItem(revision, x, d, k, c)
        \/ DeleteItem(revision, x)
  BY DEF ItemRoutes
<1>2. x \in Rows \ Days /\ d \in Parents
  BY RowsAssumption, Kinds DEF Rows
<1>3. CASE CreateItem(revision, x, d, k, c)
  <2>1. /\ place[x].in \notin Parents /\ k \in 0 .. Total(d)
        /\ Bump(Put(ShiftForInsert(Begin, d, k), x, d, k))
    BY <1>3, Kinds DEF CreateItem
  <2>2. Ordered!Insert(d, x)
    BY <1>2, <2>1, InsertStep
  <2> QED BY <1>2, <2>2 DEF Ordered!Next
<1>4. CASE UpdateItem(revision, x, d, k, c)
  <2>1. PICK p \in Parents : p = place[x].in
    BY <1>4, Kinds DEF UpdateItem
  <2>2. CASE p = d
    <3>1. /\ place[x].in = d /\ k \in 0 .. Total(d) - 1
          /\ Bump(MoveOrderedRow(Begin, x, d, k))
      BY <1>4, <2>1, <2>2 DEF UpdateItem
    <3>2. Ordered!Move(d, d)
      BY <1>2, <3>1, MoveStep
    <3> QED BY <1>2, <3>2 DEF Ordered!Next
  <2>3. CASE p # d
    <3>1. place[x].in = p /\ k \in 0 .. Total(d) /\ Bump(MoveToDay(Begin, x, d, k))
      BY <1>4, <2>1, <2>3 DEF UpdateItem
    <3>2. Ordered!Move(p, d)
      BY <1>2, <2>3, <3>1, TransferStep
    <3> QED BY <1>2, <3>2 DEF Ordered!Next
  <2> QED BY <2>2, <2>3
<1>5. CASE DeleteItem(revision, x)
  <2>1. PICK p \in Parents : p = place[x].in
    BY <1>5, Kinds DEF DeleteItem
  <2>2. place[x].in = p /\ Bump(CloseOrderGap(Without(Begin, {x}), p, place[x].at))
    BY <1>5, <2>1 DEF DeleteItem
  <2>3. Ordered!Take(p)
    BY <1>2, <2>2, TakeStep
  <2> QED BY <2>3 DEF Ordered!Next
<1> QED BY <1>1, <1>3, <1>4, <1>5

\* updateTrip changes no list, and deleteTrip empties them.
LEMMA TripRefines ==
  ASSUME IInv, TripRoutes
  PROVE  Ordered!Next
<1>1. CASE DeleteTrip(revision)
  BY <1>1, DropStep DEF Ordered!Next
<1>2. ASSUME NEW from \in Dates, NEW to \in Dates, UpdateTrip(revision, from, to)
      PROVE  Ordered!Next
  <2>1. place' = place /\ revision' = revision + 1
    BY <1>2 DEF UpdateTrip, Bump, Begin
  <2>2. [p \in Parents |-> List(p)]' = [p \in Parents |-> List(p)]
    BY <2>1, ListsAreSeqs
  <2> QED BY <2>1, <2>2 DEF Ordered!Next, Ordered!Touch, Ordered!Bump
<1> QED BY <1>1, <1>2 DEF TripRoutes

\* The shifts of order indexes amount to inserting, removing, moving or replacing
\* one element of a list, a deleted day taking its items along, each with a new
\* revision (trip-repository.ts, and shiftForInsert, closeOrderGap, moveOrderedRow).
THEOREM ImplementsListsHolds == Spec => ImplementsLists
<1>1. IInv /\ [Next]_saved => [Ordered!Next]_(Ordered!vars)
  <2> SUFFICES ASSUME IInv, [Next]_saved PROVE Ordered!Next \/ UNCHANGED Ordered!vars
    OBVIOUS
  <2>1. CASE Next
    BY <2>1, StopsRefine, DaysRefine, ItemsRefine, TripRefines DEF Next
  <2>2. CASE UNCHANGED saved
    <3>1. place' = place /\ revision' = revision
      BY <2>2 DEF saved
    <3>2. [p \in Parents |-> List(p)]' = [p \in Parents |-> List(p)]
      BY <3>1, ListsAreSeqs
    <3> QED BY <3>1, <3>2 DEF Ordered!vars
  <2> QED BY <2>1, <2>2
<1> QED BY <1>1, InitRefines, Inductive, PTL DEF Spec, ImplementsLists, Ordered!Spec
===============================================================================
