---------------------------- MODULE TravelDataProofs ----------------------------
(***************************************************************************)
(* FlightsAreSound and AnswersAreCurrent for any callers, inputs, fallback *)
(* chain and policy.  The invariant adds what a flight and a caller carry  *)
(* from step to step (FlightSound, CallerSound): a result in hand is       *)
(* current when it is delivered, because time stands still while it is on  *)
(* its way; and a caller has a flight of its own only while it waits for   *)
(* it, or behind its back to renew what it was answered.  A flight moves   *)
(* the circuit in one of three ways (Keeps, Tells, Enters), which settles  *)
(* the probes once and for all (AlonePreserved).                           *)
(*                                                                         *)
(* Then, for the reconciliation that asks for the forecasts: what its      *)
(* transactions have in hand rests on a published forecast (LiveIInv), and *)
(* a refresh without another beside it has, row by row, done what it must  *)
(* (LoneInv), which makes a commit exact.                                  *)
(***************************************************************************)
EXTENDS TravelData, LiveConditions, FiniteSetTheorems, NaturalsInduction, WellFoundedInduction,
        TLAPS

\* The states of a circuit, a caller and a flight.
Circuit == [failures : 0 .. FailureThreshold, halfOpen : BOOLEAN,
            openedAt : (0 .. MaxTime) \cup {None}]
Call == [state : CallStates, input : Inputs \cup {None}, on : Flights \cup {None},
         aborted : BOOLEAN, result : Result]
Flight == [state : FlightStates, key : Keys \cup {None}, provider : Providers,
           fallback : 0 .. Len(Fallbacks) + 1, attempts : 0 .. MaxAttempts,
           since : 0 .. MaxTime, deaf : BOOLEAN, result : Result]

\* An answer that says current or stale is so at time t.
Current(r, t) ==
  /\ r.status = "success" => t < r.entry.staleAt
  /\ r.status = "stale" => r.entry.staleAt <= t /\ t < r.entry.expiresAt

\* What a flight carries from step to step.
FlightSound(f, fl, t) ==
  /\ fl.state # "none" => fl.key \in Keys
  /\ fl.fallback > 0 => f[2] = "chain"
  /\ fl.state \in {"falling", "candidate"} => fl.fallback > 0
  /\ fl.state \in {"calling", "sleeping", "writing", "candidate"} => fl.fallback <= Len(Fallbacks)
  /\ fl.state = "sleeping" => fl.attempts < MaxAttempts
  /\ fl.state \in {"calling", "sleeping"} => fl.since <= t
  /\ fl.state \in {"writing", "falling", "candidate", "ending"} => Current(fl.result, t)

\* What a caller relies on, and the flights that it has.
CallerSound(c) ==
  /\ call[c].state \in {"seen", "waiting"} => call[c].input \in Inputs
  /\ call[c].state = "seen" => Current(call[c].result, now)
  /\ call[c].state = "waiting" => call[c].on \in Flights /\ Active(call[c].on)
  /\ Active(<<c, "chain">>) => call[c].state = "waiting" /\ call[c].on = <<c, "chain">>
  /\ Active(<<c, "refresh">>) =>
       call[c].state = "answered" \/ flight[<<c, "chain">>].state = "ending"

\* A flight that the circuit admitted as a probe, and the probe being the only one.
Probing(f, p) ==
  Working(f) /\ flight[f].provider = p /\ flight[f].since >= circuit[p].openedAt + OpenFor
Alone(p) ==
  circuit[p].openedAt # None =>
    \A f \in Flights : Probing(f, p) =>
       circuit[p].halfOpen /\ \A g \in Flights : Probing(g, p) => g = f

Typed ==
  /\ now \in 0 .. MaxTime
  /\ cache \in [Keys -> Entry \cup {None}]
  /\ circuit \in [Providers -> Circuit]
  /\ inFlight \in [Keys -> Flights \cup {None}]
  /\ call \in [Callers -> Call]
  /\ flight \in [Flights -> Flight]

Registered ==
  \A k \in Keys, f \in Flights : inFlight[k] = f <=> Active(f) /\ flight[f].key = k

IInv ==
  /\ Typed
  /\ Registered
  /\ \A f \in Flights : FlightSound(f, flight[f], now)
  /\ \A c \in Callers : CallerSound(c)
  /\ \A p \in Providers : Alone(p)

\* The flight f becomes y.
FlightBecomes(f, y) == flight' = [flight EXCEPT ![f] = y]

\* The circuit stays, is told how the fetch ended, or admits the fetch.
Keeps(f, y) ==
  /\ circuit' = circuit
  /\ y.state \in {"calling", "sleeping"} =>
       Working(f) /\ y.provider = flight[f].provider /\ y.since = flight[f].since
Tells(y) ==
  /\ \E q \in Providers, kind \in Failures \cup {"success"} :
       circuit' = [circuit EXCEPT ![q] = Concluded(q, kind)]
  /\ y.state \notin {"calling", "sleeping"}
Enters(y) ==
  \E q \in Providers :
    /\ Admitted(q) /\ circuit' = [circuit EXCEPT ![q] = Acquired(q)]
    /\ y.provider = q /\ y.since = now

\* The library's least element, for two numbers.
LEMMA MinOfTwo ==
  ASSUME NEW a \in Nat, NEW b \in Nat
  PROVE  Min({a, b}) = IF a <= b THEN a ELSE b
<1> DEFINE m == IF a <= b THEN a ELSE b
<1>1. m \in {a, b} /\ \A y \in {a, b} : m <= y
  OBVIOUS
<1>2. \A x \in {a, b} : (\A y \in {a, b} : x <= y) => x = m
  OBVIOUS
<1> QED BY <1>1, <1>2 DEF Min

\* What the policies' assumption gives for each constant.
LEMMA Constants ==
  /\ MaxAttempts \in Nat \ {0} /\ FailureThreshold \in Nat \ {0}
  /\ OpenFor \in Nat \ {0} /\ FreshFor \in Nat \ {0} /\ StaleFor \in Nat /\ MaxTime \in Nat
  /\ Len(Fallbacks) \in Nat
  /\ \A i \in 1 .. Len(Fallbacks) : Fallbacks[i] \in Providers
  /\ Primary \in Providers
<1>1. Fallbacks \in Seq(Providers \ {Primary})
  BY PoliciesAreValid
<1>2. \A i \in 1 .. Len(Fallbacks) : Fallbacks[i] \in Providers \ {Primary}
  BY <1>1
<1>3. Primary \in Providers
  BY DEF Providers
<1> QED BY <1>1, <1>2, <1>3, PoliciesAreValid

\* The least values lie in their ranges.
LEMMA Bounds ==
  /\ 0 \in 0 .. MaxAttempts /\ 1 \in 0 .. MaxAttempts
  /\ 0 \in 0 .. MaxTime /\ 0 \in Times
BY Constants DEF Times

\* A failure says nothing of an entry.
LEMMA FailureIsCurrent ==
  ASSUME NEW kind \in Failures, NEW p \in Providers, NEW t
  PROVE  Failure(kind, p) \in Result /\ Current(Failure(kind, p), t)
<1>1. NoEntry \in Entry
  BY Bounds DEF NoEntry, Entry
<1>2. kind # "success" /\ kind # "stale"
  BY DEF Failures, AttemptFailures, Unavailable, Invalid, Refused, Limited
<1>3. Failure(kind, p) \in Result
  BY <1>1 DEF Failure, Result
<1>4. Failure(kind, p).status = kind
  BY DEF Failure
<1> QED BY <1>2, <1>3, <1>4 DEF Current

\* A flight whose fetch ends keeps its key and goes on with that result.
LEMMA FetchOverSound ==
  ASSUME NEW f \in Flights, NEW fl \in Flight, NEW r \in Result, NEW t \in Nat,
         fl.key \in Keys, fl.fallback > 0 => f[2] = "chain", fl.fallback <= Len(Fallbacks),
         Current(r, t)
  PROVE  /\ FetchOver(f, fl, r) \in Flight
         /\ FlightSound(f, FetchOver(f, fl, r), t)
         /\ FetchOver(f, fl, r).state \in {"falling", "candidate", "ending"}
         /\ FetchOver(f, fl, r).key = fl.key
<1> DEFINE falls == f[2] = "chain" /\ ~Succeeded(r) /\ (fl.fallback > 0 \/ r.status \in FallbackOn)
           s == IF falls THEN "falling" ELSE IF fl.fallback > 0 THEN "candidate" ELSE "ending"
           n == IF falls THEN fl.fallback + 1 ELSE fl.fallback
           y1 == [fl EXCEPT !.result = r]
           y2 == [y1 EXCEPT !.attempts = 0]
           y3 == [y2 EXCEPT !.since = 0]
           y4 == [y3 EXCEPT !.deaf = FALSE]
           y5 == [y4 EXCEPT !.state = s]
           y == [y5 EXCEPT !.fallback = n]
<1>1. FetchOver(f, fl, r) = y
  BY DEF FetchOver
<1>2. y1 \in Flight /\ y1.result = r /\ y1.key = fl.key /\ y1.fallback = fl.fallback
  BY DEF Flight
<1> HIDE DEF y1
<1>3. y2 \in Flight /\ y2.result = r /\ y2.key = fl.key /\ y2.fallback = fl.fallback
  BY <1>2, Bounds DEF Flight
<1> HIDE DEF y2
<1>4. y3 \in Flight /\ y3.result = r /\ y3.key = fl.key /\ y3.fallback = fl.fallback
  BY <1>3, Bounds DEF Flight
<1> HIDE DEF y3
<1>5. y4 \in Flight /\ y4.result = r /\ y4.key = fl.key /\ y4.fallback = fl.fallback
  BY <1>4 DEF Flight
<1> HIDE DEF y4
<1>6. y5 \in Flight /\ y5.result = r /\ y5.key = fl.key /\ y5.fallback = fl.fallback /\ y5.state = s
  BY <1>5 DEF Flight, FlightStates
<1> HIDE DEF y5
<1>7. n \in 0 .. Len(Fallbacks) + 1
  BY Constants DEF Flight
<1>8. /\ y \in Flight /\ y.result = r /\ y.key = fl.key /\ y.fallback = n /\ y.state = s
  BY <1>6, <1>7 DEF Flight
<1> HIDE DEF y
<1>9. /\ s \in {"falling", "candidate", "ending"}
      /\ n > 0 => f[2] = "chain"
      /\ s \in {"falling", "candidate"} => n > 0
      /\ s = "candidate" => n <= Len(Fallbacks)
  BY Constants DEF Flight
<1> HIDE DEF s, n
<1>10. FlightSound(f, y, t)
  BY <1>8, <1>9 DEF FlightSound
<1> QED BY <1>1, <1>8, <1>9, <1>10

\* A flight that turns to a provider either begins an attempt that the circuit
\* admits, or is over at once.
LEMMA FetchingSound ==
  ASSUME NEW f \in Flights, NEW fl \in Flight, NEW p \in Providers, now \in 0 .. MaxTime,
         call \in [Callers -> Call],
         fl.key \in Keys, fl.fallback > 0 => f[2] = "chain", fl.fallback <= Len(Fallbacks)
  PROVE  /\ Fetching(f, fl, p) \in Flight
         /\ FlightSound(f, Fetching(f, fl, p), now)
         /\ Fetching(f, fl, p).state \in {"calling", "falling", "candidate", "ending"}
         /\ Fetching(f, fl, p).key = fl.key
         /\ (Fetching(f, fl, p).state = "calling" =>
               Admitted(p) /\ Fetching(f, fl, p).provider = p /\ Fetching(f, fl, p).since = now)
<1> DEFINE next == [fl EXCEPT !.provider = p]
<1>1. /\ next \in Flight /\ next.provider = p /\ next.key = fl.key /\ next.fallback = fl.fallback
  BY DEF Flight
<1>2. CASE <<p, fl.key[2]>> \in Uncovered
  <2> DEFINE r == Failure("unsupported", p)
  <2>0. "unsupported" \in Failures
    BY DEF Failures, AttemptFailures, Refused
  <2>1. Fetching(f, fl, p) = FetchOver(f, next, r)
    BY <1>2 DEF Fetching
  <2>2. r \in Result /\ Current(r, now) 
    BY <2>0, FailureIsCurrent
  <2> HIDE DEF next, r
  <2>3. /\ FetchOver(f, next, r) \in Flight /\ FlightSound(f, FetchOver(f, next, r), now)
        /\ FetchOver(f, next, r).state \in {"falling", "candidate", "ending"}
        /\ FetchOver(f, next, r).key = next.key
    BY <1>1, <2>2, FetchOverSound, Constants
  <2> QED BY <1>1, <2>1, <2>3
<1>3. CASE <<p, fl.key[2]>> \notin Uncovered /\ ~Admitted(p)
  <2> DEFINE r == Failure("circuit_open", p)
  <2>0. "circuit_open" \in Failures
    BY DEF Failures
  <2>1. Fetching(f, fl, p) = FetchOver(f, next, r)
    BY <1>3 DEF Fetching
  <2>2. r \in Result /\ Current(r, now) 
    BY <2>0, FailureIsCurrent
  <2> HIDE DEF next, r
  <2>3. /\ FetchOver(f, next, r) \in Flight /\ FlightSound(f, FetchOver(f, next, r), now)
        /\ FetchOver(f, next, r).state \in {"falling", "candidate", "ending"}
        /\ FetchOver(f, next, r).key = next.key
    BY <1>1, <2>2, FetchOverSound, Constants
  <2> QED BY <1>1, <2>1, <2>3
<1>4. CASE <<p, fl.key[2]>> \notin Uncovered /\ Admitted(p)
  <2> DEFINE y1 == [next EXCEPT !.state = "calling"]
             y2 == [y1 EXCEPT !.attempts = 1]
             y3 == [y2 EXCEPT !.since = now]
             y == [y3 EXCEPT !.deaf = Aborted(f)]
  <2>1. Fetching(f, fl, p) = y
    BY <1>4 DEF Fetching
  <2>2. Aborted(f) \in BOOLEAN
    BY DEF Aborted, Call, Flights
  <2> HIDE DEF next
  <2>3. /\ y1 \in Flight /\ y1.state = "calling" /\ y1.provider = p
        /\ y1.key = fl.key /\ y1.fallback = fl.fallback
    BY <1>1 DEF Flight, FlightStates
  <2> HIDE DEF y1
  <2>4. /\ y2 \in Flight /\ y2.state = "calling" /\ y2.provider = p
        /\ y2.key = fl.key /\ y2.fallback = fl.fallback
    BY <2>3, Bounds DEF Flight
  <2> HIDE DEF y2
  <2>5. /\ y3 \in Flight /\ y3.state = "calling" /\ y3.provider = p
        /\ y3.key = fl.key /\ y3.fallback = fl.fallback
        /\ y3.since = now
    BY <2>4 DEF Flight
  <2> HIDE DEF y3
  <2>6. /\ y \in Flight /\ y.state = "calling" /\ y.provider = p
        /\ y.key = fl.key /\ y.fallback = fl.fallback
        /\ y.since = now
    BY <2>5, <2>2 DEF Flight
  <2> HIDE DEF y
  <2>7. FlightSound(f, y, now)
    BY <2>6 DEF FlightSound
  <2> QED BY <1>4, <2>1, <2>6, <2>7
<1> QED BY <1>2, <1>3, <1>4

\* A circuit that is told of an end opens now, or not at all.
LEMMA ConcludedCircuit ==
  ASSUME Typed, NEW q \in Providers, NEW kind
  PROVE  Concluded(q, kind) \in Circuit /\ Concluded(q, kind).openedAt \in {None, now}
<1>1. Closed \in Circuit /\ Closed.openedAt = None
  BY Constants DEF Closed, Circuit
<1>2. Broken(q) \in Circuit /\ Broken(q).openedAt \in {None, now}
  <2> DEFINE n == Min({circuit[q].failures + 1, FailureThreshold})
  <2>1. circuit[q].failures \in 0 .. FailureThreshold
    BY DEF Typed, Circuit
  <2>2. n = IF circuit[q].failures + 1 <= FailureThreshold THEN circuit[q].failures + 1
            ELSE FailureThreshold
    BY <2>1, MinOfTwo, Constants
  <2>3. n \in 0 .. FailureThreshold
    BY <2>1, <2>2, Constants
  <2> HIDE DEF n
  <2>4. Broken(q) = [failures |-> n, halfOpen |-> FALSE,
                     openedAt |-> IF circuit[q].openedAt # None \/ n >= FailureThreshold
                                  THEN now ELSE None]
    BY DEF Broken, n
  <2>5. now \in 0 .. MaxTime
    BY DEF Typed
  <2> QED BY <2>3, <2>4, <2>5 DEF Circuit
<1> QED BY <1>1, <1>2 DEF Concluded

\* An open circuit that admits a flight gives its permit away.
LEMMA AcquiredCircuit ==
  ASSUME Typed, NEW q \in Providers
  PROVE  /\ Acquired(q) \in Circuit /\ Acquired(q).openedAt = circuit[q].openedAt
         /\ circuit[q].openedAt # None => Acquired(q).halfOpen
<1>1. circuit[q] \in Circuit
  BY DEF Typed
<1>2. CASE circuit[q].openedAt = None
  BY <1>1, <1>2 DEF Acquired
<1>3. CASE circuit[q].openedAt # None
  BY <1>1, <1>3 DEF Acquired, Circuit
<1> QED BY <1>2, <1>3

\* Where no flight becomes a probe and the circuit stays, the probe is still alone.
LEMMA AloneStays ==
  ASSUME NEW p \in Providers, Alone(p), circuit'[p] = circuit[p],
         \A f \in Flights : Probing(f, p)' => Probing(f, p)
  PROVE  Alone(p)'
BY DEF Alone

\* A flight that enters an open circuit is the only probe: the permit was free.
LEMMA AloneEntered ==
  ASSUME Typed, NEW p \in Providers, Alone(p), Admitted(p), circuit'[p] = Acquired(p),
         NEW f \in Flights, \A g \in Flights \ {f} : Probing(g, p)' => Probing(g, p)
  PROVE  Alone(p)'
<1> SUFFICES ASSUME circuit'[p].openedAt # None,
                    NEW g \in Flights, Probing(g, p)'
             PROVE  circuit'[p].halfOpen /\ \A h \in Flights : Probing(h, p)' => h = g
  BY DEF Alone
<1>1. circuit[p].openedAt # None /\ circuit'[p].halfOpen
  BY AcquiredCircuit
<1>2. ~circuit[p].halfOpen
  BY <1>1 DEF Admitted
<1>3. \A h \in Flights : ~Probing(h, p)
  BY <1>1, <1>2 DEF Alone
<1> QED BY <1>1, <1>3

\* A step of one flight leaves the other flights.
LEMMA OneFlight ==
  ASSUME Typed, NEW f \in Flights, NEW y \in Flight, FlightBecomes(f, y)
  PROVE  /\ flight' \in [Flights -> Flight] /\ flight'[f] = y
         /\ \A g \in Flights \ {f} : flight'[g] = flight[g]
BY DEF Typed, FlightBecomes

\* How the circuits fare when one flight moves.
LEMMA AlonePreserved ==
  ASSUME IInv, NEW f \in Flights, NEW y \in Flight, flight' \in [Flights -> Flight],
         flight'[f] = y, \A g \in Flights \ {f} : Working(g)' => flight'[g] = flight[g],
         FlightSound(f, y, now), now' = now,
         Keeps(f, y) \/ Tells(y) \/ Enters(y)
  PROVE  /\ circuit' \in [Providers -> Circuit]
         /\ \A p \in Providers : Alone(p)'
<1>1. Typed /\ circuit \in [Providers -> Circuit]
  BY DEF IInv, Typed
<1>2. \A g \in Flights : Working(g)' => flight'[g].since <= now
  <2>1. ASSUME NEW g \in Flights, g # f, Working(g)' PROVE flight'[g].since <= now
    BY <2>1 DEF IInv, FlightSound, Working
  <2> QED BY <2>1 DEF FlightSound, Working
<1>3. ASSUME NEW p \in Providers, circuit'[p] = circuit[p], NEW g \in Flights, g # f, Probing(g, p)'
      PROVE  Probing(g, p)
  BY <1>3 DEF Probing, Working
<1>4. CASE Keeps(f, y)
  <2>1. ASSUME NEW p \in Providers PROVE Alone(p)'
    <3>1. circuit'[p] = circuit[p]
      BY <1>4 DEF Keeps
    <3>2. Probing(f, p)' => Probing(f, p)
      BY <1>4, <3>1 DEF Keeps, Probing, Working
    <3> QED BY <3>1, <3>2, <1>3, AloneStays DEF IInv
  <2> QED BY <2>1, <1>1, <1>4 DEF Keeps
<1>5. CASE Tells(y)
  <2>1. PICK q \in Providers, kind \in Failures \cup {"success"} :
          circuit' = [circuit EXCEPT ![q] = Concluded(q, kind)]
    BY <1>5 DEF Tells
  <2>2. Concluded(q, kind) \in Circuit /\ Concluded(q, kind).openedAt \in {None, now}
    BY <1>1, ConcludedCircuit
  <2>3. /\ circuit' \in [Providers -> Circuit] /\ circuit'[q] = Concluded(q, kind)
        /\ \A p \in Providers \ {q} : circuit'[p] = circuit[p]
    BY <1>1, <2>1, <2>2
  <2>4. Alone(q)'
    <3> SUFFICES ASSUME circuit'[q].openedAt = now, NEW g \in Flights, Probing(g, q)'
                 PROVE  FALSE
      BY <2>2, <2>3 DEF Alone
    <3>1. flight'[g].since <= now /\ flight'[g].since >= now + OpenFor
      BY <1>2 DEF Probing
    <3>2. flight'[g].since \in Nat /\ now \in Nat
      BY <1>1, Constants DEF Typed, Flight
    <3> QED BY <3>1, <3>2, Constants
  <2>5. ASSUME NEW p \in Providers \ {q} PROVE Alone(p)'
    <3>1. ~Probing(f, p)'
      BY <1>5 DEF Tells, Probing, Working
    <3> QED BY <3>1, <2>3, <1>3, AloneStays DEF IInv
  <2> QED BY <2>3, <2>4, <2>5
<1>6. CASE Enters(y)
  <2>1. PICK q \in Providers : /\ Admitted(q) /\ circuit' = [circuit EXCEPT ![q] = Acquired(q)]
                               /\ y.provider = q /\ y.since = now
    BY <1>6 DEF Enters
  <2>2. Acquired(q) \in Circuit /\ Acquired(q).openedAt = circuit[q].openedAt
    BY <1>1, AcquiredCircuit
  <2>3. /\ circuit' \in [Providers -> Circuit] /\ circuit'[q] = Acquired(q)
        /\ \A p \in Providers \ {q} : circuit'[p] = circuit[p]
    BY <1>1, <2>1, <2>2
  <2>4. \A g \in Flights \ {f} : Probing(g, q)' => Probing(g, q)
    BY <2>2, <2>3 DEF Probing, Working
  <2>5. Alone(q)'
    BY <1>1, <2>1, <2>3, <2>4, AloneEntered DEF IInv
  <2>6. ASSUME NEW p \in Providers \ {q} PROVE Alone(p)'
    <3>1. ~Probing(f, p)'
      BY <2>1 DEF Probing
    <3> QED BY <3>1, <2>3, <1>3, AloneStays DEF IInv
  <2> QED BY <2>3, <2>5, <2>6
<1> QED BY <1>4, <1>5, <1>6

\* A flight that goes on.
LEMMA FlightMoves ==
  ASSUME IInv, NEW f \in Flights, NEW y \in Flight, FlightBecomes(f, y),
         Active(f), flight[f].state # "ending", y.state # "none", y.key = flight[f].key,
         FlightSound(f, y, now), UNCHANGED <<now, inFlight, call>>,
         cache' \in [Keys -> Entry \cup {None}], Keeps(f, y) \/ Tells(y) \/ Enters(y)
  PROVE  IInv'
<1>1. Typed
  BY DEF IInv
<1>2. /\ flight' \in [Flights -> Flight] /\ flight'[f] = y
      /\ \A g \in Flights \ {f} : flight'[g] = flight[g]
  BY <1>1, OneFlight
<1>3. circuit' \in [Providers -> Circuit] /\ \A p \in Providers : Alone(p)'
  BY <1>2, AlonePreserved
<1>4. Typed'
  BY <1>1, <1>2, <1>3 DEF Typed
<1>5. \A g \in Flights : Active(g)' <=> Active(g)
  BY <1>2 DEF Active
<1>6. Registered'
  BY <1>2, <1>5 DEF IInv, Registered
<1>7. \A g \in Flights : FlightSound(g, flight'[g], now')
  BY <1>2 DEF IInv
<1>8. \A c \in Callers : CallerSound(c)'
  <2> SUFFICES ASSUME NEW c \in Callers PROVE CallerSound(c)'
    OBVIOUS
  <2>1. <<c, "chain">> \in Flights /\ <<c, "refresh">> \in Flights
    BY DEF Flights
  <2>2. flight[<<c, "chain">>].state = "ending" => flight'[<<c, "chain">>].state = "ending"
    BY <1>2, <2>1
  <2> QED BY <2>1, <2>2, <1>5 DEF IInv, CallerSound
<1> QED BY <1>3, <1>4, <1>6, <1>7, <1>8 DEF IInv

\* What is known of a flight under way.
LEMMA UnderWay ==
  ASSUME IInv, NEW f \in Flights, Active(f)
  PROVE  /\ flight[f] \in Flight /\ flight[f].key \in Keys
         /\ flight[f].provider \in Providers /\ flight[f].result \in Result
         /\ flight[f].fallback > 0 => f[2] = "chain"
         /\ now \in 0 .. MaxTime /\ now \in Nat
         /\ cache \in [Keys -> Entry \cup {None}] /\ call \in [Callers -> Call]
<1>1. flight[f] \in Flight
  BY DEF IInv, Typed
<1>2. now \in 0 .. MaxTime /\ now \in Nat
  BY Constants DEF IInv, Typed
<1>3. flight[f].key \in Keys /\ (flight[f].fallback > 0 => f[2] = "chain")
  BY DEF IInv, FlightSound, Active
<1> QED BY <1>1, <1>2, <1>3 DEF IInv, Typed, Flight

\* A fetch ends with a result that is what it says it is.
LEMMA FetchEnds ==
  ASSUME IInv, NEW f \in Flights, flight[f].state \in {"calling", "sleeping", "writing"},
         NEW r \in Result, Current(r, now), FlightBecomes(f, FetchOver(f, flight[f], r)),
         UNCHANGED <<now, inFlight, call>>, cache' \in [Keys -> Entry \cup {None}],
         \/ circuit' = circuit
         \/ \E q \in Providers, kind \in Failures \cup {"success"} :
              circuit' = [circuit EXCEPT ![q] = Concluded(q, kind)]
  PROVE  IInv'
<1> DEFINE y == FetchOver(f, flight[f], r)
<1>1. Active(f) /\ flight[f].state # "ending"
  BY DEF Active
<1>2. flight[f].fallback <= Len(Fallbacks)
  BY DEF IInv, FlightSound
<1>3. /\ y \in Flight /\ FlightSound(f, y, now) /\ y.key = flight[f].key
      /\ y.state \in {"falling", "candidate", "ending"}
  BY <1>1, <1>2, UnderWay, FetchOverSound
<1>4. FlightBecomes(f, y)
  OBVIOUS
<1> HIDE DEF y
<1>5. Keeps(f, y) \/ Tells(y)
  BY <1>3 DEF Keeps, Tells
<1> QED BY <1>1, <1>3, <1>4, <1>5, FlightMoves

\* An answer that has not expired on arrival is current.
LEMMA FreshnessSound ==
  ASSUME now \in 0 .. MaxTime,
         NEW source \in {now, now + FreshFor, now + FreshFor + StaleFor},
         NEW p \in Providers, Freshness(source).expiresAt > now
  PROVE  /\ [status |-> "success", provider |-> p, entry |-> Freshness(source)] \in Result
         /\ Current([status |-> "success", provider |-> p, entry |-> Freshness(source)], now)
<1> DEFINE x == now + FreshFor + StaleFor
           expires == Min({x, source})
           fresh == now + FreshFor
           stales == Min({fresh, expires})
<1>1. now \in Nat /\ x \in Nat /\ source \in Nat /\ fresh \in Nat /\ fresh > now
  BY Constants
<1>2. expires = (IF x <= source THEN x ELSE source)
  BY <1>1, MinOfTwo
<1>3. x <= MaxTime + FreshFor + StaleFor /\ fresh <= x
  BY Constants
<1> HIDE DEF x, fresh
<1>4. expires \in Nat /\ expires <= x
  BY <1>1, <1>2
<1> HIDE DEF expires
<1>5. stales = (IF fresh <= expires THEN fresh ELSE expires)
  BY <1>1, <1>4, MinOfTwo
<1>6. Freshness(source) = [staleAt |-> stales, expiresAt |-> expires]
  BY DEF Freshness, x, fresh, expires
<1>7. expires > now
  BY <1>6
<1>8. stales \in Nat /\ stales <= x /\ stales > now
  BY <1>1, <1>4, <1>5, <1>7
<1> HIDE DEF stales
<1>9. stales \in Times /\ expires \in Times
  BY <1>1, <1>3, <1>4, <1>8, Constants DEF Times
<1>10. Freshness(source) \in Entry /\ Freshness(source).staleAt = stales
  BY <1>6, <1>9 DEF Entry
<1> QED BY <1>1, <1>8, <1>10 DEF Result, Current

\* Answered: the result is written to the cache next, or refused as expired.
LEMMA AnsweredSound ==
  ASSUME IInv, NEW f \in Flights, Answered(f)
  PROVE  IInv'
<1> DEFINE p == flight[f].provider
<1>1. flight[f].state = "calling" /\ Active(f) /\ flight[f].state # "ending"
  BY DEF Answered, Active
<1>2. /\ UNCHANGED <<now, inFlight, call>> /\ cache' \in [Keys -> Entry \cup {None}]
      /\ p \in Providers /\ now \in 0 .. MaxTime /\ flight[f] \in Flight
  BY <1>1, UnderWay DEF Answered
<1>3. PICK source \in {now, now + FreshFor, now + FreshFor + StaleFor} :
        IF Freshness(source).expiresAt <= now
        THEN /\ flight' = [flight EXCEPT ![f] =
                             FetchOver(f, @, Failure("invalid_response", p))]
             /\ circuit' = [circuit EXCEPT ![p] = Concluded(p, "invalid_response")]
        ELSE /\ flight' = [flight EXCEPT ![f].state = "writing", ![f].result =
                     [status |-> "success", provider |-> p, entry |-> Freshness(source)]]
             /\ circuit' = [circuit EXCEPT ![p] = Concluded(p, "success")]
  BY DEF Answered
<1>4. CASE Freshness(source).expiresAt <= now
  <2> DEFINE r == Failure("invalid_response", p)
  <2>1. "invalid_response" \in Failures
    BY DEF Failures, AttemptFailures, Invalid
  <2>2. r \in Result /\ Current(r, now)
    BY <1>2, <2>1, FailureIsCurrent
  <2>3. FlightBecomes(f, FetchOver(f, flight[f], r))
    BY <1>3, <1>4 DEF FlightBecomes
  <2>4. circuit' = [circuit EXCEPT ![p] = Concluded(p, "invalid_response")]
    BY <1>3, <1>4
  <2> HIDE DEF r, p
  <2> QED BY <1>1, <1>2, <2>1, <2>2, <2>3, <2>4, FetchEnds
<1>5. CASE ~(Freshness(source).expiresAt <= now)
  <2> DEFINE r == [status |-> "success", provider |-> p, entry |-> Freshness(source)]
             y1 == [flight[f] EXCEPT !.state = "writing"]
             y == [y1 EXCEPT !.result = r]
  <2>1. Freshness(source).expiresAt > now
    <3>1. Freshness(source).expiresAt = Min({now + FreshFor + StaleFor, source})
      BY DEF Freshness
    <3>2. now + FreshFor + StaleFor \in Nat /\ source \in Nat /\ now \in Nat
      BY <1>2, Constants
    <3>3. Freshness(source).expiresAt \in Nat
      BY <3>1, <3>2, MinOfTwo
    <3> QED BY <3>2, <3>3, <1>5
  <2>2. r \in Result /\ Current(r, now)
    BY <1>2, <2>1, FreshnessSound
  <2>3. flight' = [flight EXCEPT ![f].state = "writing", ![f].result = r]
    BY <1>3, <1>5
  <2>4. circuit' = [circuit EXCEPT ![p] = Concluded(p, "success")]
    BY <1>3, <1>5
  <2> HIDE DEF r
  <2>5. FlightBecomes(f, y)
    BY <2>3 DEF FlightBecomes
  <2>6. y1 \in Flight /\ y1.state = "writing" /\ y1.key = flight[f].key
        /\ y1.fallback = flight[f].fallback
    BY <1>2 DEF Flight, FlightStates
  <2> HIDE DEF y1
  <2>7. y \in Flight /\ y.state = "writing" /\ y.key = flight[f].key
        /\ y.fallback = flight[f].fallback /\ y.result = r
    BY <2>2, <2>6 DEF Flight
  <2> HIDE DEF y
  <2>8. FlightSound(f, flight[f], now)
    BY DEF IInv
  <2>9. FlightSound(f, y, now)
    BY <1>1, <2>2, <2>7, <2>8 DEF FlightSound
  <2>10. Tells(y)
    BY <1>2, <2>4, <2>7 DEF Tells
  <2> QED BY <1>1, <1>2, <2>5, <2>7, <2>9, <2>10, FlightMoves
<1> QED BY <1>4, <1>5

\* Write: the entry kept is the one the flight delivers.
LEMMA WriteSound ==
  ASSUME IInv, NEW f \in Flights, Write(f)
  PROVE  IInv'
<1> DEFINE r == flight[f].result
           k == <<flight[f].provider, flight[f].key[2]>>
<1>1. flight[f].state = "writing" /\ Active(f)
  BY DEF Write, Active
<1>2. /\ UNCHANGED <<now, inFlight, call>> /\ circuit' = circuit
      /\ flight[f] \in Flight /\ r \in Result /\ cache \in [Keys -> Entry \cup {None}]
  BY <1>1, UnderWay DEF Write
<1>3. Current(r, now)
  BY <1>1 DEF IInv, FlightSound
<1>4. FlightBecomes(f, FetchOver(f, flight[f], r))
  BY DEF Write, FlightBecomes
<1>5. cache' = cache \/ cache' = [cache EXCEPT ![k] = r.entry]
  BY DEF Write
<1>6. r.entry \in Entry
  BY <1>2 DEF Result
<1>7. cache' \in [Keys -> Entry \cup {None}]
  BY <1>2, <1>5, <1>6
<1> HIDE DEF r
<1> QED BY <1>1, <1>2, <1>3, <1>4, <1>7, FetchEnds

\* Fails: the circuit hears of it, and the chain falls back or ends.
LEMMA FailsSound ==
  ASSUME IInv, NEW f \in Flights, NEW kind \in AttemptFailures, Fails(f, kind)
  PROVE  IInv'
<1> DEFINE p == flight[f].provider
           r == Failure(kind, p)
<1>1. flight[f].state = "calling" /\ Active(f)
  BY DEF Fails, Active
<1>2. /\ UNCHANGED <<now, inFlight, call>> /\ cache' \in [Keys -> Entry \cup {None}]
      /\ p \in Providers
  BY <1>1, UnderWay DEF Fails, GiveUp
<1>3. kind \in Failures
  BY DEF Failures
<1>4. r \in Result /\ Current(r, now)
  BY <1>2, <1>3, FailureIsCurrent
<1>5. FlightBecomes(f, FetchOver(f, flight[f], r))
  BY DEF Fails, GiveUp, FlightBecomes
<1>6. circuit' = [circuit EXCEPT ![p] = Concluded(p, kind)]
  BY DEF Fails, GiveUp
<1> HIDE DEF r, p
<1> QED BY <1>1, <1>2, <1>3, <1>4, <1>5, <1>6, FetchEnds

\* BacksOff: there is an attempt left, or the caller has gone.
LEMMA BacksOffSound ==
  ASSUME IInv, NEW f \in Flights, NEW kind, BacksOff(f, kind)
  PROVE  IInv'
<1> DEFINE p == flight[f].provider
<1>1. /\ flight[f].state = "calling" /\ flight[f].attempts < MaxAttempts /\ Active(f)
      /\ flight[f].state # "ending"
  BY DEF BacksOff, Active
<1>2. /\ UNCHANGED <<now, inFlight, call>> /\ cache' \in [Keys -> Entry \cup {None}]
      /\ p \in Providers /\ flight[f] \in Flight /\ circuit' = circuit
  BY <1>1, UnderWay DEF BacksOff
<1>3. CASE Aborted(f)
  <2> DEFINE r == Failure("cancelled", p)
  <2>1. "cancelled" \in Failures
    BY DEF Failures, AttemptFailures
  <2>2. r \in Result /\ Current(r, now)
    BY <1>2, <2>1, FailureIsCurrent
  <2>3. FlightBecomes(f, FetchOver(f, flight[f], r))
    BY <1>3 DEF BacksOff, FlightBecomes
  <2> HIDE DEF r, p
  <2> QED BY <1>1, <1>2, <2>2, <2>3, FetchEnds
<1>4. CASE ~Aborted(f)
  <2> DEFINE y == [flight[f] EXCEPT !.state = "sleeping"]
  <2>1. FlightBecomes(f, y)
    BY <1>4 DEF BacksOff, FlightBecomes
  <2>2. /\ y \in Flight /\ y.state = "sleeping" /\ y.key = flight[f].key
        /\ y.fallback = flight[f].fallback /\ y.since = flight[f].since
        /\ y.attempts = flight[f].attempts /\ y.provider = flight[f].provider
    BY <1>2 DEF Flight, FlightStates
  <2> HIDE DEF y
  <2>3. FlightSound(f, flight[f], now)
    BY DEF IInv
  <2>4. FlightSound(f, y, now)
    BY <1>1, <2>2, <2>3 DEF FlightSound
  <2>5. Keeps(f, y)
    BY <1>1, <1>2, <2>2 DEF Keeps, Working
  <2> QED BY <1>1, <1>2, <2>1, <2>2, <2>4, <2>5, FlightMoves
<1> QED BY <1>3, <1>4

\* Retry: the next attempt is the one the back-off left room for.
LEMMA RetrySound ==
  ASSUME IInv, NEW f \in Flights, Retry(f)
  PROVE  IInv'
<1> DEFINE y1 == [flight[f] EXCEPT !.state = "calling"]
           y == [y1 EXCEPT !.attempts = flight[f].attempts + 1]
<1>1. flight[f].state = "sleeping" /\ Active(f) /\ flight[f].state # "ending"
  BY DEF Retry, Active
<1>2. /\ UNCHANGED <<now, inFlight, call>> /\ cache' \in [Keys -> Entry \cup {None}]
      /\ flight[f] \in Flight /\ circuit' = circuit
  BY <1>1, UnderWay DEF Retry
<1>3. FlightBecomes(f, y)
  BY DEF Retry, FlightBecomes
<1>4. /\ y1 \in Flight /\ y1.state = "calling" /\ y1.key = flight[f].key
      /\ y1.fallback = flight[f].fallback /\ y1.since = flight[f].since
      /\ y1.provider = flight[f].provider
  BY <1>2 DEF Flight, FlightStates
<1> HIDE DEF y1
<1>5. FlightSound(f, flight[f], now)
  BY DEF IInv
<1>6. flight[f].attempts + 1 \in 0 .. MaxAttempts
  BY <1>1, <1>2, <1>5, Constants DEF FlightSound, Flight
<1>7. /\ y \in Flight /\ y.state = "calling" /\ y.key = flight[f].key
      /\ y.fallback = flight[f].fallback /\ y.since = flight[f].since
      /\ y.provider = flight[f].provider
  BY <1>4, <1>6 DEF Flight
<1> HIDE DEF y
<1>8. FlightSound(f, y, now)
  BY <1>1, <1>5, <1>7 DEF FlightSound
<1>9. Keeps(f, y)
  BY <1>1, <1>2, <1>7 DEF Keeps, Working
<1> QED BY <1>1, <1>2, <1>3, <1>7, <1>8, <1>9, FlightMoves

\* Reject: the chain turns to the fallback after the one refused.
LEMMA RejectSound ==
  ASSUME IInv, NEW f \in Flights, Reject(f)
  PROVE  IInv'
<1> DEFINE y1 == [flight[f] EXCEPT !.state = "falling"]
           y == [y1 EXCEPT !.fallback = flight[f].fallback + 1]
<1>1. flight[f].state = "candidate" /\ Active(f) /\ flight[f].state # "ending"
  BY DEF Reject, Active
<1>2. /\ UNCHANGED <<now, inFlight, call>> /\ cache' \in [Keys -> Entry \cup {None}]
      /\ flight[f] \in Flight /\ circuit' = circuit
  BY <1>1, UnderWay DEF Reject
<1>3. FlightBecomes(f, y)
  BY DEF Reject, FlightBecomes
<1>4. /\ y1 \in Flight /\ y1.state = "falling" /\ y1.key = flight[f].key
      /\ y1.result = flight[f].result
  BY <1>2 DEF Flight, FlightStates
<1> HIDE DEF y1
<1>5. FlightSound(f, flight[f], now)
  BY DEF IInv
<1>6. flight[f].fallback + 1 \in 0 .. Len(Fallbacks) + 1 /\ flight[f].fallback + 1 > 0
  BY <1>1, <1>2, <1>5, Constants DEF FlightSound, Flight
<1>7. /\ y \in Flight /\ y.state = "falling" /\ y.key = flight[f].key
      /\ y.fallback > 0 /\ y.result = flight[f].result
  BY <1>4, <1>6 DEF Flight
<1> HIDE DEF y
<1>8. FlightSound(f, y, now)
  BY <1>1, <1>5, <1>7 DEF FlightSound
<1>9. Keeps(f, y)
  BY <1>2, <1>7 DEF Keeps
<1> QED BY <1>1, <1>2, <1>3, <1>7, <1>8, <1>9, FlightMoves

\* What is read from the cache is what it says it is.
LEMMA HeldIsCurrent ==
  ASSUME NEW k \in Keys, Held(k), cache \in [Keys -> Entry \cup {None}], now \in Nat
  PROVE  FromCache(k) \in Result /\ Current(FromCache(k), now)
<1>1. cache[k] \in Entry /\ cache[k].expiresAt > now
  BY DEF Held
<1>2. cache[k].staleAt \in Nat /\ cache[k].expiresAt \in Nat
  BY <1>1, Constants DEF Entry, Times
<1>3. k[1] \in Providers
  BY DEF Keys
<1>4. StateOf(cache[k]) = IF cache[k].staleAt <= now THEN "stale" ELSE "success"
  BY DEF StateOf
<1> DEFINE s == StateOf(cache[k])
<1>5. s \in {"success", "stale"} /\ (s = "success" => now < cache[k].staleAt)
      /\ (s = "stale" => cache[k].staleAt <= now)
  BY <1>2, <1>4
<1>6. FromCache(k) = [status |-> s, provider |-> k[1], entry |-> cache[k]]
  BY DEF FromCache
<1> HIDE DEF s
<1>7. FromCache(k).status = s /\ FromCache(k).entry = cache[k] /\ FromCache(k) \in Result
  BY <1>1, <1>3, <1>5, <1>6 DEF Result
<1> QED BY <1>1, <1>5, <1>7 DEF Current

\* Dropping an entry leaves a cache.
LEMMA DroppedTyped ==
  ASSUME NEW k \in Keys, cache \in [Keys -> Entry \cup {None}]
  PROVE  Dropped(k) \in [Keys -> Entry \cup {None}]
BY DEF Dropped

\* A chain that falls back settles on a result, or has one to offer.
LEMMA Settles ==
  ASSUME IInv, NEW f \in Flights, flight[f].state = "falling",
         NEW s \in {"candidate", "ending"}, NEW r \in Result, Current(r, now),
         s = "candidate" => flight[f].fallback <= Len(Fallbacks),
         flight' = [flight EXCEPT ![f].state = s, ![f].result = r],
         UNCHANGED <<now, inFlight, call, cache, circuit>>
  PROVE  IInv'
<1> DEFINE y1 == [flight[f] EXCEPT !.state = s]
           y == [y1 EXCEPT !.result = r]
<1>1. Active(f) /\ flight[f].state # "ending"
  BY DEF Active
<1>2. flight[f] \in Flight /\ cache \in [Keys -> Entry \cup {None}]
  BY <1>1, UnderWay
<1>3. FlightBecomes(f, y)
  BY DEF FlightBecomes
<1>4. y1 \in Flight /\ y1.state = s /\ y1.key = flight[f].key /\ y1.fallback = flight[f].fallback
  BY <1>2 DEF Flight, FlightStates
<1> HIDE DEF y1
<1>5. /\ y \in Flight /\ y.state = s /\ y.key = flight[f].key
      /\ y.fallback = flight[f].fallback /\ y.result = r
  BY <1>4 DEF Flight
<1> HIDE DEF y
<1>6. FlightSound(f, flight[f], now)
  BY DEF IInv
<1>7. FlightSound(f, y, now)
  BY <1>1, <1>5, <1>6 DEF FlightSound
<1>8. Keeps(f, y)
  BY <1>5 DEF Keeps
<1> QED BY <1>1, <1>2, <1>3, <1>5, <1>7, <1>8, FlightMoves

\* A fetch holds the circuit's leave when it begins, and only then.
LEMMA FetchingCircuit ==
  ASSUME IInv, NEW f \in Flights, NEW fl \in Flight, NEW p \in Providers,
         fl.key \in Keys, fl.fallback > 0 => f[2] = "chain", fl.fallback <= Len(Fallbacks),
         circuit' = CircuitAfter(p, fl.key[2])
  PROVE  Keeps(f, Fetching(f, fl, p)) \/ Enters(Fetching(f, fl, p))
<1> DEFINE y == Fetching(f, fl, p)
<1> SUFFICES Keeps(f, y) \/ Enters(y)
  OBVIOUS
<1>1. now \in 0 .. MaxTime /\ call \in [Callers -> Call]
  BY DEF IInv, Typed
<1>2. /\ y.state \in {"calling", "falling", "candidate", "ending"}
      /\ (y.state = "calling" => Admitted(p) /\ y.provider = p /\ y.since = now)
  BY <1>1, FetchingSound
<1>3. CASE <<p, fl.key[2]>> \notin Uncovered /\ Admitted(p)
  <2>1. circuit' = [circuit EXCEPT ![p] = Acquired(p)]
    BY <1>3 DEF CircuitAfter
  <2>2. y.state = "calling"
    BY <1>3 DEF Fetching, Flight
  <2> HIDE DEF y
  <2> QED BY <1>2, <2>1, <2>2, <1>3 DEF Enters
<1>4. CASE ~(<<p, fl.key[2]>> \notin Uncovered /\ Admitted(p))
  <2>1. circuit' = circuit
    BY <1>4 DEF CircuitAfter
  <2>2. y.state # "calling"
    <3> SUFFICES ASSUME Admitted(p), <<p, fl.key[2]>> \in Uncovered PROVE y.state # "calling"
      BY <1>2, <1>4
    <3> DEFINE next == [fl EXCEPT !.provider = p]
               r == Failure("unsupported", p)
    <3>1. y = FetchOver(f, next, r)
      BY DEF Fetching
    <3>2. next \in Flight
      BY DEF Flight
    <3> HIDE DEF y, next, r
    <3> QED BY <3>1, <3>2 DEF FetchOver, Flight
  <2> HIDE DEF y
  <2> QED BY <1>2, <2>1, <2>2 DEF Keeps
<1> QED BY <1>3, <1>4

\* FallBack: an end, a candidate from the cache, or a fetch of the fallback.
LEMMA FallBackSound ==
  ASSUME IInv, NEW f \in Flights, FallBack(f)
  PROVE  IInv'
<1> DEFINE fl == flight[f]
           out == fl.fallback > Len(Fallbacks)
           p == Fallbacks[fl.fallback]
           k == <<p, fl.key[2]>>
           ends(r) == /\ flight' = [flight EXCEPT ![f].state = "ending", ![f].result = r]
                      /\ UNCHANGED <<cache, circuit>>
<1>1. fl.state = "falling" /\ Active(f) /\ fl.state # "ending" /\ UNCHANGED <<now, inFlight, call>>
  BY DEF FallBack, Active
<1>2. /\ fl \in Flight /\ fl.key \in Keys /\ (fl.fallback > 0 => f[2] = "chain") /\ now \in Nat
      /\ now \in 0 .. MaxTime /\ cache \in [Keys -> Entry \cup {None}] /\ call \in [Callers -> Call]
  BY <1>1, UnderWay
<1>3. fl.fallback > 0 /\ fl.fallback \in Nat
  BY <1>1, <1>2, Constants DEF IInv, FlightSound, Flight
<1>4. ~out => fl.fallback <= Len(Fallbacks) /\ p \in Providers /\ k \in Keys
  BY <1>2, <1>3, Constants DEF Keys
<1>5. \/ out /\ ends(Failure("no_safe_fallback", fl.key[1]))
      \/ ~out /\ Aborted(f) /\ ends(Failure("cancelled", p))
      \/ /\ ~out /\ ~Aborted(f) /\ Held(k)
         /\ flight' = [flight EXCEPT ![f].state = "candidate", ![f].result = FromCache(k)]
         /\ UNCHANGED <<cache, circuit>>
      \/ /\ ~out /\ ~Aborted(f) /\ ~Held(k)
         /\ cache' = Dropped(k)
         /\ flight' = [flight EXCEPT ![f] = Fetching(f, fl, p)]
         /\ circuit' = CircuitAfter(p, fl.key[2])
  BY DEF FallBack
<1>6. CASE out /\ ends(Failure("no_safe_fallback", fl.key[1]))
  <2>1. "no_safe_fallback" \in Failures /\ fl.key[1] \in Providers
    BY <1>2 DEF Failures, Keys
  <2>2. PICK r \in Result : r = Failure("no_safe_fallback", fl.key[1]) /\ Current(r, now)
    BY <2>1, FailureIsCurrent
  <2>3. flight' = [flight EXCEPT ![f].state = "ending", ![f].result = r]
    BY <1>6, <2>2
  <2>4. cache' = cache /\ circuit' = circuit
    BY <1>6
  <2> QED BY <1>1, <2>2, <2>3, <2>4, Settles
<1>7. CASE ~out /\ Aborted(f) /\ ends(Failure("cancelled", p))
  <2>1. "cancelled" \in Failures /\ p \in Providers
    BY <1>4, <1>7 DEF Failures, AttemptFailures
  <2>2. PICK r \in Result : r = Failure("cancelled", p) /\ Current(r, now)
    BY <2>1, FailureIsCurrent
  <2>3. flight' = [flight EXCEPT ![f].state = "ending", ![f].result = r]
    BY <1>7, <2>2
  <2>4. cache' = cache /\ circuit' = circuit
    BY <1>7
  <2> QED BY <1>1, <2>2, <2>3, <2>4, Settles
<1>8. CASE /\ ~out /\ ~Aborted(f) /\ Held(k)
           /\ flight' = [flight EXCEPT ![f].state = "candidate", ![f].result = FromCache(k)]
           /\ UNCHANGED <<cache, circuit>>
  <2>1. fl.fallback <= Len(Fallbacks) /\ k \in Keys
    BY <1>4, <1>8
  <2>2. PICK r \in Result : r = FromCache(k) /\ Current(r, now)
    BY <1>2, <1>8, <2>1, HeldIsCurrent
  <2>3. flight' = [flight EXCEPT ![f].state = "candidate", ![f].result = r]
    BY <1>8, <2>2
  <2>4. cache' = cache /\ circuit' = circuit
    BY <1>8
  <2> QED BY <1>1, <2>1, <2>2, <2>3, <2>4, Settles
<1>9. CASE /\ ~out /\ ~Aborted(f) /\ ~Held(k)
           /\ cache' = Dropped(k)
           /\ flight' = [flight EXCEPT ![f] = Fetching(f, fl, p)]
           /\ circuit' = CircuitAfter(p, fl.key[2])
  <2> DEFINE y == Fetching(f, fl, p)
  <2>1. fl.fallback <= Len(Fallbacks) /\ k \in Keys /\ p \in Providers
    BY <1>4, <1>9
  <2>2. FlightBecomes(f, y)
    BY <1>9 DEF FlightBecomes
  <2>3. cache' \in [Keys -> Entry \cup {None}]
    BY <1>2, <1>9, <2>1, DroppedTyped
  <2>4. circuit' = CircuitAfter(p, fl.key[2])
    BY <1>9
  <2> HIDE DEF p, k
  <2>5. /\ y \in Flight /\ FlightSound(f, y, now) /\ y.key = fl.key
        /\ y.state \in {"calling", "falling", "candidate", "ending"}
    BY <1>2, <2>1, FetchingSound
  <2>6. Keeps(f, y) \/ Enters(y)
    BY <1>2, <2>1, <2>4, FetchingCircuit
  <2> HIDE DEF y
  <2> QED BY <1>1, <2>2, <2>3, <2>5, <2>6, FlightMoves
<1> HIDE DEF out, ends, p, k
<1> QED BY <1>5, <1>6, <1>7, <1>8, <1>9

\* What a flight is before it departs.
LEMMA NoFlightTyped ==
  ASSUME NEW k \in Keys
  PROVE  /\ NoFlight \in Flight /\ [NoFlight EXCEPT !.key = k] \in Flight
         /\ [NoFlight EXCEPT !.key = k].key = k /\ [NoFlight EXCEPT !.key = k].fallback = 0
<1>1. NoEntry \in Entry
  BY Bounds DEF NoEntry, Entry
<1>2. NoResult \in Result
  BY <1>1, Constants DEF NoResult, Result
<1>3. 0 \in 0 .. Len(Fallbacks) + 1
  BY Constants
<1>4. NoFlight \in Flight
  BY <1>2, <1>3, Bounds, Constants DEF NoFlight, Flight, FlightStates
<1>5. NoFlight.fallback = 0
  BY DEF NoFlight
<1> QED BY <1>4, <1>5 DEF Flight

\* What a flight is when it departs.
LEMMA DepartureTyped ==
  ASSUME IInv, NEW g \in Flights, NEW k \in Keys
  PROVE  Fetching(g, [NoFlight EXCEPT !.key = k], k[1]) \in Flight
<1> DEFINE fl == [NoFlight EXCEPT !.key = k]
<1>1. fl \in Flight /\ fl.key = k /\ fl.fallback = 0
  BY NoFlightTyped
<1> HIDE DEF fl
<1>2. now \in 0 .. MaxTime /\ call \in [Callers -> Call]
  BY DEF IInv, Typed
<1>3. k[1] \in Providers /\ fl.fallback <= Len(Fallbacks) /\ ~(fl.fallback > 0)
  BY <1>1, Constants DEF Keys
<1>4. Fetching(g, fl, k[1]) \in Flight
  BY <1>1, <1>2, <1>3, FetchingSound
<1> QED BY <1>4 DEF fl

\* A flight is registered under a free key and starts; the others stay, or come to an end.
LEMMA Departs ==
  ASSUME IInv, NEW g \in Flights, NEW k \in Keys, ~Active(g), inFlight[k] = None,
         flight' \in [Flights -> Flight],
         flight'[g] = Fetching(g, [NoFlight EXCEPT !.key = k], k[1]),
         \A h \in Flights \ {g} :
           \/ flight'[h] = flight[h]
           \/ /\ Active(h) /\ flight'[h].state = "ending" /\ flight'[h].key = flight[h].key
              /\ FlightSound(h, flight'[h], now),
         circuit' = CircuitAfter(k[1], k[2]), inFlight' = [inFlight EXCEPT ![k] = g],
         UNCHANGED <<now, cache>>, call' \in [Callers -> Call]
  PROVE  /\ Typed' /\ Registered' /\ Active(g)'
         /\ \A h \in Flights : FlightSound(h, flight'[h], now')
         /\ \A h \in Flights \ {g} : Active(h)' <=> Active(h)
         /\ \A p \in Providers : Alone(p)'
<1> DEFINE fl == [NoFlight EXCEPT !.key = k]
           y == Fetching(g, fl, k[1])
<1>1. fl \in Flight /\ fl.key = k /\ fl.fallback = 0
  BY NoFlightTyped
<1>2. /\ now \in 0 .. MaxTime /\ call \in [Callers -> Call] /\ Typed
      /\ inFlight \in [Keys -> Flights \cup {None}]
  BY DEF IInv, Typed
<1>3. k[1] \in Providers /\ 0 <= Len(Fallbacks) /\ ~(0 > 0)
  BY Constants DEF Keys
<1>4. flight'[g] = y /\ circuit' = CircuitAfter(k[1], fl.key[2])
  BY <1>1
<1> HIDE DEF fl
<1>5. /\ y \in Flight /\ FlightSound(g, y, now) /\ y.key = fl.key
      /\ y.state \in {"calling", "falling", "candidate", "ending"}
  BY <1>1, <1>2, <1>3, FetchingSound
<1>6. Keeps(g, y) \/ Enters(y)
  BY <1>1, <1>3, <1>4, FetchingCircuit
<1> HIDE DEF y
<1>7. \A h \in Flights \ {g} : Working(h)' => flight'[h] = flight[h]
  BY DEF Working
<1>8. circuit' \in [Providers -> Circuit] /\ \A p \in Providers : Alone(p)'
  BY <1>4, <1>5, <1>6, <1>7, AlonePreserved
<1>9. inFlight' \in [Keys -> Flights \cup {None}]
  BY <1>2
<1>10. Typed'
  BY <1>2, <1>8, <1>9 DEF Typed
<1>11. Active(g)' /\ \A h \in Flights \ {g} : Active(h)' <=> Active(h)
  BY <1>4, <1>5 DEF Active
<1>12. \A h \in Flights : FlightSound(h, flight'[h], now')
  BY <1>4, <1>5 DEF IInv
<1>13. ASSUME NEW j \in Keys, NEW h \in Flights
       PROVE  inFlight'[j] = h <=> (Active(h)' /\ flight'[h].key = j)
  <2>1. inFlight[j] = h <=> (Active(h) /\ flight[h].key = j)
    BY DEF IInv, Registered
  <2>2. inFlight'[j] = IF j = k THEN g ELSE inFlight[j]
    BY <1>2
  <2>3. CASE h = g
    BY <1>1, <1>4, <1>5, <1>11, <2>1, <2>2, <2>3
  <2>4. CASE h # g
    <3>1. flight'[h].key = flight[h].key /\ (Active(h)' <=> Active(h))
      BY <2>4, <1>11
    <3>2. inFlight[k] # h
      BY NoneAssumption
    <3> QED BY <2>1, <2>2, <2>4, <3>1, <3>2
  <2> QED BY <2>3, <2>4
<1>14. Registered'
  BY <1>13 DEF Registered
<1> QED BY <1>8, <1>10, <1>11, <1>12, <1>14

\* A caller's two flights are two.
LEMMA CallersFlights ==
  ASSUME NEW c \in Callers
  PROVE  /\ <<c, "chain">> \in Flights /\ <<c, "refresh">> \in Flights
         /\ <<c, "chain">> # <<c, "refresh">>
BY DEF Flights

\* A caller that has not been answered from the cache yet has no flight.
LEMMA NoFlightYet ==
  ASSUME IInv, NEW c \in Callers, call[c].state \in {"new", "seen"}
  PROVE  ~Active(<<c, "chain">>) /\ ~Active(<<c, "refresh">>)
BY CallersFlights DEF IInv, CallerSound, Active

\* A step that changes one caller leaves the others' state as it is.
LEMMA OtherCallers ==
  ASSUME IInv, NEW c \in Callers, NEW d \in Callers \ {c}, call'[d] = call[d], now' = now,
         \A h \in Flights : h[1] # c => (Active(h)' <=> Active(h)),
         \A h \in Flights : Active(h) => Active(h)',
         flight'[<<d, "chain">>] = flight[<<d, "chain">>]
  PROVE  CallerSound(d)'
<1>1. <<d, "chain">> \in Flights /\ <<d, "refresh">> \in Flights
  BY CallersFlights
<1>2. (Active(<<d, "chain">>)' <=> Active(<<d, "chain">>))
      /\ (Active(<<d, "refresh">>)' <=> Active(<<d, "refresh">>))
  BY <1>1
<1>3. CallerSound(d)
  BY DEF IInv
<1> QED BY <1>1, <1>2, <1>3 DEF CallerSound

\* Accept: the chain ends, and its caller's renewal departs where the key is free.
LEMMA AcceptSound ==
  ASSUME IInv, NEW f \in Flights, Accept(f)
  PROVE  IInv'
<1> DEFINE r == flight[f].result
           k == <<r.provider, flight[f].key[2]>>
           y == [flight[f] EXCEPT !.state = "ending"]
           g == Renewal(f)
<1>1. flight[f].state = "candidate" /\ Active(f) /\ flight[f].state # "ending"
  BY DEF Accept, Active
<1>2. /\ UNCHANGED <<now, cache, call>> /\ cache \in [Keys -> Entry \cup {None}]
      /\ flight[f] \in Flight /\ r \in Result /\ flight[f].key \in Keys
      /\ call \in [Callers -> Call]
  BY <1>1, UnderWay DEF Accept
<1>3. FlightSound(f, flight[f], now)
  BY DEF IInv
<1>4. /\ y \in Flight /\ y.state = "ending" /\ y.key = flight[f].key
      /\ y.fallback = flight[f].fallback /\ y.result = flight[f].result
  BY <1>2 DEF Flight, FlightStates
<1> HIDE DEF y
<1>5. FlightSound(f, y, now)
  BY <1>1, <1>3, <1>4 DEF FlightSound
<1>6. CASE r.status = "stale" /\ inFlight[k] = None
  <2>1. k \in Keys
    BY <1>2 DEF Result, Keys
  <2>2. PICK c \in Callers : f = <<c, "chain">>
    BY <1>1, <1>3 DEF FlightSound, Flights
  <2>3. g = <<c, "refresh">> /\ g \in Flights /\ g # f
    BY <2>2, CallersFlights DEF Renewal
  <2>4. CallerSound(c) /\ call[c].state = "waiting" /\ call[c].on = f
    BY <1>1, <2>2 DEF IInv, CallerSound
  <2>5. ~Active(g)
    BY <1>1, <2>2, <2>3, <2>4 DEF CallerSound
  <2>6. /\ flight' = [[flight EXCEPT ![f].state = "ending"] EXCEPT ![g] =
                        Fetching(g, [NoFlight EXCEPT !.key = k], k[1])]
        /\ circuit' = CircuitAfter(k[1], k[2]) /\ inFlight' = [inFlight EXCEPT ![k] = g]
    BY <1>6 DEF Accept
  <2>7. [flight EXCEPT ![f].state = "ending"] = [flight EXCEPT ![f] = y]
    BY DEF y
  <2> DEFINE z == Fetching(g, [NoFlight EXCEPT !.key = k], k[1])
  <2>8. flight \in [Flights -> Flight] /\ now \in 0 .. MaxTime
    BY DEF IInv, Typed
  <2>9. z \in Flight
    BY <2>1, <2>3, DepartureTyped
  <2>10. flight' = [[flight EXCEPT ![f] = y] EXCEPT ![g] = z]
    BY <2>6, <2>7
  <2> HIDE DEF k, g, z
  <2>11. /\ flight' \in [Flights -> Flight] /\ flight'[g] = z /\ flight'[f] = y
         /\ \A h \in Flights \ {f, g} : flight'[h] = flight[h]
    BY <1>4, <2>3, <2>8, <2>9, <2>10
  <2>12. z = Fetching(g, [NoFlight EXCEPT !.key = k], k[1])
    BY DEF z
  <2>13. \A h \in Flights \ {g} :
           \/ flight'[h] = flight[h]
           \/ /\ Active(h) /\ flight'[h].state = "ending" /\ flight'[h].key = flight[h].key
              /\ FlightSound(h, flight'[h], now)
    BY <1>1, <1>4, <1>5, <2>11
  <2>14. flight'[g] = Fetching(g, [NoFlight EXCEPT !.key = k], k[1]) /\ call' \in [Callers -> Call]
    BY <1>2, <2>11, <2>12
  <2>15. /\ Typed' /\ Registered' /\ Active(g)'
         /\ \A h \in Flights : FlightSound(h, flight'[h], now')
         /\ \A h \in Flights \ {g} : Active(h)' <=> Active(h)
         /\ \A p \in Providers : Alone(p)'
    BY <1>2, <1>6, <2>1, <2>3, <2>5, <2>6, <2>11, <2>13, <2>14, Departs
  <2>16. ASSUME NEW d \in Callers PROVE CallerSound(d)'
    <3>1. CASE d = c
      <4>1. flight'[<<c, "chain">>].state = "ending"
        BY <1>4, <2>2, <2>11
      <4>2. Active(f)' /\ f \in Flights
        BY <1>1, <2>3, <2>15
      <4> QED BY <1>2, <2>2, <2>4, <3>1, <4>1, <4>2 DEF CallerSound
    <3>2. CASE d # c
      <4>1. <<d, "chain">> \in Flights /\ <<d, "refresh">> \in Flights
            /\ <<d, "chain">> \notin {f, g} /\ <<d, "refresh">> \notin {f, g}
        BY <2>2, <2>3, <3>2, CallersFlights
      <4>2. flight'[<<d, "chain">>] = flight[<<d, "chain">>] /\ call'[d] = call[d] /\ now' = now
        BY <1>2, <2>11, <4>1
      <4>3. \A h \in Flights : (h[1] # c => (Active(h)' <=> Active(h))) /\ (Active(h) => Active(h)')
        BY <2>3, <2>15
      <4> QED BY <3>2, <4>2, <4>3, OtherCallers
    <3> QED BY <3>1, <3>2
  <2> QED BY <2>15, <2>16 DEF IInv
<1>7. CASE ~(r.status = "stale" /\ inFlight[k] = None)
  <2>1. flight' = [flight EXCEPT ![f].state = "ending"] /\ UNCHANGED <<circuit, inFlight>>
    BY <1>7 DEF Accept
  <2>2. FlightBecomes(f, y)
    BY <2>1 DEF FlightBecomes, y
  <2>3. Keeps(f, y)
    BY <1>4, <2>1 DEF Keeps
  <2> QED BY <1>1, <1>2, <1>4, <1>5, <2>1, <2>2, <2>3, FlightMoves
<1> QED BY <1>6, <1>7

\* A caller that has seen the cache is answered from it, or waits for the flight it starts.
LEMMA CallerDeparts ==
  ASSUME IInv, NEW c \in Callers, NEW s \in {<<c, "chain">>, <<c, "refresh">>},
         call[c].state = "seen", NEW x \in Call,
         call' = [call EXCEPT ![c] = x], NEW k \in Keys, inFlight[k] = None,
         Depart(s, k), UNCHANGED <<now, cache>>,
         x.input = call[c].input,
         \/ s = <<c, "refresh">> /\ x.state = "answered"
         \/ s = <<c, "chain">> /\ x.state = "waiting" /\ x.on = s
  PROVE  IInv'
<1> DEFINE z == Fetching(s, [NoFlight EXCEPT !.key = k], k[1])
<1>1. /\ <<c, "chain">> \in Flights /\ <<c, "refresh">> \in Flights
      /\ <<c, "chain">> # <<c, "refresh">>
  BY CallersFlights
<1>2. ~Active(<<c, "chain">>) /\ ~Active(<<c, "refresh">>) /\ call[c].input \in Inputs
  BY NoFlightYet DEF IInv, CallerSound
<1>3. /\ flight \in [Flights -> Flight] /\ now \in 0 .. MaxTime /\ call \in [Callers -> Call]
  BY DEF IInv, Typed
<1>4. z \in Flight
  BY <1>1, DepartureTyped
<1>5. /\ flight' = [flight EXCEPT ![s] = z]
      /\ circuit' = CircuitAfter(k[1], k[2]) /\ inFlight' = [inFlight EXCEPT ![k] = s]
  BY DEF Depart
<1>6. z = Fetching(s, [NoFlight EXCEPT !.key = k], k[1])
  OBVIOUS
<1> HIDE DEF z
<1>7. /\ flight' \in [Flights -> Flight] /\ flight'[s] = z
      /\ \A h \in Flights \ {s} : flight'[h] = flight[h]
  BY <1>1, <1>3, <1>4, <1>5
<1>8. /\ call' \in [Callers -> Call] /\ call'[c] = x
      /\ \A d \in Callers \ {c} : call'[d] = call[d]
  BY <1>3
<1>9. /\ Typed' /\ Registered' /\ Active(s)'
      /\ \A h \in Flights : FlightSound(h, flight'[h], now')
      /\ \A h \in Flights \ {s} : Active(h)' <=> Active(h)
      /\ \A p \in Providers : Alone(p)'
  BY <1>1, <1>2, <1>5, <1>6, <1>7, <1>8, Departs
<1>10. CallerSound(c)'
  <2>1. CASE s = <<c, "refresh">> /\ x.state = "answered"
    <3>1. ~Active(<<c, "chain">>)'
      BY <1>1, <1>2, <1>9, <2>1
    <3> QED BY <1>8, <2>1, <3>1 DEF CallerSound
  <2>2. CASE s = <<c, "chain">> /\ x.state = "waiting" /\ x.on = s
    <3>1. ~Active(<<c, "refresh">>)'
      BY <1>1, <1>2, <1>9, <2>2
    <3>2. x.input \in Inputs /\ s \in Flights
      BY <1>1, <1>2
    <3> QED BY <1>8, <1>9, <2>2, <3>1, <3>2 DEF CallerSound
  <2> QED BY <2>1, <2>2
<1>11. ASSUME NEW d \in Callers \ {c} PROVE CallerSound(d)'
  <2>0. d # c /\ <<d, "chain">>[1] = d /\ s[1] = c
    OBVIOUS
  <2>1. <<d, "chain">> \in Flights /\ <<d, "chain">> # s
    BY <2>0, CallersFlights
  <2>2. flight'[<<d, "chain">>] = flight[<<d, "chain">>]
    BY <1>7, <2>1
  <2>3. \A h \in Flights : (h[1] # c => (Active(h)' <=> Active(h))) /\ (Active(h) => Active(h)')
    BY <1>9
  <2> QED BY <1>8, <2>2, <2>3, OtherCallers
<1> QED BY <1>9, <1>10, <1>11 DEF IInv

\* A step of a caller that touches no flight.
LEMMA CallerMoves ==
  ASSUME IInv, NEW c \in Callers, NEW x \in Call, call' = [call EXCEPT ![c] = x],
         UNCHANGED <<now, circuit, inFlight, flight>>, cache' \in [Keys -> Entry \cup {None}],
         ~Active(<<c, "chain">>) /\ ~Active(<<c, "refresh">>),
         x.state \in {"seen", "waiting"} => x.input \in Inputs,
         x.state = "seen" => Current(x.result, now),
         x.state = "waiting" => x.on \in Flights /\ Active(x.on)
  PROVE  IInv'
<1>1. call \in [Callers -> Call]
  BY DEF IInv, Typed
<1>2. /\ call' \in [Callers -> Call] /\ call'[c] = x
      /\ \A d \in Callers \ {c} : call'[d] = call[d]
  BY <1>1
<1>3. Typed'
  BY <1>2 DEF IInv, Typed
<1>4. \A h \in Flights : Active(h)' <=> Active(h)
  BY DEF Active
<1>5. \A h \in Flights : FlightSound(h, flight'[h], now')
  BY DEF IInv
<1>6. Registered'
  BY DEF IInv, Registered, Active
<1>7. \A p \in Providers : Alone(p)'
  BY DEF IInv, Alone, Probing, Working
<1>8. CallerSound(c)'
  <2>1. ~Active(<<c, "chain">>)' /\ ~Active(<<c, "refresh">>)'
    BY <1>4, CallersFlights
  <2>2. x.state = "waiting" => x.on \in Flights /\ Active(x.on)'
    BY <1>4
  <2> QED BY <1>2, <2>1, <2>2 DEF CallerSound
<1>9. \A d \in Callers \ {c} : CallerSound(d)'
  BY <1>2, <1>4, OtherCallers
<1> QED BY <1>3, <1>5, <1>6, <1>7, <1>8, <1>9 DEF IInv

\* AnswerFromCache: the caller leaves with its answer, a renewal behind its back.
LEMMA AnswerFromCacheSound ==
  ASSUME IInv, NEW c \in Callers, AnswerFromCache(c)
  PROVE  IInv'
<1> DEFINE k == <<Primary, call[c].input>>
           x == [call[c] EXCEPT !.state = "answered"]
<1>1. call[c].state = "seen" /\ call[c].input \in Inputs /\ call[c] \in Call
  BY DEF AnswerFromCache, IInv, CallerSound, Typed
<1>2. k \in Keys
  BY <1>1, Constants DEF Keys
<1>3. call' = [call EXCEPT ![c] = x] /\ UNCHANGED <<now, cache>>
  BY DEF AnswerFromCache
<1>4. x \in Call /\ x.state = "answered" /\ x.input = call[c].input
  BY <1>1 DEF Call, CallStates
<1>5. CASE call[c].result.status = "stale" /\ inFlight[k] = None
  <2>1. Depart(<<c, "refresh">>, k)
    BY <1>5 DEF AnswerFromCache
  <2>2. inFlight[k] = None
    BY <1>5
  <2> HIDE DEF x, k
  <2> QED BY <1>1, <1>2, <1>3, <1>4, <2>1, <2>2, CallerDeparts
<1>6. CASE ~(call[c].result.status = "stale" /\ inFlight[k] = None)
  <2>1. UNCHANGED <<now, circuit, inFlight, flight, cache>>
    BY <1>3, <1>6 DEF AnswerFromCache
  <2>2. cache' \in [Keys -> Entry \cup {None}]
    BY <2>1 DEF IInv, Typed
  <2>3. ~Active(<<c, "chain">>) /\ ~Active(<<c, "refresh">>)
    BY <1>1, NoFlightYet
  <2> HIDE DEF x, k
  <2> QED BY <1>3, <1>4, <2>1, <2>2, <2>3, CallerMoves
<1> QED BY <1>5, <1>6

\* Fly: the caller waits on the flight registered, which is under way.
LEMMA FlySound ==
  ASSUME IInv, NEW c \in Callers, Fly(c)
  PROVE  IInv'
<1> DEFINE k == <<Primary, call[c].input>>
           s == <<c, "chain">>
<1>1. call[c].state = "seen" /\ call[c].input \in Inputs /\ call[c] \in Call
  BY DEF Fly, IInv, CallerSound, Typed
<1>2. k \in Keys
  BY <1>1, Constants DEF Keys
<1>3. UNCHANGED <<now, cache>>
  BY DEF Fly
<1>4. ASSUME NEW h \in Flights
      PROVE  /\ [[call[c] EXCEPT !.state = "waiting"] EXCEPT !.on = h] \in Call
             /\ [[call[c] EXCEPT !.state = "waiting"] EXCEPT !.on = h].state = "waiting"
             /\ [[call[c] EXCEPT !.state = "waiting"] EXCEPT !.on = h].on = h
             /\ [[call[c] EXCEPT !.state = "waiting"] EXCEPT !.on = h].input = call[c].input
  BY <1>1 DEF Call, CallStates
<1>5. CASE inFlight[k] # None
  <2>1. PICK h \in Flights : h = inFlight[k]
    BY <1>2, <1>5 DEF IInv, Typed
  <2>2. Active(h)
    BY <1>2, <2>1 DEF IInv, Registered
  <2>3. call' = [call EXCEPT ![c].state = "waiting", ![c].on = h]
        /\ UNCHANGED <<now, circuit, inFlight, flight, cache>>
    BY <1>3, <1>5, <2>1 DEF Fly
  <2> DEFINE x == [[call[c] EXCEPT !.state = "waiting"] EXCEPT !.on = h]
  <2>4. call' = [call EXCEPT ![c] = x]
    BY <2>3
  <2>5. cache' \in [Keys -> Entry \cup {None}]
    BY <2>3 DEF IInv, Typed
  <2>6. ~Active(<<c, "chain">>) /\ ~Active(<<c, "refresh">>)
    BY <1>1, NoFlightYet
  <2>7. x \in Call /\ x.state = "waiting" /\ x.on = h /\ x.input \in Inputs
    BY <1>1, <1>4
  <2> HIDE DEF x
  <2> QED BY <2>2, <2>3, <2>4, <2>5, <2>6, <2>7, CallerMoves
<1>6. CASE inFlight[k] = None
  <2> DEFINE x == [[call[c] EXCEPT !.state = "waiting"] EXCEPT !.on = s]
  <2>1. call' = [call EXCEPT ![c].state = "waiting", ![c].on = s] /\ Depart(s, k)
    BY <1>6 DEF Fly
  <2>2. call' = [call EXCEPT ![c] = x]
    BY <2>1
  <2>3. x \in Call /\ x.state = "waiting" /\ x.on = s /\ x.input = call[c].input
    BY <1>4, CallersFlights
  <2>4. s \in {<<c, "chain">>, <<c, "refresh">>} /\ s = <<c, "chain">>
    OBVIOUS
  <2> HIDE DEF x, k, s
  <2> QED BY <1>1, <1>2, <1>3, <1>6, <2>1, <2>2, <2>3, <2>4, CallerDeparts
<1> QED BY <1>5, <1>6

\* Ask: what the caller has seen in the cache is current.
LEMMA AskSound ==
  ASSUME IInv, NEW c \in Callers, NEW i \in Inputs, Ask(c, i)
  PROVE  IInv'
<1> DEFINE k == <<Primary, i>>
<1>1. call[c].state = "new" /\ call[c] \in Call /\ UNCHANGED <<now, circuit, inFlight, flight>>
  BY DEF Ask, IInv, Typed
<1>2. k \in Keys /\ cache \in [Keys -> Entry \cup {None}] /\ now \in Nat
  BY Constants DEF Keys, IInv, Typed
<1>3. ~Active(<<c, "chain">>) /\ ~Active(<<c, "refresh">>)
  BY <1>1, NoFlightYet
<1>4. ASSUME NEW s \in CallStates, NEW r \in Result
      PROVE  /\ [[[call[c] EXCEPT !.state = s] EXCEPT !.input = i] EXCEPT !.result = r] \in Call
             /\ [[[call[c] EXCEPT !.state = s] EXCEPT !.input = i] EXCEPT !.result = r].state = s
             /\ [[[call[c] EXCEPT !.state = s] EXCEPT !.input = i] EXCEPT !.result = r].input = i
             /\ [[[call[c] EXCEPT !.state = s] EXCEPT !.input = i] EXCEPT !.result = r].result = r
  BY <1>1 DEF Call
<1>5. CASE call[c].aborted
  <2>1. "cancelled" \in Failures
    BY DEF Failures, AttemptFailures
  <2>2. PICK r \in Result : r = Failure("cancelled", Primary)
    BY <2>1, FailureIsCurrent, Constants
  <2>3. call' = [call EXCEPT ![c].state = "answered", ![c].input = i, ![c].result = r]
        /\ cache' = cache
    BY <1>5, <2>2 DEF Ask
  <2> DEFINE x == [[[call[c] EXCEPT !.state = "answered"] EXCEPT !.input = i] EXCEPT !.result = r]
  <2>4. call' = [call EXCEPT ![c] = x]
    BY <2>3
  <2>5. x \in Call /\ x.state = "answered"
    BY <1>4 DEF CallStates
  <2> HIDE DEF x
  <2> QED BY <1>1, <1>2, <1>3, <2>3, <2>4, <2>5, CallerMoves
<1>6. CASE ~call[c].aborted
  <2>1. PICK r \in Result : r = (IF Held(k) THEN FromCache(k) ELSE NoResult) /\ Current(r, now)
    <3>1. CASE Held(k)
      BY <1>2, <3>1, HeldIsCurrent
    <3>2. CASE ~Held(k)
      <4>1. NoEntry \in Entry
        BY Bounds DEF NoEntry, Entry
      <4>2. NoResult \in Result
        BY <4>1, Constants DEF NoResult, Result
      <4>3. NoResult.status = None
        BY DEF NoResult
      <4>4. CASE NoResult.status \notin {"success", "stale"}
        BY <3>2, <4>2, <4>4 DEF Current
      <4>5. CASE NoResult.status \in {"success", "stale"}
        BY <4>3, <4>5, NoneAssumption
      <4> QED BY <4>4, <4>5
    <3> QED BY <3>1, <3>2
  <2>2. call' = [call EXCEPT ![c].state = "seen", ![c].input = i, ![c].result = r]
        /\ cache' = Dropped(k)
    BY <1>6, <2>1 DEF Ask
  <2> DEFINE x == [[[call[c] EXCEPT !.state = "seen"] EXCEPT !.input = i] EXCEPT !.result = r]
  <2>3. call' = [call EXCEPT ![c] = x]
    BY <2>2
  <2>4. x \in Call /\ x.state = "seen" /\ x.input = i /\ x.result = r
    BY <1>4 DEF CallStates
  <2>5. cache' \in [Keys -> Entry \cup {None}]
    BY <1>2, <2>2, DroppedTyped
  <2> HIDE DEF x
  <2> QED BY <1>1, <1>3, <2>1, <2>3, <2>4, <2>5, CallerMoves
<1> QED BY <1>5, <1>6

\* Land: nobody waits on the flight any more, and its key is free.
LEMMA LandSound ==
  ASSUME IInv, NEW f \in Flights, Land(f)
  PROVE  IInv'
<1> DEFINE k == flight[f].key
           x(c) == [[[call[c] EXCEPT !.state = "answered"] EXCEPT !.on = None]
                       EXCEPT !.result = flight[f].result]
<1>1. flight[f].state = "ending" /\ Active(f) /\ UNCHANGED <<now, cache, circuit>>
  BY DEF Land, Active
<1>2. /\ flight[f] \in Flight /\ k \in Keys /\ flight[f].result \in Result
      /\ call \in [Callers -> Call]
  BY <1>1, UnderWay
<1>3. /\ flight \in [Flights -> Flight] /\ inFlight \in [Keys -> Flights \cup {None}]
      /\ circuit \in [Providers -> Circuit] /\ cache \in [Keys -> Entry \cup {None}]
      /\ now \in 0 .. MaxTime
  BY DEF IInv, Typed
<1>4. NoFlight \in Flight /\ NoFlight.state = "none" /\ NoFlight.fallback = 0
  BY <1>2, NoFlightTyped DEF NoFlight
<1>5. /\ flight' \in [Flights -> Flight] /\ flight'[f] = NoFlight
      /\ \A h \in Flights \ {f} : flight'[h] = flight[h]
  BY <1>3, <1>4 DEF Land
<1>6. ~Active(f)' /\ \A h \in Flights \ {f} : Active(h)' <=> Active(h)
  BY <1>4, <1>5 DEF Active
<1>7. inFlight' = [inFlight EXCEPT ![k] = None]
  BY DEF Land
<1>8. inFlight' \in [Keys -> Flights \cup {None}]
  BY <1>2, <1>3, <1>7
<1>9. ASSUME NEW c \in Callers
      PROVE  call'[c] = IF call[c].state = "waiting" /\ call[c].on = f THEN x(c) ELSE call[c]
  BY DEF Land
<1>10. ASSUME NEW c \in Callers
       PROVE  x(c) \in Call /\ x(c).state = "answered"
  BY <1>2 DEF Call, CallStates
<1>11. \A c \in Callers : call'[c] \in Call
  BY <1>2, <1>9, <1>10
<1>12. call' \in [Callers -> Call]
  BY <1>11 DEF Land
<1>13. Typed'
  BY <1>1, <1>3, <1>5, <1>8, <1>12 DEF Typed
<1>14. ASSUME NEW j \in Keys, NEW h \in Flights
       PROVE  inFlight'[j] = h <=> (Active(h)' /\ flight'[h].key = j)
  <2>1. (inFlight[j] = h <=> (Active(h) /\ flight[h].key = j)) /\ inFlight[k] = f
    BY <1>1, <1>2 DEF IInv, Registered
  <2>2. inFlight'[j] = IF j = k THEN None ELSE inFlight[j]
    BY <1>3, <1>7
  <2>3. CASE h = f
    BY <1>6, <2>1, <2>2, <2>3, NoneAssumption
  <2>4. CASE h # f
    BY <1>5, <1>6, <2>1, <2>2, <2>4, NoneAssumption
  <2> QED BY <2>3, <2>4
<1>15. Registered'
  BY <1>14 DEF Registered
<1>16. ASSUME NEW h \in Flights PROVE FlightSound(h, flight'[h], now')
  <2>1. CASE h = f
    BY <1>4, <1>5, <2>1 DEF FlightSound
  <2>2. CASE h # f
    BY <1>1, <1>5, <2>2 DEF IInv
  <2> QED BY <2>1, <2>2
<1>17. ASSUME NEW p \in Providers PROVE Alone(p)'
  <2>1. circuit'[p] = circuit[p]
    BY <1>1
  <2>2. ASSUME NEW h \in Flights, Probing(h, p)' PROVE Probing(h, p)
    <3>1. h # f
      BY <1>4, <1>5, <2>2 DEF Probing, Working
    <3>2. flight'[h] = flight[h]
      BY <1>5, <3>1
    <3> QED BY <2>1, <2>2, <3>2 DEF Probing, Working
  <2> QED BY <2>1, <2>2, AloneStays DEF IInv
<1>18. ASSUME NEW c \in Callers PROVE CallerSound(c)'
  <2>1. CallerSound(c) /\ now' = now
    BY <1>1 DEF IInv
  <2>2. /\ <<c, "chain">> \in Flights /\ <<c, "refresh">> \in Flights
        /\ <<c, "chain">> # <<c, "refresh">>
    BY CallersFlights
  <2>3. CASE call[c].state = "waiting" /\ call[c].on = f
    <3>1. call'[c].state = "answered"
      BY <1>9, <1>10, <2>3
    <3>2. Active(<<c, "chain">>) => <<c, "chain">> = f
      BY <2>1, <2>3 DEF CallerSound
    <3>3. ~Active(<<c, "chain">>)'
      BY <1>6, <2>2, <3>2
    <3> QED BY <3>1, <3>3 DEF CallerSound
  <2>4. CASE ~(call[c].state = "waiting" /\ call[c].on = f)
    <3>1. call'[c] = call[c]
      BY <1>9, <2>4
    <3>2. <<c, "chain">> # f
      BY <1>1, <2>1, <2>4 DEF CallerSound
    <3>3. flight'[<<c, "chain">>] = flight[<<c, "chain">>]
          /\ (Active(<<c, "chain">>)' <=> Active(<<c, "chain">>))
      BY <1>5, <1>6, <2>2, <3>2
    <3>4. Active(<<c, "refresh">>)' => Active(<<c, "refresh">>)
      BY <1>6, <2>2
    <3>5. ASSUME call[c].state = "waiting"
          PROVE  call[c].on \in Flights /\ Active(call[c].on)'
      <4>1. PICK h \in Flights : h = call[c].on /\ h # f /\ Active(h)
        BY <2>1, <2>4, <3>5 DEF CallerSound
      <4>2. flight'[h] = flight[h] /\ call'[c].on = h
        BY <1>5, <3>1, <4>1
      <4> QED BY <4>1, <4>2 DEF Active
    <3> QED BY <2>1, <3>1, <3>3, <3>4, <3>5 DEF CallerSound
  <2> QED BY <2>3, <2>4
<1> QED BY <1>13, <1>15, <1>16, <1>17, <1>18 DEF IInv

\* Abort: the flights that hear it end, and their circuits are closed.
LEMMA AbortSound ==
  ASSUME IInv, NEW c \in Callers, Abort(c)
  PROVE  IInv'
<1> DEFINE ended(h) == FetchOver(h, flight[h], Failure("cancelled", flight[h].provider))
           heard(h) == h[1] = c /\ (Hears(h) \/ flight[h].state = "sleeping")
<1>1. UNCHANGED <<now, cache, inFlight>>
  BY DEF Abort
<1>2. /\ flight \in [Flights -> Flight] /\ inFlight \in [Keys -> Flights \cup {None}]
      /\ circuit \in [Providers -> Circuit] /\ cache \in [Keys -> Entry \cup {None}]
      /\ now \in 0 .. MaxTime /\ now \in Nat /\ call \in [Callers -> Call]
  BY Constants DEF IInv, Typed
<1>3. ASSUME NEW h \in Flights
      PROVE  flight'[h] = IF heard(h) THEN ended(h) ELSE flight[h]
  BY DEF Abort
<1>4. ASSUME NEW h \in Flights, heard(h)
      PROVE  /\ ended(h) \in Flight /\ FlightSound(h, ended(h), now)
             /\ ended(h).state \in {"falling", "candidate", "ending"}
             /\ ended(h).key = flight[h].key
             /\ Active(h) /\ flight[h].state \in {"calling", "sleeping"}
  <2>1. flight[h].state \in {"calling", "sleeping"} /\ Active(h)
    BY <1>4 DEF Hears, Active
  <2>2. /\ flight[h] \in Flight /\ flight[h].key \in Keys /\ flight[h].provider \in Providers
        /\ flight[h].fallback > 0 => h[2] = "chain"
    BY <2>1, UnderWay
  <2>3. flight[h].fallback <= Len(Fallbacks)
    BY <2>1 DEF IInv, FlightSound
  <2>4. "cancelled" \in Failures
    BY DEF Failures, AttemptFailures
  <2>5. PICK r \in Result : r = Failure("cancelled", flight[h].provider) /\ Current(r, now)
    BY <2>2, <2>4, FailureIsCurrent
  <2>6. ended(h) = FetchOver(h, flight[h], r)
    BY <2>5
  <2> HIDE DEF ended
  <2> QED BY <1>2, <2>1, <2>2, <2>3, <2>5, <2>6, FetchOverSound
<1> HIDE DEF ended, heard
<1>5. ASSUME NEW h \in Flights
      PROVE  /\ flight'[h] \in Flight /\ FlightSound(h, flight'[h], now')
             /\ flight'[h].key = flight[h].key /\ (Active(h)' <=> Active(h))
             /\ flight[h].state = "ending" => flight'[h] = flight[h]
             /\ Working(h)' => flight'[h] = flight[h]
  <2>1. CASE heard(h)
    BY <1>1, <1>3, <1>4, <2>1 DEF Active, Working
  <2>2. CASE ~heard(h)
    BY <1>1, <1>2, <1>3, <2>2 DEF Active, IInv
  <2> QED BY <2>1, <2>2
<1>6. flight' \in [Flights -> Flight]
  <2>1. flight' = [h \in Flights |-> flight'[h]]
    BY DEF Abort
  <2> QED BY <1>5, <2>1
<1>7. ASSUME NEW p \in Providers
      PROVE  circuit'[p] \in {Closed, circuit[p]}
  <2>1. Concluded(p, "cancelled") = Closed
    BY DEF Concluded, Unavailable, Invalid
  <2> QED BY <2>1 DEF Abort
<1>8. circuit' \in [Providers -> Circuit]
  <2>1. Closed \in Circuit
    BY Constants DEF Closed, Circuit
  <2>2. circuit' = [p \in Providers |-> circuit'[p]]
    BY DEF Abort
  <2> QED BY <1>2, <1>7, <2>1, <2>2
<1>9. /\ call' \in [Callers -> Call] /\ \A d \in Callers \ {c} : call'[d] = call[d]
      /\ call'[c].state = call[c].state /\ call'[c].on = call[c].on
      /\ call'[c].input = call[c].input /\ call'[c].result = call[c].result
  BY <1>2 DEF Abort, Call
<1>10. Typed'
  BY <1>1, <1>2, <1>6, <1>8, <1>9 DEF Typed
<1>11. Registered'
  BY <1>1, <1>5 DEF IInv, Registered
<1>12. ASSUME NEW p \in Providers PROVE Alone(p)'
  <2>1. CASE circuit'[p] = Closed
    BY <2>1 DEF Alone, Closed
  <2>2. CASE circuit'[p] = circuit[p]
    <3>1. ASSUME NEW h \in Flights, Probing(h, p)' PROVE Probing(h, p)
      BY <1>5, <2>2, <3>1 DEF Probing, Working
    <3> QED BY <2>2, <3>1, AloneStays DEF IInv
  <2> QED BY <1>7, <2>1, <2>2
<1>13. ASSUME NEW d \in Callers PROVE CallerSound(d)'
  <2>1. CallerSound(d) /\ now' = now
    BY <1>1 DEF IInv
  <2>2. <<d, "chain">> \in Flights /\ <<d, "refresh">> \in Flights
    BY CallersFlights
  <2>3. /\ call'[d].state = call[d].state /\ call'[d].on = call[d].on
        /\ call'[d].input = call[d].input /\ call'[d].result = call[d].result
    BY <1>9
  <2>4. /\ (Active(<<d, "chain">>)' <=> Active(<<d, "chain">>))
        /\ (Active(<<d, "refresh">>)' <=> Active(<<d, "refresh">>))
        /\ flight[<<d, "chain">>].state = "ending" => flight'[<<d, "chain">>].state = "ending"
    BY <1>5, <2>2
  <2>5. ASSUME call[d].state = "waiting"
        PROVE  call[d].on \in Flights /\ Active(call[d].on)'
    <3>1. PICK h \in Flights : h = call[d].on /\ Active(h)
      BY <2>1, <2>5 DEF CallerSound
    <3>2. Active(h)' /\ call'[d].on = h
      BY <1>5, <2>3, <3>1
    <3> QED BY <3>1, <3>2 DEF Active
  <2> QED BY <2>1, <2>3, <2>4, <2>5 DEF CallerSound
<1> QED BY <1>5, <1>10, <1>11, <1>12, <1>13 DEF IInv

\* Tick: no result is on its way, so none grows old.
LEMMA TickSound ==
  ASSUME IInv, Tick
  PROVE  IInv'
<1>1. UNCHANGED <<cache, circuit, inFlight, call, flight>> /\ now' = now + 1 /\ now < MaxTime
  BY DEF Tick
<1>2. now \in Nat /\ now' \in 0 .. MaxTime
  BY <1>1, Constants DEF IInv, Typed
<1>3. Typed'
  BY <1>1, <1>2 DEF IInv, Typed
<1>4. Registered'
  BY <1>1 DEF IInv, Registered, Active
<1>5. ASSUME NEW f \in Flights PROVE FlightSound(f, flight'[f], now')
  <2>1. flight[f].state \in {"none", "calling", "sleeping"}
    BY DEF Tick, Active, Working
  <2>2. flight[f].since \in Nat
    BY Constants DEF IInv, Typed, Flight
  <2>3. FlightSound(f, flight[f], now)
    BY DEF IInv
  <2> QED BY <1>1, <1>2, <2>1, <2>2, <2>3 DEF FlightSound
<1>6. ASSUME NEW c \in Callers PROVE CallerSound(c)'
  <2>1. call[c].state # "seen" /\ CallerSound(c)
    BY DEF Tick, IInv
  <2> QED BY <1>1, <2>1 DEF CallerSound, Active
<1>7. ASSUME NEW p \in Providers PROVE Alone(p)'
  BY <1>1 DEF IInv, Alone, Probing, Working
<1> QED BY <1>3, <1>4, <1>5, <1>6, <1>7 DEF IInv

\* The coordinator starts with no flight, and with circuits closed.
LEMMA InitSound ==
  ASSUME Init
  PROVE  IInv
<1> DEFINE e == [staleAt |-> FreshFor, expiresAt |-> FreshFor + StaleFor]
<1>1. now = 0 /\ 0 \in 0 .. MaxTime
  BY Constants DEF Init
<1>2. e \in Entry
  BY Constants DEF Entry, Times
<1>3. cache \in [Keys -> Entry \cup {None}]
  BY <1>2 DEF Init
<1>4. PICK n \in 0 .. FailureThreshold - 1 :
        circuit = [p \in Providers |-> [Closed EXCEPT !.failures = n]]
  BY DEF Init
<1>5. [Closed EXCEPT !.failures = n] \in Circuit /\ [Closed EXCEPT !.failures = n].openedAt = None
  <2>1. n \in 0 .. FailureThreshold
    BY Constants
  <2>2. Closed \in Circuit /\ Closed.openedAt = None
    BY Constants DEF Closed, Circuit
  <2> QED BY <2>1, <2>2 DEF Circuit
<1>6. circuit \in [Providers -> Circuit] /\ \A p \in Providers : circuit[p].openedAt = None
  BY <1>4, <1>5
<1>7. inFlight = [k \in Keys |-> None] /\ inFlight \in [Keys -> Flights \cup {None}]
  BY DEF Init
<1>8. NoResult \in Result
  <2>1. NoEntry \in Entry
    BY Bounds DEF NoEntry, Entry
  <2> QED BY <2>1, Constants DEF NoResult, Result
<1>9. NewCall \in Call /\ NewCall.state = "new"
  BY <1>8 DEF NewCall, Call, CallStates
<1>10. NoFlight \in Flight /\ NoFlight.state = "none" /\ NoFlight.fallback = 0
  <2>1. 0 \in 0 .. Len(Fallbacks) + 1
    BY Constants
  <2> QED BY <1>8, <2>1, Bounds, Constants DEF NoFlight, Flight, FlightStates
<1>11. call = [c \in Callers |-> NewCall] /\ flight = [f \in Flights |-> NoFlight]
  BY DEF Init
<1> HIDE DEF e
<1>12. Typed
  BY <1>1, <1>3, <1>6, <1>7, <1>9, <1>10, <1>11 DEF Typed
<1>13. \A f \in Flights : ~Active(f)
  BY <1>10, <1>11 DEF Active
<1>14. Registered
  BY <1>7, <1>13, NoneAssumption DEF Registered
<1>15. \A f \in Flights : FlightSound(f, flight[f], now)
  BY <1>10, <1>11 DEF FlightSound
<1>16. \A c \in Callers : CallerSound(c)
  BY <1>9, <1>11, <1>13, CallersFlights DEF CallerSound
<1>17. \A p \in Providers : Alone(p)
  BY <1>6 DEF Alone
<1> QED BY <1>12, <1>14, <1>15, <1>16, <1>17 DEF IInv

\* Every step of the coordinator preserves the invariant.
LEMMA StepPreserves ==
  ASSUME IInv, [Next]_vars
  PROVE  IInv'
<1>1. ASSUME NEW f \in Flights, FlightStep(f) PROVE IInv'
  <2>1. CASE Answered(f)
    BY <2>1, AnsweredSound
  <2>2. ASSUME NEW kind \in AttemptFailures, Fails(f, kind) PROVE IInv'
    BY <2>2, FailsSound
  <2>3. ASSUME NEW kind \in AttemptFailures, BacksOff(f, kind) PROVE IInv'
    BY <2>3, BacksOffSound
  <2>4. CASE Write(f)
    BY <2>4, WriteSound
  <2>5. CASE Retry(f)
    BY <2>5, RetrySound
  <2>6. CASE FallBack(f)
    BY <2>6, FallBackSound
  <2>7. CASE Accept(f)
    BY <2>7, AcceptSound
  <2>8. CASE Reject(f)
    BY <2>8, RejectSound
  <2>9. CASE Land(f)
    BY <2>9, LandSound
  <2> QED BY <1>1, <2>1, <2>2, <2>3, <2>4, <2>5, <2>6, <2>7, <2>8, <2>9 DEF FlightStep
<1>2. ASSUME NEW c \in Callers, CallStep(c) PROVE IInv'
  BY <1>2, AnswerFromCacheSound, FlySound DEF CallStep
<1>3. ASSUME NEW c \in Callers, Abort(c) PROVE IInv'
  BY <1>3, AbortSound
<1>4. ASSUME NEW c \in Callers, NEW i \in Inputs, Ask(c, i) PROVE IInv'
  BY <1>4, AskSound
<1>5. CASE Tick
  BY <1>5, TickSound
<1>6. CASE UNCHANGED vars
  <2>1. UNCHANGED <<now, cache, circuit, inFlight, call, flight>>
    BY <1>6 DEF vars
  <2>2. Typed' /\ Registered'
    BY <2>1 DEF IInv, Typed, Registered, Active
  <2>3. \A f \in Flights : FlightSound(f, flight'[f], now')
    BY <2>1 DEF IInv
  <2>4. \A c \in Callers : CallerSound(c)'
    BY <2>1 DEF IInv, CallerSound, Active
  <2>5. \A p \in Providers : Alone(p)'
    BY <2>1 DEF IInv, Alone, Probing, Working
  <2> QED BY <2>2, <2>3, <2>4, <2>5 DEF IInv
<1> QED BY <1>1, <1>2, <1>3, <1>4, <1>5, <1>6 DEF Next

\* The invariant implies the property that the run checks.
LEMMA InvariantSuffices ==
  ASSUME IInv
  PROVE  FlightsAreSound
<1>1. TypeOK
  BY DEF IInv, Typed, TypeOK, Circuit, Call, Flight
<1>2. OneFlightPerKey
  BY DEF IInv, Registered, CallerSound, OneFlightPerKey
<1>3. ProbesAlone
  <2> SUFFICES ASSUME NEW p \in Providers, circuit[p].openedAt # None
               PROVE  LET probes == {f \in Flights : Probing(f, p)}
                      IN Cardinality(probes) <= 1 /\ (probes # {} => circuit[p].halfOpen)
    BY DEF ProbesAlone, Probing
  <2> DEFINE probes == {f \in Flights : Probing(f, p)}
  <2>1. CASE probes = {}
    <3>1. Cardinality(probes) = 0
      BY <2>1, FS_EmptySet
    <3> QED BY <2>1, <3>1
  <2>2. CASE probes # {}
    <3>1. PICK f \in Flights : Probing(f, p)
      BY <2>2
    <3>2. circuit[p].halfOpen /\ \A g \in Flights : Probing(g, p) => g = f
      BY <3>1 DEF IInv, Alone
    <3>3. probes = {f}
      BY <3>1, <3>2
    <3>4. Cardinality(probes) = 1
      BY <3>3, FS_Singleton
    <3> HIDE DEF probes
    <3> QED BY <3>2, <3>4 DEF probes
  <2> QED BY <2>1, <2>2
<1> QED BY <1>1, <1>2, <1>3 DEF FlightsAreSound

\* The invariant holds in every behaviour of the coordinator.
THEOREM Inductive == Spec => []IInv
<1>1. Init => IInv
  BY InitSound
<1>2. IInv /\ [Next]_vars => IInv'
  BY StepPreserves
<1> QED BY <1>1, <1>2, PTL DEF Spec

\* One flight per key and one probe per open circuit, for any callers, inputs, fallback
\* chain and policy: every interleaving of coordinator.ts:96-686 with resilience.ts:25-52.
THEOREM FlightsAreSoundHolds == Spec => []FlightsAreSound
<1>1. IInv => FlightsAreSound
  BY InvariantSuffices
<1> QED BY <1>1, Inductive, PTL

\* The step that AnswersAreCurrent asks of every step.
AnsweredCurrently ==
  \A c \in Callers : call[c].state # "answered" /\ call'[c].state = "answered" =>
    LET r == call'[c].result
    IN /\ r.status = "success" => now < r.entry.staleAt
       /\ r.status = "stale" => r.entry.staleAt <= now /\ now < r.entry.expiresAt

\* What is answered was current where it came from: the cache, a flight, or a failure.
LEMMA AnswersCurrently ==
  ASSUME IInv, [Next]_vars
  PROVE  AnsweredCurrently
<1> SUFFICES ASSUME NEW c \in Callers, call[c].state # "answered", call'[c].state = "answered"
             PROVE  Current(call'[c].result, now)
  BY DEF AnsweredCurrently, Current
<1>0. call[c] \in Call /\ call \in [Callers -> Call]
  BY DEF IInv, Typed
<1>1. ASSUME NEW f \in Flights, FlightStep(f) PROVE Current(call'[c].result, now)
  <2>1. call' # call
    OBVIOUS
  <2>2. Land(f)
    BY <1>1, <2>1 DEF FlightStep, Answered, Write, Fails, GiveUp, BacksOff, Retry, FallBack,
                      Accept, Reject
  <2>3. flight[f].state = "ending"
    BY <2>2 DEF Land
  <2>4. Current(flight[f].result, now)
    BY <2>3 DEF IInv, FlightSound
  <2>5. call'[c] = IF call[c].state = "waiting" /\ call[c].on = f
                   THEN [call[c] EXCEPT !.state = "answered", !.on = None,
                                        !.result = flight[f].result]
                   ELSE call[c]
    BY <2>2 DEF Land
  <2>6. call'[c].result = flight[f].result
    BY <1>0, <2>5 DEF Call
  <2> QED BY <2>4, <2>6
<1>2. ASSUME NEW d \in Callers, AnswerFromCache(d) PROVE Current(call'[c].result, now)
  <2>1. call' = [call EXCEPT ![d].state = "answered"] /\ call[d].state = "seen"
    BY <1>2 DEF AnswerFromCache
  <2>2. d = c
    BY <1>0, <2>1
  <2>3. call'[c].result = call[c].result
    BY <1>0, <2>1, <2>2 DEF Call
  <2> QED BY <2>1, <2>2, <2>3 DEF IInv, CallerSound
<1>3. ASSUME NEW d \in Callers, Fly(d) PROVE FALSE
  <2>1. \E h : call' = [call EXCEPT ![d].state = "waiting", ![d].on = h]
    BY <1>3 DEF Fly
  <2> QED BY <1>0, <2>1 DEF Call
<1>4. ASSUME NEW d \in Callers, Abort(d) PROVE FALSE
  <2>1. call' = [call EXCEPT ![d].aborted = TRUE]
    BY <1>4 DEF Abort
  <2> QED BY <1>0, <2>1 DEF Call
<1>5. ASSUME NEW d \in Callers, NEW i \in Inputs, Ask(d, i) PROVE Current(call'[c].result, now)
  <2>1. CASE call[d].aborted
    <3>1. PICK r \in Result : r = Failure("cancelled", Primary) /\ Current(r, now)
      BY FailureIsCurrent, Constants DEF Failures, AttemptFailures
    <3>2. call' = [call EXCEPT ![d].state = "answered", ![d].input = i, ![d].result = r]
      BY <1>5, <2>1, <3>1 DEF Ask
    <3>3. d = c /\ call'[c].result = r
      BY <1>0, <3>2 DEF Call
    <3> QED BY <3>1, <3>3
  <2>2. CASE ~call[d].aborted
    <3>1. \E r : call' = [call EXCEPT ![d].state = "seen", ![d].input = i, ![d].result = r]
      BY <1>5, <2>2 DEF Ask
    <3>2. call'[c].state # "answered"
      BY <1>0, <3>1 DEF Call
    <3> QED BY <3>2
  <2> QED BY <2>1, <2>2
<1>6. ASSUME Tick \/ UNCHANGED vars PROVE FALSE
  BY <1>6 DEF Tick, vars
<1> QED BY <1>1, <1>2, <1>3, <1>4, <1>5, <1>6 DEF Next, CallStep

\* No caller is answered as current what is stale, nor as stale what has expired, whoever
\* fetched it and whichever provider or cache entry it comes from (coordinator.ts:483-601).
THEOREM AnswersAreCurrentHolds == Spec => AnswersAreCurrent
<1>1. IInv /\ [Next]_vars => [AnsweredCurrently]_vars
  BY AnswersCurrently
<1> QED BY <1>1, Inductive, PTL DEF Spec, AnswersAreCurrent, AnsweredCurrently

---------------------------------------------------------------------------
(* Reconciliation (LiveConditions).                                        *)

ImpactRows == [state : {"absent", "active", "resolved"}, version : Nat, first : Nat, changed : Nat]
WriteSets == UNION {[D -> ImpactRows] : D \in SUBSET ImpactKeys}
Refreshes ==
  [stage : {"queued", "asking", "writing", "resolving", "ended", "dead"}, attempt : Nat,
   seen : [Items -> Slots \union {Off, Gone}] \union {<<>>}, at : Nat, version : Nat,
   fresh : SUBSET Places, todo : SUBSET ImpactKeys, scopes : SUBSET Places,
   stale : SUBSET ImpactKeys, writes : WriteSets, alone : BOOLEAN]

LiveTyped ==
  /\ plan \in [Items -> Slots \union {Off, Gone}] /\ edits \in 0 .. MaxEdits
  /\ forecasts \in Seq(Weathers) /\ forecasts # <<>>
  /\ impacts \in [ImpactKeys -> ImpactRows]
  /\ jobs \in [Jobs -> Refreshes]

\* A row that is active rests on a published forecast, sure and severe.
Rests(row, k, fs) ==
  /\ row.version <= Len(fs)
  /\ row.state = "active" =>
       row.version \in 1 .. Len(fs) /\ fs[row.version].sure /\ k[1] \in fs[row.version].severe

\* What a job carries: a version that is published, rows that may be written
\* under it, and writes only while its transaction is open.
CarriesSound(J, fs) ==
  /\ J.stage \in {"asking", "writing", "resolving"}
     => J.seen \in [Items -> Slots \union {Off, Gone}]
  /\ J.stage \in {"writing", "resolving"} => J.version \in 1 .. Len(fs)
  /\ J.stage # "writing" => J.todo = {}
  /\ J.stage = "writing" =>
       J.todo \subseteq Impacts(J.seen, J.fresh, fs[J.version]) /\ J.scopes = J.fresh
         /\ J.fresh # {}
  /\ J.stage # "resolving" => J.stale = {}
  /\ J.stage \notin {"writing", "resolving"} => DOMAIN J.writes = {}
  /\ \A k \in DOMAIN J.writes : Rests(J.writes[k], k, fs)

Apart(i, j) == i # j => DOMAIN jobs[i].writes \intersect DOMAIN jobs[j].writes = {}

LiveIInv ==
  /\ LiveTyped
  /\ \A k \in ImpactKeys : Rests(impacts[k], k, forecasts)
  /\ \A j \in Jobs : CarriesSound(jobs[j], forecasts)
  /\ \A i, j \in Jobs : Apart(i, j)

\* What a refresh J without another beside it has done so far to the row of k,
\* which it sees as row, under the forecast f.
Done(J, row, k, f) ==
  /\ k \in Impacts(J.seen, J.fresh, f) \ J.todo => row.state = "active"
  /\ k \in Observed(J.seen, J.fresh, f) \ Impacts(J.seen, J.fresh, f) => k \notin DOMAIN J.writes
  /\ k \notin Observed(J.seen, J.fresh, f) =>
       J.stage = "writing" \/ k[1][1] \in J.scopes \/ k \in J.stale \/ row.state # "active"

Undisturbed(j) ==
  InTransaction(j) =>
    LET J == jobs[j]  f == forecasts[J.version] IN
    /\ J.stale \intersect Observed(J.seen, J.fresh, f) = {}
    /\ \A k \in ImpactKeys : k[1][1] \in J.fresh /\ plan[k[2]] # Gone => Done(J, View(j, k), k, f)

LoneInv == \A j \in Jobs : jobs[j].alone =>
  Running(j) /\ (\A i \in Jobs \ {j} : ~Running(i)) /\ Undisturbed(j)

\* A nonempty set of numbers has a least one.
LEMMA LeastNumber ==
  ASSUME NEW T, T \subseteq Nat, T # {}
  PROVE  \E n \in T : \A m \in T : n <= m
  <1>1. IsWellFoundedOn(OpToRel(<, Nat), Nat)
    BY NatLessThanWellFounded
  <1>2. PICK n \in T : \A m \in T : ~(<<m, n>> \in OpToRel(<, Nat))
    BY <1>1, WFMin
  <1>3. \A m \in T : ~(m < n)
    BY <1>2 DEF OpToRel
  <1> QED
    BY <1>3

\* The rows of a set of keys come in an order: one is before all others.
LEMMA LeastKey ==
  ASSUME NEW S, S \subseteq ImpactKeys, S # {}
  PROVE  \E k \in S : \A l \in S \ {k} : Before(k, l)
  <1>0. ASSUME NEW k \in S
        PROVE  /\ k[1][1] \in Nat /\ k[1][2] \in Nat /\ k[2] \in Nat
               /\ k = <<k[1], k[2]>> /\ k[1] = <<k[1][1], k[1][2]>>
    <2>1. PICK s \in Slots, i \in Items : k = <<s, i>>
      BY DEF ImpactKeys
    <2>2. PICK p \in Nat, d \in Nat : s = <<p, d>>
      BY LiveAssumption
    <2> QED
      BY <2>1, <2>2, LiveAssumption
  <1>1. PICK p \in {k[1][1] : k \in S} : \A q \in {k[1][1] : k \in S} : p <= q
    <2>1. {k[1][1] : k \in S} \subseteq Nat
      BY <1>0
    <2>2. {k[1][1] : k \in S} # {}
      OBVIOUS
    <2> QED
      BY <2>1, <2>2, LeastNumber
  <1> DEFINE P == {k \in S : k[1][1] = p}
  <1>2. PICK d \in {k[1][2] : k \in P} : \A q \in {k[1][2] : k \in P} : d <= q
    <2>1. {k[1][2] : k \in P} \subseteq Nat /\ {k[1][2] : k \in P} # {}
      BY <1>0, <1>1
    <2> QED
      BY <2>1, LeastNumber
  <1> DEFINE D == {k \in P : k[1][2] = d}
  <1>3. PICK i \in {k[2] : k \in D} : \A q \in {k[2] : k \in D} : i <= q
    <2>1. {k[2] : k \in D} \subseteq Nat /\ {k[2] : k \in D} # {}
      BY <1>0, <1>2
    <2> QED
      BY <2>1, LeastNumber
  <1>4. PICK k \in D : k[2] = i
    BY <1>3
  <1>5. ASSUME NEW l \in S \ {k}
        PROVE  Before(k, l)
    <2>1. p <= l[1][1] /\ p = k[1][1] /\ d = k[1][2] /\ p \in Nat /\ l[1][1] \in Nat
      BY <1>0, <1>1, <1>4
    <2>2. CASE l[1][1] = p /\ l[1][2] = d
      <3>1. l[2] >= i /\ l[1] = k[1]
        BY <1>0, <1>3, <1>4, <2>1, <2>2
      <3>2. l[2] # k[2]
        BY <1>0, <3>1
      <3> QED
        BY <1>0, <1>4, <3>1, <3>2 DEF Before
    <2>3. CASE l[1][1] = p /\ l[1][2] # d
      <3>1. d <= l[1][2]
        BY <1>2, <2>3
      <3> QED
        BY <1>0, <2>1, <2>3, <3>1 DEF Before
    <2>4. CASE l[1][1] # p
      BY <2>1, <2>4 DEF Before
    <2> QED
      BY <2>2, <2>3, <2>4
  <1> QED
    BY <1>4, <1>5

\* NextKey(j) is one of the rows that are left.
LEMMA NextKeyIsLeft ==
  ASSUME NEW j, jobs[j].todo \subseteq ImpactKeys, jobs[j].todo # {}
  PROVE  NextKey(j) \in jobs[j].todo
  BY LeastKey DEF NextKey

\* A write on top of earlier ones.
LEMMA WriteAdded ==
  ASSUME NEW w \in WriteSets, NEW k \in ImpactKeys, NEW row \in ImpactRows,
         NEW u, u = Written(w, k, row)
  PROVE  u \in WriteSets /\ DOMAIN u = DOMAIN w \union {k} /\ u[k] = row
  <1>1. PICK D \in SUBSET ImpactKeys : w \in [D -> ImpactRows]
    BY DEF WriteSets
  <1>2. u = [l \in {k} \union D |-> IF l = k THEN row ELSE w[l]]
    BY <1>1 DEF Written
  <1>3. u \in [{k} \union D -> ImpactRows] /\ {k} \union D \in SUBSET ImpactKeys
    BY <1>1, <1>2
  <1> QED
    BY <1>1, <1>2, <1>3 DEF WriteSets

\* The job records.
LEMMA QueuedTyped ==
  /\ Queued \in Refreshes /\ Ended \in Refreshes
  /\ Queued.stage = "queued" /\ Ended.stage = "ended" /\ ~Queued.alone /\ ~Ended.alone
  /\ Queued.todo = {} /\ Queued.stale = {} /\ DOMAIN Queued.writes = {}
  /\ Ended.todo = {} /\ Ended.stale = {} /\ DOMAIN Ended.writes = {}
  /\ Dead \in Refreshes /\ Dead.stage = "dead" /\ ~Dead.alone
  <1>1. <<>> \in WriteSets
    <2>1. <<>> \in [{} -> ImpactRows]
      OBVIOUS
    <2> QED
      BY <2>1 DEF WriteSets
  <1>2. Queued \in Refreshes
    BY <1>1 DEF Queued, Refreshes
  <1>3. Ended \in Refreshes /\ Dead \in Refreshes
    BY <1>2 DEF Queued, Ended, Dead, Refreshes
  <1> QED
    BY <1>2, <1>3 DEF Queued, Ended, Dead

\* A job that does nothing carries nothing.
LEMMA EmptyCarries ==
  ASSUME NEW fs
  PROVE  CarriesSound(Queued, fs) /\ CarriesSound(Ended, fs) /\ CarriesSound(Dead, fs)
  BY DEF Queued, Ended, Dead, CarriesSound

\* A step that gives job j another record and writes nothing else.
StepOf(j, J) ==
  /\ jobs' = [jobs EXCEPT ![j] = J]
  /\ UNCHANGED <<plan, edits, forecasts, impacts>>

\* A step of one job keeps the invariant if what it carries is sound and its new rows were free.
LEMMA JobStep ==
  ASSUME LiveIInv, NEW j \in Jobs, NEW J \in Refreshes, StepOf(j, J),
         CarriesSound(J, forecasts),
         \A k \in DOMAIN J.writes : k \in DOMAIN jobs[j].writes \/ ~Locked(j, k)
  PROVE  LiveIInv'
  <1>1. jobs' \in [Jobs -> Refreshes] /\ jobs'[j] = J /\ \A i \in Jobs \ {j} : jobs'[i] = jobs[i]
    BY DEF LiveIInv, LiveTyped, StepOf
  <1>2. LiveTyped'
    BY <1>1 DEF LiveIInv, LiveTyped, StepOf
  <1>3. \A k \in ImpactKeys : Rests(impacts[k], k, forecasts)'
    BY DEF LiveIInv, StepOf
  <1>4. ASSUME NEW i \in Jobs PROVE CarriesSound(jobs'[i], forecasts')
    BY <1>1 DEF LiveIInv, StepOf
  <1>5. ASSUME NEW i \in Jobs, NEW h \in Jobs PROVE Apart(i, h)'
    BY <1>1 DEF LiveIInv, Apart, Locked
  <1> QED
    BY <1>2, <1>3, <1>4, <1>5 DEF LiveIInv

\* Queueing, reading the targets and asking for forecasts hold no rows.
LEMMA RefreshKeeps ==
  ASSUME LiveIInv, NEW j \in Jobs, Refresh(j)
  PROVE  LiveIInv'
  <1>1. PICK J : /\ StepOf(j, J)
                 /\ \/ J = Ended
                    \/ \E fresh \in (SUBSET Places) \ {{}} :
                         J = [jobs[j] EXCEPT !.stage = "writing", !.version = Len(forecasts),
                           !.fresh = fresh,
                           !.todo = Impacts(jobs[j].seen, fresh, forecasts[Len(forecasts)]),
                             !.scopes = fresh]
    <2>1. {jobs[j].seen[i][1] : i \in Targets(jobs[j].seen)} \subseteq Places
      BY DEF Targets, Places
    <2>2. CASE jobs' = [jobs EXCEPT ![j] = Ended]
      BY <2>2 DEF Refresh, StepOf
    <2>3. CASE jobs' # [jobs EXCEPT ![j] = Ended]
      <3>1. PICK fresh \in (SUBSET Places) \ {{}} :
              jobs' = [jobs EXCEPT ![j].stage = "writing", ![j].version = Len(forecasts),
                ![j].fresh = fresh,
                ![j].todo = Impacts(jobs[j].seen, fresh, forecasts[Len(forecasts)]),
                  ![j].scopes = fresh]
        BY <2>1, <2>3 DEF Refresh
      <3> DEFINE J == [jobs[j] EXCEPT !.stage = "writing", !.version = Len(forecasts),
          !.fresh = fresh,
                         !.todo = Impacts(jobs[j].seen, fresh, forecasts[Len(forecasts)]),
                           !.scopes = fresh]
      <3>2. jobs' = [jobs EXCEPT ![j] = J]
        BY <3>1
      <3> QED
        BY <3>2 DEF Refresh, StepOf
    <2> QED
      BY <2>2, <2>3
  <1>2. CASE J = Ended
    BY <1>1, <1>2, JobStep, QueuedTyped, EmptyCarries
  <1>3. ASSUME NEW fresh \in (SUBSET Places) \ {{}},
               J = [jobs[j] EXCEPT !.stage = "writing", !.version = Len(forecasts), !.fresh = fresh,
                      !.todo = Impacts(jobs[j].seen, fresh, forecasts[Len(forecasts)]),
                        !.scopes = fresh]
        PROVE  LiveIInv'
    <2>1. jobs[j] \in Refreshes /\ jobs[j].stage = "asking" /\ CarriesSound(jobs[j], forecasts)
      BY DEF LiveIInv, LiveTyped, Refresh
    <2>2. Impacts(jobs[j].seen, fresh, forecasts[Len(forecasts)]) \in SUBSET ImpactKeys
      BY DEF Impacts, Matches
    <2>3. Len(forecasts) \in Nat /\ Len(forecasts) \in 1 .. Len(forecasts)
      BY DEF LiveIInv, LiveTyped
    <2>4. J \in Refreshes
      BY <1>3, <2>1, <2>2, <2>3 DEF Refreshes
    <2>5. /\ J.stage = "writing" /\ J.version = Len(forecasts) /\ J.fresh = fresh
            /\ J.seen = jobs[j].seen
          /\ J.todo = Impacts(jobs[j].seen, fresh, forecasts[Len(forecasts)]) /\ J.scopes = fresh
          /\ J.stale = jobs[j].stale /\ J.writes = jobs[j].writes
      BY <1>3, <2>1 DEF Refreshes
    <2>6. CarriesSound(J, forecasts)
      BY <2>1, <2>3, <2>5 DEF CarriesSound
    <2> QED
      BY <1>1, <2>4, <2>5, <2>6, JobStep
  <1> QED
    BY <1>1, <1>2, <1>3

\* A job that reads its targets holds no rows yet.
LEMMA ReadTargetsKeeps ==
  ASSUME LiveIInv, NEW j \in Jobs, ReadTargets(j)
  PROVE  LiveIInv'
  <1>1. CASE jobs' = [jobs EXCEPT ![j] = Ended]
    BY <1>1, JobStep, QueuedTyped, EmptyCarries DEF ReadTargets, StepOf
  <1>2. CASE jobs' # [jobs EXCEPT ![j] = Ended]
    <2> DEFINE J == [Queued EXCEPT !.stage = "asking", !.attempt = jobs[j].attempt + 1,
                       !.seen = plan, !.at = Len(forecasts), !.alone = \A i \in Jobs : ~Running(i)]
               joined == [i \in Jobs |-> [jobs[i] EXCEPT !.alone = FALSE]]
    <2>1. jobs' = [joined EXCEPT ![j] = J] /\ UNCHANGED <<plan, edits, forecasts, impacts>>
      BY <1>2 DEF ReadTargets
    <2>2. J \in Refreshes /\ CarriesSound(J, forecasts) /\ DOMAIN J.writes = {}
      <3>1. plan \in [Items -> Slots \union {Off, Gone}] /\ Len(forecasts) \in Nat
        BY DEF LiveIInv, LiveTyped
      <3>2. PICK b \in BOOLEAN : b = (\A i \in Jobs : ~Running(i))
        OBVIOUS
      <3>a. PICK a \in Nat : a = jobs[j].attempt + 1
        BY DEF LiveIInv, LiveTyped, Refreshes
      <3>3. J = [Queued EXCEPT !.stage = "asking", !.attempt = a, !.seen = plan,
                   !.at = Len(forecasts), !.alone = b]
        BY <3>2, <3>a
      <3> HIDE DEF J
      <3>4. J \in Refreshes
        BY <3>1, <3>3, QueuedTyped DEF Refreshes
      <3>5. /\ J.stage = "asking" /\ J.seen = plan /\ J.todo = {} /\ J.stale = {}
              /\ J.writes = Queued.writes
        BY <3>3 DEF Queued
      <3> QED
        BY <3>1, <3>4, <3>5, QueuedTyped DEF CarriesSound
    <2> HIDE DEF J
    <2>3. ASSUME NEW i \in Jobs
          PROVE  /\ joined[i] \in Refreshes /\ joined[i].writes = jobs[i].writes
                 /\ CarriesSound(joined[i], forecasts)
      <3>1. jobs[i] \in Refreshes /\ CarriesSound(jobs[i], forecasts)
        BY DEF LiveIInv, LiveTyped
      <3>2. PICK J1 : J1 = [jobs[i] EXCEPT !.alone = FALSE]
        OBVIOUS
      <3>3. /\ J1 \in Refreshes /\ J1.stage = jobs[i].stage /\ J1.seen = jobs[i].seen
              /\ J1.version = jobs[i].version
            /\ J1.todo = jobs[i].todo /\ J1.fresh = jobs[i].fresh /\ J1.scopes = jobs[i].scopes
            /\ J1.stale = jobs[i].stale /\ J1.writes = jobs[i].writes
        BY <3>1, <3>2 DEF Refreshes
      <3>4. CarriesSound(J1, forecasts)
        BY <3>1, <3>3 DEF CarriesSound
      <3> QED
        BY <3>2, <3>3, <3>4
    <2>4. joined \in [Jobs -> Refreshes]
      BY <2>3
    <2> HIDE DEF joined
    <2>5. jobs' \in [Jobs -> Refreshes] /\ jobs'[j] = J
          /\ \A i \in Jobs \ {j} : jobs'[i] = joined[i]
      BY <2>1, <2>2, <2>4
    <2>6. LiveTyped'
      BY <2>1, <2>5 DEF LiveIInv, LiveTyped
    <2>7. \A k \in ImpactKeys : Rests(impacts[k], k, forecasts)'
      BY <2>1 DEF LiveIInv
    <2>8. ASSUME NEW i \in Jobs PROVE CarriesSound(jobs'[i], forecasts')
      BY <2>1, <2>2, <2>3, <2>5
    <2>9. ASSUME NEW i \in Jobs, NEW h \in Jobs PROVE Apart(i, h)'
      BY <2>2, <2>3, <2>5 DEF LiveIInv, Apart
    <2> QED
      BY <2>6, <2>7, <2>8, <2>9 DEF LiveIInv
  <1> QED
    BY <1>1, <1>2

\* What a statement sees is a row that rests on a forecast.
LEMMA ViewRests ==
  ASSUME LiveIInv, NEW j \in Jobs, NEW k \in ImpactKeys
  PROVE  View(j, k) \in ImpactRows /\ Rests(View(j, k), k, forecasts)
  <1>1. jobs[j] \in Refreshes /\ CarriesSound(jobs[j], forecasts) /\ impacts[k] \in ImpactRows
    BY DEF LiveIInv, LiveTyped
  <1>2. PICK D \in SUBSET ImpactKeys : jobs[j].writes \in [D -> ImpactRows]
    BY <1>1 DEF Refreshes, WriteSets
  <1> QED
    BY <1>1, <1>2 DEF LiveIInv, View, CarriesSound

\* A row that is written under the version of a job in its transaction.
LEMMA UpsertKeeps ==
  ASSUME LiveIInv, NEW j \in Jobs, Upsert(j)
  PROVE  LiveIInv'
  <1>1. /\ jobs[j] \in Refreshes /\ CarriesSound(jobs[j], forecasts) /\ jobs[j].stage = "writing"
        /\ jobs[j].todo # {}
    BY DEF LiveIInv, LiveTyped, Upsert
  <1>2. PICK k : k = NextKey(j)
    OBVIOUS
  <1>3. k \in jobs[j].todo /\ k \in ImpactKeys
    BY <1>1, <1>2, NextKeyIsLeft DEF Refreshes
  <1>4. /\ jobs[j].version \in 1 .. Len(forecasts)
        /\ forecasts[jobs[j].version].sure /\ k[1] \in forecasts[jobs[j].version].severe
    BY <1>1, <1>3 DEF CarriesSound, Impacts
  <1>5. PICK old : old = View(j, k)
    OBVIOUS
  <1>6. old \in ImpactRows
    BY <1>3, <1>5, ViewRests
  <1>7. PICK row : row = Row(jobs[j], IF old = NoRow THEN [first |-> jobs[j].at] ELSE old)
    OBVIOUS
  <1>8. Len(forecasts) \in Nat
    BY DEF LiveIInv, LiveTyped
  <1>9. /\ row \in ImpactRows /\ row.state = "active" /\ row.version = jobs[j].version
        /\ Rests(row, k, forecasts)
    <2>1. jobs[j].at \in Nat /\ jobs[j].version \in Nat
      BY <1>1 DEF Refreshes
    <2>2. CASE old = NoRow
      BY <1>4, <1>7, <1>8, <2>1, <2>2 DEF Row, ImpactRows, Rests
    <2>3. CASE old # NoRow
      BY <1>4, <1>6, <1>7, <1>8, <2>1, <2>3 DEF Row, ImpactRows, Rests
    <2> QED
      BY <2>2, <2>3
  <1>10. PICK w : w = IF ~(old.state # "active" \/ old.version # jobs[j].version)
                      THEN jobs[j].writes ELSE Written(jobs[j].writes, k, row)
    OBVIOUS
  <1>11. jobs[j].writes \in WriteSets
    BY <1>1 DEF Refreshes
  <1>12. /\ w \in WriteSets /\ DOMAIN w \subseteq DOMAIN jobs[j].writes \union {k}
         /\ \A l \in DOMAIN w : (w[l] = row /\ l = k)
            \/ (l \in DOMAIN jobs[j].writes /\ w[l] = jobs[j].writes[l])
         /\ k \in DOMAIN w => k \in DOMAIN jobs[j].writes \/ ~Locked(j, k)
    <2>1. CASE ~(old.state # "active" \/ old.version # jobs[j].version)
      BY <1>10, <1>11, <2>1
    <2>2. CASE old.state # "active" \/ old.version # jobs[j].version
      <3>1. w = Written(jobs[j].writes, k, row)
        BY <1>10, <2>2
      <3>2. ~Locked(j, k)
        BY <1>2, <1>5, <2>2 DEF Upsert, Differs
      <3>3. PICK v : v = jobs[j].writes
        OBVIOUS
      <3>4. v \in WriteSets /\ row \in ImpactRows /\ k \in ImpactKeys /\ w = Written(v, k, row)
        BY <1>3, <1>9, <1>11, <3>1, <3>3
      <3>5. w \in WriteSets /\ DOMAIN w = DOMAIN v \union {k} /\ w[k] = row
        BY ONLY <3>4, WriteAdded
      <3>6. ASSUME NEW l \in DOMAIN w PROVE (w[l] = row /\ l = k) \/ (l \in DOMAIN v /\ w[l] = v[l])
        BY <3>4, <3>5 DEF Written
      <3> QED
        BY <3>2, <3>3, <3>5, <3>6
    <2> QED
      BY <2>1, <2>2
  <1>13. PICK J : J = [jobs[j] EXCEPT !.todo = @ \ {k}, !.writes = w]
    OBVIOUS
  <1>14. jobs' = [jobs EXCEPT ![j] = J] /\ UNCHANGED <<plan, edits, forecasts, impacts>>
    BY <1>2, <1>5, <1>7, <1>10, <1>13 DEF Upsert, Differs
  <1>15. /\ J \in Refreshes /\ J.writes = w /\ J.todo = jobs[j].todo \ {k}
          /\ J.stage = jobs[j].stage
         /\ J.seen = jobs[j].seen /\ J.version = jobs[j].version /\ J.fresh = jobs[j].fresh
         /\ J.scopes = jobs[j].scopes /\ J.stale = jobs[j].stale
    BY <1>1, <1>12, <1>13 DEF Refreshes
  <1>16. \A l \in DOMAIN w : Rests(w[l], l, forecasts)
    BY <1>1, <1>9, <1>12 DEF CarriesSound
  <1>17. CarriesSound(J, forecasts)
    BY <1>1, <1>15, <1>16 DEF CarriesSound
  <1>18. \A l \in DOMAIN w : l \in DOMAIN jobs[j].writes \/ ~Locked(j, l)
    BY <1>12
  <1>19. StepOf(j, J)
    BY <1>14 DEF StepOf
  <1> QED
    BY <1>15, <1>17, <1>18, <1>19, JobStep

\* Looking for the rows of a scope writes none.
LEMMA ResolveScopeKeeps ==
  ASSUME LiveIInv, NEW j \in Jobs, ResolveScope(j)
  PROVE  LiveIInv'
  <1>1. /\ jobs[j] \in Refreshes /\ CarriesSound(jobs[j], forecasts)
        /\ jobs[j].stage \in {"writing", "resolving"} /\ jobs[j].todo = {}
    BY DEF LiveIInv, LiveTyped, ResolveScope, InTransaction
  <1>2. PICK p \in jobs[j].scopes :
          jobs' = [jobs EXCEPT ![j].stage = "resolving", ![j].scopes = @ \ {p},
            ![j].stale = Stale(j, p)]
    BY DEF ResolveScope
  <1>3. PICK J : J = [jobs[j] EXCEPT !.stage = "resolving", !.scopes = @ \ {p},
        !.stale = Stale(j, p)]
    OBVIOUS
  <1>4. Stale(j, p) \in SUBSET ImpactKeys
    BY DEF Stale
  <1>5. /\ J \in Refreshes /\ J.stage = "resolving" /\ J.todo = {} /\ J.writes = jobs[j].writes
        /\ J.seen = jobs[j].seen /\ J.version = jobs[j].version
    BY <1>1, <1>3, <1>4 DEF Refreshes
  <1>6. CarriesSound(J, forecasts)
    BY <1>1, <1>5 DEF CarriesSound
  <1>7. StepOf(j, J)
    BY <1>2, <1>3 DEF StepOf, ResolveScope
  <1> QED
    BY <1>5, <1>6, <1>7, JobStep

\* A row that is resolved claims nothing any more.
LEMMA ResolveRowKeeps ==
  ASSUME LiveIInv, NEW j \in Jobs, ResolveRow(j)
  PROVE  LiveIInv'
  <1>1. jobs[j] \in Refreshes /\ CarriesSound(jobs[j], forecasts)
    BY DEF LiveIInv, LiveTyped
  <1>2. PICK k \in jobs[j].stale :
          /\ ~Locked(j, k)
          /\ jobs' = [jobs EXCEPT ![j].stale = @ \ {k},
               ![j].writes = IF View(j, k).state # "active" THEN @
                             ELSE Written(@, k, [View(j, k) EXCEPT !.state = "resolved"])]
    BY DEF ResolveRow
  <1>3. jobs[j].stage = "resolving" /\ k \in ImpactKeys
    BY <1>1, <1>2 DEF CarriesSound, Refreshes
  <1>4. View(j, k) \in ImpactRows /\ Rests(View(j, k), k, forecasts)
    BY <1>3, ViewRests
  <1>5. PICK row : row = [View(j, k) EXCEPT !.state = "resolved"]
    OBVIOUS
  <1>6. row \in ImpactRows /\ Rests(row, k, forecasts)
    BY <1>4, <1>5 DEF ImpactRows, Rests
  <1>7. PICK w : w = IF View(j, k).state # "active" THEN jobs[j].writes
        ELSE Written(jobs[j].writes, k, row)
    OBVIOUS
  <1>8. jobs[j].writes \in WriteSets
    BY <1>1 DEF Refreshes
  <1>9. /\ w \in WriteSets /\ DOMAIN w \subseteq DOMAIN jobs[j].writes \union {k}
        /\ \A l \in DOMAIN w : (w[l] = row /\ l = k)
           \/ (l \in DOMAIN jobs[j].writes /\ w[l] = jobs[j].writes[l])
    <2>1. CASE View(j, k).state # "active"
      BY <1>7, <1>8, <2>1
    <2>2. CASE View(j, k).state = "active"
      <3>1. w = Written(jobs[j].writes, k, row)
        BY <1>7, <2>2
      <3>3. PICK v : v = jobs[j].writes
        OBVIOUS
      <3>4. v \in WriteSets /\ row \in ImpactRows /\ k \in ImpactKeys /\ w = Written(v, k, row)
        BY <1>3, <1>6, <1>8, <3>1, <3>3
      <3>5. w \in WriteSets /\ DOMAIN w = DOMAIN v \union {k} /\ w[k] = row
        BY ONLY <3>4, WriteAdded
      <3>6. ASSUME NEW l \in DOMAIN w PROVE (w[l] = row /\ l = k) \/ (l \in DOMAIN v /\ w[l] = v[l])
        BY <3>4, <3>5 DEF Written
      <3> QED
        BY <3>3, <3>5, <3>6
    <2> QED
      BY <2>1, <2>2
  <1>10. PICK J : J = [jobs[j] EXCEPT !.stale = @ \ {k}, !.writes = w]
    OBVIOUS
  <1>11. StepOf(j, J)
    BY <1>2, <1>5, <1>7, <1>10 DEF StepOf, ResolveRow
  <1>12. /\ J \in Refreshes /\ J.writes = w /\ J.todo = jobs[j].todo /\ J.stage = "resolving"
         /\ J.seen = jobs[j].seen /\ J.version = jobs[j].version
    BY <1>1, <1>3, <1>9, <1>10 DEF Refreshes
  <1>13. \A l \in DOMAIN w : Rests(w[l], l, forecasts)
    BY <1>1, <1>6, <1>9 DEF CarriesSound
  <1>14. CarriesSound(J, forecasts)
    BY <1>1, <1>3, <1>12, <1>13 DEF CarriesSound
  <1>15. \A l \in DOMAIN w : l \in DOMAIN jobs[j].writes \/ ~Locked(j, l)
    BY <1>2, <1>9
  <1> QED
    BY <1>11, <1>12, <1>14, <1>15, JobStep

\* A transaction that fails lets go of its rows.
LEMMA FailKeeps ==
  ASSUME LiveIInv, NEW j \in Jobs, Fail(j)
  PROVE  LiveIInv'
  <1>1. PICK J : J = IF jobs[j].attempt < JobAttempts
                     THEN [Queued EXCEPT !.attempt = jobs[j].attempt] ELSE Dead
    OBVIOUS
  <1>2. StepOf(j, J)
    BY <1>1 DEF Fail, StepOf
  <1>3. J \in Refreshes /\ CarriesSound(J, forecasts) /\ DOMAIN J.writes = {}
    <2>1. jobs[j].attempt \in Nat
      BY DEF LiveIInv, LiveTyped, Refreshes
    <2>2. J = [Queued EXCEPT !.attempt = jobs[j].attempt] \/ J = Dead
      BY <1>1
    <2> QED
      BY <2>1, <2>2, QueuedTyped DEF Refreshes, CarriesSound, Queued, Dead
  <1> QED
    BY <1>2, <1>3, JobStep

\* A commit writes rows that rest on a forecast, and lets go of their locks.
LEMMA CommitKeeps ==
  ASSUME LiveIInv, NEW j \in Jobs, Commit(j)
  PROVE  LiveIInv'
  <1>1. /\ impacts' = [k \in ImpactKeys |-> View(j, k)] /\ jobs' = [jobs EXCEPT ![j] = Ended]
        /\ UNCHANGED <<plan, edits, forecasts>>
    BY DEF Commit
  <1>2. jobs' \in [Jobs -> Refreshes] /\ jobs'[j] = Ended
        /\ \A i \in Jobs \ {j} : jobs'[i] = jobs[i]
    BY <1>1, QueuedTyped DEF LiveIInv, LiveTyped
  <1>3. impacts' \in [ImpactKeys -> ImpactRows]
    BY <1>1, ViewRests
  <1>4. LiveTyped'
    BY <1>1, <1>2, <1>3 DEF LiveIInv, LiveTyped
  <1>5. ASSUME NEW k \in ImpactKeys PROVE Rests(impacts'[k], k, forecasts')
    BY <1>1, ViewRests
  <1>6. ASSUME NEW i \in Jobs PROVE CarriesSound(jobs'[i], forecasts')
    BY <1>1, <1>2, EmptyCarries DEF LiveIInv
  <1>7. ASSUME NEW i \in Jobs, NEW h \in Jobs PROVE Apart(i, h)'
    BY <1>2, QueuedTyped DEF LiveIInv, Apart
  <1> QED
    BY <1>4, <1>5, <1>6, <1>7 DEF LiveIInv

\* Forecasts are only added: what rests on one goes on to.
LEMMA PublishKeeps ==
  ASSUME LiveIInv, NEW f \in Weathers, Publish(f)
  PROVE  LiveIInv'
  <1>1. forecasts' = Append(forecasts, f) /\ UNCHANGED <<plan, edits, impacts, jobs>>
    BY DEF Publish
  <1>2. forecasts \in Seq(Weathers)
    BY DEF LiveIInv, LiveTyped
  <1>3. /\ forecasts' \in Seq(Weathers) /\ forecasts' # <<>> /\ Len(forecasts) \in Nat
        /\ Len(forecasts') = Len(forecasts) + 1
        /\ \A n \in 1 .. Len(forecasts) : forecasts'[n] = forecasts[n]
    BY <1>1, <1>2
  <1>4. ASSUME NEW row \in ImpactRows, NEW k, Rests(row, k, forecasts)
        PROVE  Rests(row, k, forecasts')
    BY <1>3, <1>4 DEF Rests, ImpactRows
  <1>5. LiveTyped'
    BY <1>1, <1>3 DEF LiveIInv, LiveTyped
  <1>6. ASSUME NEW k \in ImpactKeys PROVE Rests(impacts'[k], k, forecasts')
    BY <1>1, <1>4 DEF LiveIInv, LiveTyped
  <1>7. ASSUME NEW i \in Jobs PROVE CarriesSound(jobs'[i], forecasts')
    <2>1. jobs[i] \in Refreshes /\ CarriesSound(jobs[i], forecasts)
      BY DEF LiveIInv, LiveTyped
    <2>2. PICK D \in SUBSET ImpactKeys : jobs[i].writes \in [D -> ImpactRows]
      BY <2>1 DEF Refreshes, WriteSets
    <2>3. \A k \in DOMAIN jobs[i].writes : Rests(jobs[i].writes[k], k, forecasts')
      BY <1>4, <2>1, <2>2 DEF CarriesSound
    <2>4. jobs[i].version \in 1 .. Len(forecasts) =>
            jobs[i].version \in 1 .. Len(forecasts')
              /\ forecasts'[jobs[i].version] = forecasts[jobs[i].version]
      BY <1>3
    <2> QED
      BY <1>1, <2>1, <2>3, <2>4 DEF CarriesSound
  <1>8. ASSUME NEW i \in Jobs, NEW h \in Jobs PROVE Apart(i, h)'
    BY <1>1 DEF LiveIInv, Apart
  <1> QED
    BY <1>5, <1>6, <1>7, <1>8 DEF LiveIInv

\* The owner's edits only take rows away.
LEMMA EditKeeps ==
  ASSUME LiveIInv, NEW i \in Items, NEW s \in Slots \union {Off, Gone}, Edit(i, s)
  PROVE  LiveIInv'
  <1>1. NoRow \in ImpactRows
    BY DEF NoRow, ImpactRows
  <1>2. Len(forecasts) \in Nat
    BY DEF LiveIInv, LiveTyped
  <1>3. /\ impacts' \in [ImpactKeys -> ImpactRows]
        /\ \A k \in ImpactKeys : impacts'[k] = impacts[k] \/ impacts'[k] = NoRow
    BY <1>1 DEF Edit, LiveIInv, LiveTyped
  <1>4. /\ plan' \in [Items -> Slots \union {Off, Gone}] /\ edits' \in 0 .. MaxEdits
        /\ UNCHANGED <<forecasts, jobs>>
    <2>1. edits' = edits + 1 /\ edits < MaxEdits /\ plan' = [plan EXCEPT ![i] = s]
          /\ UNCHANGED <<forecasts, jobs>>
      BY DEF Edit
    <2>2. plan \in [Items -> Slots \union {Off, Gone}] /\ edits \in 0 .. MaxEdits
          /\ MaxEdits \in Nat
      BY LiveAssumption DEF LiveIInv, LiveTyped
    <2> QED
      BY <2>1, <2>2
  <1>5. LiveTyped'
    BY <1>3, <1>4 DEF LiveIInv, LiveTyped
  <1>6. ASSUME NEW k \in ImpactKeys PROVE Rests(impacts'[k], k, forecasts')
    <2>1. Rests(NoRow, k, forecasts)
      BY <1>2 DEF NoRow, Rests
    <2> QED
      BY <1>3, <1>4, <2>1 DEF LiveIInv
  <1> QED
    BY <1>4, <1>5, <1>6 DEF LiveIInv, Apart

\* The invariant holds at first.
LEMMA InitEstablishesLive == LiveInit => LiveIInv
  <1> SUFFICES ASSUME LiveInit PROVE LiveIInv
    OBVIOUS
  <1>1. PICK f \in Weathers : forecasts = <<f>>
    BY DEF LiveInit
  <1>2. forecasts \in Seq(Weathers) /\ forecasts # <<>> /\ Len(forecasts) = 1
    BY <1>1
  <1>3. jobs \in [Jobs -> Refreshes] /\ \A j \in Jobs : jobs[j] = Queued
    BY QueuedTyped DEF LiveInit
  <1>4. NoRow \in ImpactRows
    BY DEF NoRow, ImpactRows
  <1>5. plan \in [Items -> Slots \union {Off, Gone}] /\ edits \in 0 .. MaxEdits
    <2>1. plan \in [Items -> Slots \union {Off}]
      BY LiveAssumption DEF LiveInit, Off
    <2>2. edits = 0 /\ MaxEdits \in Nat
      BY LiveAssumption DEF LiveInit
    <2> QED
      BY <2>1, <2>2
  <1>a. PICK fresh \in SUBSET Places : impacts = [k \in ImpactKeys |->
          IF k \in Impacts(plan, fresh, f)
          THEN Row([version |-> 1, at |-> 1], [first |-> 1]) ELSE NoRow]
    BY <1>1 DEF LiveInit
  <1>b. PICK row : row = Row([version |-> 1, at |-> 1], [first |-> 1])
    OBVIOUS
  <1>c. row \in ImpactRows /\ row.version = 1
    BY <1>b DEF Row, ImpactRows
  <1>d. ASSUME NEW k \in ImpactKeys
        PROVE  impacts[k] \in ImpactRows /\ Rests(impacts[k], k, forecasts)
    <2>1. CASE k \in Impacts(plan, fresh, f)
      <3>1. impacts[k] = row /\ f.sure /\ k[1] \in f.severe
        BY <1>a, <1>b, <2>1 DEF Impacts
      <3> QED
        BY <1>1, <1>2, <1>c, <3>1 DEF Rests
    <2>2. CASE k \notin Impacts(plan, fresh, f)
      BY <1>2, <1>4, <1>a, <2>2 DEF NoRow, Rests
    <2> QED
      BY <2>1, <2>2
  <1>e. impacts \in [ImpactKeys -> ImpactRows]
    BY <1>a, <1>d
  <1>6. LiveTyped
    BY <1>2, <1>3, <1>5, <1>e DEF LiveTyped
  <1>7. \A k \in ImpactKeys : Rests(impacts[k], k, forecasts)
    BY <1>d
  <1>8. \A j \in Jobs : CarriesSound(jobs[j], forecasts)
    BY <1>3, EmptyCarries
  <1>9. \A i, j \in Jobs : Apart(i, j)
    BY <1>3, QueuedTyped DEF Apart
  <1> QED
    BY <1>6, <1>7, <1>8, <1>9 DEF LiveIInv

\* Every step keeps the invariant.
LEMMA LiveStepKeeps == LiveIInv /\ [LiveNext]_liveVars => LiveIInv'
  <1> SUFFICES ASSUME LiveIInv, [LiveNext]_liveVars PROVE LiveIInv'
    OBVIOUS
  <1>1. ASSUME NEW j \in Jobs, Works(j) PROVE LiveIInv'
    BY <1>1, ReadTargetsKeeps, RefreshKeeps, UpsertKeeps, ResolveScopeKeeps, ResolveRowKeeps,
       CommitKeeps,
       FailKeeps DEF Works
  <1>2. CASE UNCHANGED liveVars
    <2>1. UNCHANGED <<plan, edits, forecasts, impacts, jobs>>
      BY <1>2 DEF liveVars
    <2> QED
      BY <2>1 DEF LiveIInv, LiveTyped, Apart
  <1> QED
    BY <1>1, <1>2, PublishKeeps, EditKeeps DEF LiveNext

\* The inductive invariant of reconciliation.
THEOREM LiveInductive == LiveSpec => []LiveIInv
  BY InitEstablishesLive, LiveStepKeeps, PTL DEF LiveSpec

\* An active impact rests on a forecast that was sure and severe, and no two
\* transactions hold one row.
THEOREM ImpactsAreSoundHolds == LiveSpec => []ImpactsAreSound
  <1>1. LiveIInv => ImpactsAreSound
    <2> SUFFICES ASSUME LiveIInv PROVE ImpactsAreSound
      OBVIOUS
    <2>1. ASSUME NEW k \in ImpactKeys
          PROVE  impacts[k].state \in {"absent", "active", "resolved"}
                 /\ impacts[k].version <= Len(forecasts)
      BY DEF LiveIInv, LiveTyped, ImpactRows, Rests
    <2>2. ASSUME NEW j \in Jobs
          PROVE  /\ jobs[j].stage \in {"queued", "asking", "writing", "resolving", "ended", "dead"}
                 /\ DOMAIN jobs[j].writes # {} => InTransaction(j)
                 /\ \A i \in Jobs \ {j} : DOMAIN jobs[j].writes \intersect DOMAIN jobs[i].writes = {}
      <3>1. jobs[j] \in Refreshes /\ CarriesSound(jobs[j], forecasts)
        BY DEF LiveIInv, LiveTyped
      <3> QED
        BY <3>1 DEF LiveIInv, Refreshes, CarriesSound, InTransaction, Apart
    <2>3. LiveTypeOK
      BY <2>1, <2>2 DEF LiveTypeOK, LiveIInv, LiveTyped
    <2>4. ActiveImpactsAreMaterial
      BY DEF ActiveImpactsAreMaterial, LiveIInv, Rests
    <2> QED
      BY <2>3, <2>4 DEF ImpactsAreSound
  <1> QED
    BY <1>1, LiveInductive, PTL

---------------------------------------------------------------------------
\* A step of a job that runs: no other one is alone, and what it has done
\* itself depends on its own record.
LEMMA LoneStep ==
  ASSUME LiveIInv, LoneInv, NEW j \in Jobs, NEW J \in Refreshes, StepOf(j, J), Running(j),
         J.alone => /\ jobs[j].alone /\ J.stage \notin {"queued", "ended", "dead"}
                    /\ Undisturbed(j)'
  PROVE  LoneInv'
  <1>1. jobs' \in [Jobs -> Refreshes] /\ jobs'[j] = J /\ \A i \in Jobs \ {j} : jobs'[i] = jobs[i]
    BY DEF LiveIInv, LiveTyped, StepOf
  <1> SUFFICES ASSUME NEW h \in Jobs, jobs'[h].alone
               PROVE  /\ Running(h)' /\ Undisturbed(h)'
                      /\ \A i \in Jobs \ {h} : ~Running(i)'
    BY DEF LoneInv
  <1>2. h = j
    BY <1>1 DEF LoneInv
  <1> QED
    BY <1>1, <1>2 DEF LoneInv, Running

\* What j sees after it gave itself another record.
LEMMA ViewAfter ==
  ASSUME LiveIInv, NEW j \in Jobs, NEW J \in Refreshes, StepOf(j, J), NEW k \in ImpactKeys
  PROVE  View(j, k)' = IF k \in DOMAIN J.writes THEN J.writes[k] ELSE impacts[k]
  BY DEF LiveIInv, LiveTyped, StepOf, View

\* A lone refresh begins with everything left to write.
LEMMA RefreshLone ==
  ASSUME LiveIInv, LoneInv, NEW j \in Jobs, Refresh(j)
  PROVE  LoneInv'
  <1>0. Running(j)
    BY DEF Refresh, Running
  <1>1. CASE jobs' = [jobs EXCEPT ![j] = Ended]
    BY <1>0, <1>1, LoneStep, QueuedTyped DEF Refresh, StepOf
  <1>2. CASE jobs' # [jobs EXCEPT ![j] = Ended]
    <2>1. PICK fresh \in (SUBSET Places) \ {{}} :
            jobs' = [jobs EXCEPT ![j].stage = "writing", ![j].version = Len(forecasts),
              ![j].fresh = fresh,
              ![j].todo = Impacts(jobs[j].seen, fresh, forecasts[Len(forecasts)]),
                ![j].scopes = fresh]
      <3>1. {jobs[j].seen[i][1] : i \in Targets(jobs[j].seen)} \subseteq Places
        BY DEF Targets, Places
      <3> QED
        BY <1>2, <3>1 DEF Refresh
    <2>2. PICK J : J = [jobs[j] EXCEPT !.stage = "writing", !.version = Len(forecasts),
          !.fresh = fresh,
                      !.todo = Impacts(jobs[j].seen, fresh, forecasts[Len(forecasts)]),
                        !.scopes = fresh]
      OBVIOUS
    <2>3. StepOf(j, J)
      BY <2>1, <2>2 DEF Refresh, StepOf
    <2>4. jobs[j] \in Refreshes /\ jobs[j].stage = "asking" /\ CarriesSound(jobs[j], forecasts)
      BY DEF LiveIInv, LiveTyped, Refresh
    <2>5. Impacts(jobs[j].seen, fresh, forecasts[Len(forecasts)]) \in SUBSET ImpactKeys
      BY DEF Impacts, Matches
    <2>6. Len(forecasts) \in Nat
      BY DEF LiveIInv, LiveTyped
    <2>7. J \in Refreshes
      BY <2>2, <2>4, <2>5, <2>6 DEF Refreshes
    <2>8. /\ J.stage = "writing" /\ J.version = Len(forecasts) /\ J.fresh = fresh
            /\ J.seen = jobs[j].seen
          /\ J.todo = Impacts(jobs[j].seen, fresh, forecasts[Len(forecasts)]) /\ J.scopes = fresh
          /\ J.stale = {} /\ DOMAIN J.writes = {} /\ J.alone = jobs[j].alone
      BY <2>2, <2>4 DEF Refreshes, CarriesSound
    <2>9. \A k : \A row : Done(J, row, k, forecasts[J.version])
      BY <2>8 DEF Done
    <2>10. jobs'[j] = J /\ forecasts' = forecasts
      BY <2>3 DEF StepOf, LiveIInv, LiveTyped
    <2>11. Undisturbed(j)'
      BY <2>8, <2>9, <2>10 DEF Undisturbed
    <2> QED
      BY <1>0, <2>3, <2>7, <2>8, <2>11, LoneStep
  <1> QED
    BY <1>1, <1>2

\* What is written is active.
LEMMA UpsertLone ==
  ASSUME LiveIInv, LoneInv, NEW j \in Jobs, Upsert(j)
  PROVE  LoneInv'
  <1>1. /\ jobs[j] \in Refreshes /\ CarriesSound(jobs[j], forecasts) /\ jobs[j].stage = "writing"
        /\ jobs[j].todo # {}
    BY DEF LiveIInv, LiveTyped, Upsert
  <1>2. PICK k : k = NextKey(j)
    OBVIOUS
  <1>3. k \in jobs[j].todo /\ k \in ImpactKeys
    BY <1>1, <1>2, NextKeyIsLeft DEF Refreshes
  <1>4. k \in Impacts(jobs[j].seen, jobs[j].fresh, forecasts[jobs[j].version])
    BY <1>1, <1>3 DEF CarriesSound
  <1>5. PICK old : old = View(j, k)
    OBVIOUS
  <1>6. PICK row : row = Row(jobs[j], IF old = NoRow THEN [first |-> jobs[j].at] ELSE old)
    OBVIOUS
  <1>7. row.state = "active"
    BY <1>6 DEF Row
  <1>8. PICK w : w = IF ~(old.state # "active" \/ old.version # jobs[j].version)
                     THEN jobs[j].writes ELSE Written(jobs[j].writes, k, row)
    OBVIOUS
  <1>9. PICK J : J = [jobs[j] EXCEPT !.todo = @ \ {k}, !.writes = w]
    OBVIOUS
  <1>10. StepOf(j, J)
    BY <1>2, <1>5, <1>6, <1>8, <1>9 DEF Upsert, Differs, StepOf
  <1>11. jobs[j].writes \in WriteSets
    BY <1>1 DEF Refreshes
  <1>12. row \in ImpactRows
    <2>1. old \in ImpactRows
      BY <1>3, <1>5, ViewRests
    <2>2. jobs[j].at \in Nat /\ jobs[j].version \in Nat
      BY <1>1 DEF Refreshes
    <2> QED
      BY <1>6, <2>1, <2>2 DEF Row, ImpactRows
  <1>13. w \in WriteSets
    <2>1. CASE w = jobs[j].writes
      BY <1>11, <2>1
    <2>2. CASE w = Written(jobs[j].writes, k, row)
      BY ONLY <1>3, <1>11, <1>12, <2>2, WriteAdded
    <2> QED
      BY <1>8, <2>1, <2>2
  <1>14. /\ J \in Refreshes /\ J.writes = w /\ J.todo = jobs[j].todo \ {k} /\ J.stage = "writing"
         /\ J.seen = jobs[j].seen /\ J.version = jobs[j].version /\ J.fresh = jobs[j].fresh
         /\ J.scopes = jobs[j].scopes /\ J.stale = jobs[j].stale /\ J.alone = jobs[j].alone
    BY <1>1, <1>9, <1>13 DEF Refreshes
  <1>15. ASSUME NEW l \in ImpactKeys
         PROVE  IF l = k THEN View(j, l)'.state = "active"
                ELSE View(j, l)' = View(j, l) /\ (l \in DOMAIN w <=> l \in DOMAIN jobs[j].writes)
    <2>1. View(j, l)' = IF l \in DOMAIN w THEN w[l] ELSE impacts[l]
      BY <1>10, <1>14, ViewAfter
    <2>2. CASE ~(old.state # "active" \/ old.version # jobs[j].version)
      BY <1>5, <1>8, <2>1, <2>2 DEF View
    <2>3. CASE old.state # "active" \/ old.version # jobs[j].version
      <3>1. w = Written(jobs[j].writes, k, row)
        BY <1>8, <2>3
      <3> QED
        BY <1>7, <2>1, <3>1 DEF View, Written
    <2> QED
      BY <2>2, <2>3
  <1>16. jobs'[j] = J /\ forecasts' = forecasts /\ plan' = plan
    BY <1>10 DEF StepOf, LiveIInv, LiveTyped
  <1>17. ASSUME Undisturbed(j) PROVE Undisturbed(j)'
    <2> DEFINE f == forecasts[jobs[j].version]
    <2>1. jobs[j].stale \intersect Observed(jobs[j].seen, jobs[j].fresh, f) = {}
      BY <1>1, <1>17 DEF Undisturbed, InTransaction
    <2>2. ASSUME NEW l \in ImpactKeys, l[1][1] \in jobs[j].fresh, plan[l[2]] # Gone
          PROVE  Done(J, View(j, l)', l, f)
      <3>1. Done(jobs[j], View(j, l), l, f)
        BY <1>1, <1>17, <2>2 DEF Undisturbed, InTransaction
      <3>2. CASE l = k
        BY <1>4, <1>14, <1>15, <3>2 DEF Done
      <3>3. CASE l # k
        BY <1>14, <1>15, <3>1, <3>3 DEF Done
      <3> QED
        BY <3>2, <3>3
    <2> QED
      BY <1>14, <1>16, <2>1, <2>2 DEF Undisturbed
  <1>18. J.alone => jobs[j].alone /\ J.stage \notin {"queued", "ended", "dead"} /\ Undisturbed(j)'
    BY <1>14, <1>17 DEF LoneInv
  <1>19. Running(j)
    BY <1>1 DEF Running
  <1> QED
    BY <1>10, <1>14, <1>18, <1>19, LoneStep

\* The rows of a scope that were not observed wait to be resolved.
LEMMA ResolveScopeLone ==
  ASSUME LiveIInv, LoneInv, NEW j \in Jobs, ResolveScope(j)
  PROVE  LoneInv'
  <1>1. /\ jobs[j] \in Refreshes /\ CarriesSound(jobs[j], forecasts) /\ InTransaction(j)
        /\ jobs[j].stage \in {"writing", "resolving"} /\ jobs[j].todo = {} /\ jobs[j].stale = {}
    BY DEF LiveIInv, LiveTyped, ResolveScope, InTransaction
  <1>2. PICK p \in jobs[j].scopes :
          jobs' = [jobs EXCEPT ![j].stage = "resolving", ![j].scopes = @ \ {p},
            ![j].stale = Stale(j, p)]
    BY DEF ResolveScope
  <1>3. PICK J : J = [jobs[j] EXCEPT !.stage = "resolving", !.scopes = @ \ {p},
        !.stale = Stale(j, p)]
    OBVIOUS
  <1>4. Stale(j, p) \in SUBSET ImpactKeys
    BY DEF Stale
  <1>5. /\ J \in Refreshes /\ J.stage = "resolving" /\ J.todo = {} /\ J.writes = jobs[j].writes
        /\ J.seen = jobs[j].seen /\ J.version = jobs[j].version /\ J.fresh = jobs[j].fresh
        /\ J.scopes = jobs[j].scopes \ {p} /\ J.stale = Stale(j, p) /\ J.alone = jobs[j].alone
    BY <1>1, <1>3, <1>4 DEF Refreshes
  <1>6. StepOf(j, J)
    BY <1>2, <1>3 DEF StepOf, ResolveScope
  <1>7. jobs'[j] = J /\ forecasts' = forecasts /\ plan' = plan
    BY <1>6 DEF StepOf, LiveIInv, LiveTyped
  <1>8. ASSUME NEW l \in ImpactKeys PROVE View(j, l)' = View(j, l)
    BY <1>5, <1>6, ViewAfter DEF View
  <1>9. ASSUME Undisturbed(j) PROVE Undisturbed(j)'
    <2> DEFINE f == forecasts[jobs[j].version]
    <2>1. J.stale \intersect Observed(jobs[j].seen, jobs[j].fresh, f) = {}
      BY <1>5 DEF Stale
    <2>2. ASSUME NEW l \in ImpactKeys, l[1][1] \in jobs[j].fresh, plan[l[2]] # Gone
          PROVE  Done(J, View(j, l)', l, f)
      <3>1. Done(jobs[j], View(j, l), l, f)
        BY <1>1, <1>9, <2>2 DEF Undisturbed
      <3>2. jobs[j].stage = "writing" => l[1][1] \in jobs[j].scopes
        BY <1>1, <2>2 DEF CarriesSound
      <3>3. l[1][1] \in jobs[j].scopes /\ l \notin Observed(jobs[j].seen, jobs[j].fresh, f) =>
              l[1][1] \in J.scopes \/ l \in J.stale \/ View(j, l).state # "active"
        BY <1>5 DEF Stale
      <3> QED
        BY <1>1, <1>5, <1>8, <3>1, <3>2, <3>3 DEF Done
    <2> QED
      BY <1>5, <1>7, <2>1, <2>2 DEF Undisturbed
  <1>10. J.alone => jobs[j].alone /\ J.stage \notin {"queued", "ended", "dead"} /\ Undisturbed(j)'
    BY <1>5, <1>9 DEF LoneInv
  <1>11. Running(j)
    BY <1>1 DEF Running
  <1> QED
    BY <1>5, <1>6, <1>10, <1>11, LoneStep

\* A row that is resolved was not observed.
LEMMA ResolveRowLone ==
  ASSUME LiveIInv, LoneInv, NEW j \in Jobs, ResolveRow(j)
  PROVE  LoneInv'
  <1>1. jobs[j] \in Refreshes /\ CarriesSound(jobs[j], forecasts)
    BY DEF LiveIInv, LiveTyped
  <1>2. PICK k \in jobs[j].stale :
          jobs' = [jobs EXCEPT ![j].stale = @ \ {k},
            ![j].writes = IF View(j, k).state # "active" THEN @
                          ELSE Written(@, k, [View(j, k) EXCEPT !.state = "resolved"])]
    BY DEF ResolveRow
  <1>3. jobs[j].stage = "resolving" /\ k \in ImpactKeys
    BY <1>1, <1>2 DEF CarriesSound, Refreshes
  <1>4. View(j, k) \in ImpactRows
    BY <1>3, ViewRests
  <1>5. PICK row : row = [View(j, k) EXCEPT !.state = "resolved"]
    OBVIOUS
  <1>6. row \in ImpactRows /\ row.state = "resolved"
    BY <1>4, <1>5 DEF ImpactRows
  <1>7. PICK w : w = IF View(j, k).state # "active" THEN jobs[j].writes
        ELSE Written(jobs[j].writes, k, row)
    OBVIOUS
  <1>8. jobs[j].writes \in WriteSets
    BY <1>1 DEF Refreshes
  <1>9. w \in WriteSets
    <2>1. CASE w = jobs[j].writes
      BY <1>8, <2>1
    <2>2. CASE w = Written(jobs[j].writes, k, row)
      <3>1. row \in ImpactRows
        BY <1>6
      <3> QED
        BY ONLY <1>3, <3>1, <1>8, <2>2, WriteAdded
    <2> QED
      BY <1>7, <2>1, <2>2
  <1>10. PICK J : J = [jobs[j] EXCEPT !.stale = @ \ {k}, !.writes = w]
    OBVIOUS
  <1>11. StepOf(j, J)
    BY <1>2, <1>5, <1>7, <1>10 DEF StepOf, ResolveRow
  <1>12. /\ J \in Refreshes /\ J.writes = w /\ J.todo = jobs[j].todo /\ J.stage = "resolving"
         /\ J.seen = jobs[j].seen /\ J.version = jobs[j].version /\ J.fresh = jobs[j].fresh
         /\ J.scopes = jobs[j].scopes /\ J.stale = jobs[j].stale \ {k} /\ J.alone = jobs[j].alone
    BY <1>1, <1>3, <1>9, <1>10 DEF Refreshes
  <1>13. ASSUME NEW l \in ImpactKeys
         PROVE  IF l = k THEN View(j, l)'.state # "active"
                ELSE View(j, l)' = View(j, l) /\ (l \in DOMAIN w <=> l \in DOMAIN jobs[j].writes)
    <2>1. View(j, l)' = IF l \in DOMAIN w THEN w[l] ELSE impacts[l]
      BY <1>11, <1>12, ViewAfter
    <2>2. CASE View(j, k).state # "active"
      BY <1>7, <2>1, <2>2 DEF View
    <2>3. CASE View(j, k).state = "active"
      <3>1. w = Written(jobs[j].writes, k, row)
        BY <1>7, <2>3
      <3> QED
        BY <1>6, <2>1, <3>1 DEF View, Written
    <2> QED
      BY <2>2, <2>3
  <1>14. jobs'[j] = J /\ forecasts' = forecasts /\ plan' = plan
    BY <1>11 DEF StepOf, LiveIInv, LiveTyped
  <1>15. ASSUME Undisturbed(j) PROVE Undisturbed(j)'
    <2> DEFINE f == forecasts[jobs[j].version]
    <2>1. jobs[j].stale \intersect Observed(jobs[j].seen, jobs[j].fresh, f) = {}
      BY <1>3, <1>15 DEF Undisturbed, InTransaction
    <2>2. k \notin Observed(jobs[j].seen, jobs[j].fresh, f)
          /\ k \notin Impacts(jobs[j].seen, jobs[j].fresh, f)
      BY <1>2, <2>1 DEF Observed, Impacts
    <2>3. ASSUME NEW l \in ImpactKeys, l[1][1] \in jobs[j].fresh, plan[l[2]] # Gone
          PROVE  Done(J, View(j, l)', l, f)
      <3>1. Done(jobs[j], View(j, l), l, f)
        BY <1>3, <1>15, <2>3 DEF Undisturbed, InTransaction
      <3>2. CASE l = k
        BY <1>12, <1>13, <2>2, <3>2 DEF Done
      <3>3. CASE l # k
        BY <1>3, <1>12, <1>13, <3>1, <3>3 DEF Done
      <3> QED
        BY <3>2, <3>3
    <2> QED
      BY <1>12, <1>14, <2>1, <2>3 DEF Undisturbed
  <1>16. J.alone => jobs[j].alone /\ J.stage \notin {"queued", "ended", "dead"} /\ Undisturbed(j)'
    BY <1>12, <1>15 DEF LoneInv
  <1>17. Running(j)
    BY <1>3 DEF Running
  <1> QED
    BY <1>11, <1>12, <1>16, <1>17, LoneStep

\* A job that failed is no longer alone.
LEMMA FailLone ==
  ASSUME LiveIInv, LoneInv, NEW j \in Jobs, Fail(j)
  PROVE  LoneInv'
  <1>1. Running(j)
    <2>1. CASE Deadlocked(j)
      <3>1. PICK W \in SUBSET Jobs : W = {w \in Jobs : \E i \in Jobs : WaitsFor(i, w)}
        OBVIOUS
      <3>2. \A i \in W \union {j}, w \in Jobs : WaitsFor(i, w) => w \in W
        BY <3>1
      <3>3. j \in W
        BY <2>1, <3>2 DEF Deadlocked
      <3>4. PICK i \in Jobs : WaitsFor(i, j)
        BY <3>1, <3>3
      <3>5. DOMAIN jobs[j].writes # {}
        BY <3>4 DEF WaitsFor
      <3> QED
        BY <3>5 DEF LiveIInv, CarriesSound, Running
    <2>2. CASE jobs[j].stage = "writing"
      BY <2>2 DEF Running
    <2> QED
      BY <2>1, <2>2 DEF Fail, Doomed
  <1>2. PICK J : J = IF jobs[j].attempt < JobAttempts
                     THEN [Queued EXCEPT !.attempt = jobs[j].attempt] ELSE Dead
    OBVIOUS
  <1>3. StepOf(j, J)
    BY <1>2 DEF Fail, StepOf
  <1>4. J \in Refreshes /\ ~J.alone
    <2>1. jobs[j].attempt \in Nat
      BY DEF LiveIInv, LiveTyped, Refreshes
    <2>2. J = [Queued EXCEPT !.attempt = jobs[j].attempt] \/ J = Dead
      BY <1>2
    <2> QED
      BY <2>1, <2>2, QueuedTyped DEF Refreshes, Queued
  <1> QED
    BY <1>1, <1>3, <1>4, LoneStep

\* Who commits while another job was alone is that job.
LEMMA CommitLone ==
  ASSUME LiveIInv, LoneInv, NEW j \in Jobs, Commit(j)
  PROVE  LoneInv'
  <1>1. jobs' = [jobs EXCEPT ![j] = Ended] /\ Running(j)
    BY DEF Commit, InTransaction, Running
  <1>2. jobs'[j] = Ended /\ \A i \in Jobs \ {j} : jobs'[i] = jobs[i]
    BY <1>1 DEF LiveIInv, LiveTyped
  <1>3. ASSUME NEW h \in Jobs, jobs'[h].alone PROVE FALSE
    BY <1>1, <1>2, <1>3, QueuedTyped DEF LoneInv
  <1> QED
    BY <1>3 DEF LoneInv

\* A job that starts ends the solitude of the others.
LEMMA ReadTargetsLone ==
  ASSUME LiveIInv, LoneInv, NEW j \in Jobs, ReadTargets(j)
  PROVE  LoneInv'
  <1>1. jobs[j].stage = "queued" /\ UNCHANGED <<plan, edits, forecasts, impacts>>
    BY DEF ReadTargets
  <1>2. CASE jobs' = [jobs EXCEPT ![j] = Ended]
    <2>1. jobs'[j] = Ended /\ \A i \in Jobs \ {j} : jobs'[i] = jobs[i]
      BY <1>2 DEF LiveIInv, LiveTyped
    <2>2. ASSUME NEW h \in Jobs, jobs'[h].alone
          PROVE  Running(h)' /\ Undisturbed(h)' /\ \A i \in Jobs \ {h} : ~Running(i)'
      <3>1. h # j /\ jobs[h].alone /\ jobs'[h] = jobs[h]
        BY <2>1, <2>2, QueuedTyped
      <3>2. Running(h) /\ Undisturbed(h) /\ \A i \in Jobs \ {h} : ~Running(i)
        BY <3>1 DEF LoneInv
      <3>3. Undisturbed(h)'
        BY <1>1, <3>1, <3>2 DEF Undisturbed, InTransaction, View
      <3>4. \A i \in Jobs \ {h} : ~Running(i)'
        BY <2>1, <3>2, QueuedTyped DEF Running
      <3> QED
        BY <3>1, <3>2, <3>3, <3>4 DEF Running
    <2> QED
      BY <2>2 DEF LoneInv
  <1>3. CASE jobs' # [jobs EXCEPT ![j] = Ended]
    <2>1. PICK b \in BOOLEAN : b = (\A i \in Jobs : ~Running(i))
      OBVIOUS
    <2>2. PICK J : J = [Queued EXCEPT !.stage = "asking", !.attempt = jobs[j].attempt + 1,
          !.seen = plan, !.at = Len(forecasts), !.alone = b]
      OBVIOUS
    <2>3. jobs' = [[i \in Jobs |-> [jobs[i] EXCEPT !.alone = FALSE]] EXCEPT ![j] = J]
      BY <1>3, <2>1, <2>2 DEF ReadTargets
    <2>4. jobs'[j] = J /\ \A i \in Jobs \ {j} : jobs'[i] = [jobs[i] EXCEPT !.alone = FALSE]
      BY <2>3
    <2>5. \A i \in Jobs \ {j} : ~jobs'[i].alone /\ jobs'[i].stage = jobs[i].stage
      BY <2>4 DEF LiveIInv, LiveTyped, Refreshes
    <2>6. J.stage = "asking" /\ J.alone = b
      BY <2>2 DEF Queued
    <2>7. ASSUME NEW h \in Jobs, jobs'[h].alone
          PROVE  Running(h)' /\ Undisturbed(h)' /\ \A i \in Jobs \ {h} : ~Running(i)'
      <3>1. h = j
        BY <2>5, <2>7
      <3>2. \A i \in Jobs : ~Running(i)
        BY <2>1, <2>4, <2>6, <2>7, <3>1
      <3> QED
        BY <2>4, <2>5, <2>6, <3>1, <3>2 DEF Running, Undisturbed, InTransaction
    <2> QED
      BY <2>7 DEF LoneInv
  <1> QED
    BY <1>2, <1>3

\* A new forecast is not the one a refresh has read.
LEMMA PublishLone ==
  ASSUME LiveIInv, LoneInv, NEW f \in Weathers, Publish(f)
  PROVE  LoneInv'
  <1>1. forecasts' = Append(forecasts, f) /\ UNCHANGED <<plan, edits, impacts, jobs>>
    BY DEF Publish
  <1>2. \A n \in 1 .. Len(forecasts) : forecasts'[n] = forecasts[n]
    BY <1>1 DEF LiveIInv, LiveTyped
  <1>3. ASSUME NEW h \in Jobs, jobs[h].alone
        PROVE  Undisturbed(h)'
    <2>1. Undisturbed(h) /\ CarriesSound(jobs[h], forecasts)
      BY <1>3 DEF LoneInv, LiveIInv
    <2>2. InTransaction(h) => forecasts'[jobs[h].version] = forecasts[jobs[h].version]
      BY <1>2, <2>1 DEF CarriesSound, InTransaction
    <2> QED
      BY <1>1, <2>1, <2>2 DEF Undisturbed, InTransaction, View
  <1> QED
    BY <1>1, <1>3 DEF LoneInv, Running

\* A deleted item takes its rows with it; what concerns the others stays.
LEMMA EditLone ==
  ASSUME LiveIInv, LoneInv, NEW i \in Items, NEW s \in Slots \union {Off, Gone}, Edit(i, s)
  PROVE  LoneInv'
  <1>1. plan' = [plan EXCEPT ![i] = s] /\ plan[i] # Gone /\ UNCHANGED <<forecasts, jobs>>
    BY DEF Edit
  <1>2. ASSUME NEW k \in ImpactKeys, plan'[k[2]] # Gone
        PROVE  plan[k[2]] # Gone /\ impacts'[k] = impacts[k]
    <2>1. k[2] \in Items /\ plan \in [Items -> Slots \union {Off, Gone}]
      BY DEF ImpactKeys, LiveIInv, LiveTyped
    <2>2. CASE k[2] = i
      BY <1>1, <1>2, <2>1, <2>2 DEF Edit
    <2>3. CASE k[2] # i
      BY <1>1, <1>2, <2>1, <2>3 DEF Edit
    <2> QED
      BY <2>2, <2>3
  <1>3. ASSUME NEW h \in Jobs, jobs[h].alone
        PROVE  Undisturbed(h)'
    <2>1. Undisturbed(h)
      BY <1>3 DEF LoneInv
    <2> QED
      BY <1>1, <1>2, <2>1 DEF Undisturbed, InTransaction, View
  <1> QED
    BY <1>1, <1>3 DEF LoneInv, Running

\* Every step keeps what a lone refresh relies on.
LEMMA LoneKept == LiveIInv /\ LoneInv /\ [LiveNext]_liveVars => LoneInv'
  <1> SUFFICES ASSUME LiveIInv, LoneInv, [LiveNext]_liveVars PROVE LoneInv'
    OBVIOUS
  <1>1. ASSUME NEW j \in Jobs, Works(j) PROVE LoneInv'
    BY <1>1, ReadTargetsLone, RefreshLone, UpsertLone, ResolveScopeLone, ResolveRowLone, CommitLone,
       FailLone DEF Works
  <1>2. CASE UNCHANGED liveVars
    <2>1. UNCHANGED <<plan, edits, forecasts, impacts, jobs>>
      BY <1>2 DEF liveVars
    <2> QED
      BY <2>1 DEF LoneInv, Running, Undisturbed, InTransaction, View
  <1> QED
    BY <1>1, <1>2, PublishLone, EditLone DEF LiveNext

\* Only a commit ends a job that is in its transaction.
LEMMA EndsByCommit ==
  ASSUME LiveIInv, LiveNext, NEW j \in Jobs, Commits(j)
  PROVE  Commit(j)
  <1>1. InTransaction(j) /\ jobs'[j].stage = "ended" /\ jobs \in [Jobs -> Refreshes]
    BY DEF Commits, LiveIInv, LiveTyped
  <1>2. ASSUME NEW i \in Jobs, NEW J, jobs' = [jobs EXCEPT ![i] = J], J.stage # "ended" PROVE FALSE
    BY <1>1, <1>2 DEF InTransaction
  <1>3. ASSUME NEW i \in Jobs, i # j, NEW J, jobs' = [jobs EXCEPT ![i] = J] PROVE FALSE
    BY <1>1, <1>3 DEF InTransaction
  <1>4. ~(jobs' = jobs)
    BY <1>1 DEF InTransaction
  <1>5. ASSUME NEW i \in Jobs PROVE ~ReadTargets(i)
    <2> SUFFICES ASSUME ReadTargets(i) PROVE FALSE
      OBVIOUS
    <2>1. i # j
      BY <1>1 DEF ReadTargets, InTransaction
    <2>2. jobs'[j].stage = jobs[j].stage
      <3>1. CASE jobs' = [jobs EXCEPT ![i] = Ended]
        BY <2>1, <3>1
      <3>2. CASE jobs' # [jobs EXCEPT ![i] = Ended]
        <4>1. PICK J : jobs' = [[h \in Jobs |-> [jobs[h] EXCEPT !.alone = FALSE]] EXCEPT ![i] = J]
          BY <3>2 DEF ReadTargets
        <4>2. jobs'[j] = [jobs[j] EXCEPT !.alone = FALSE] /\ jobs[j] \in Refreshes
          BY <1>1, <2>1, <4>1
        <4> QED
          BY <4>2 DEF Refreshes
      <3> QED
        BY <3>1, <3>2
    <2> QED
      BY <1>1, <2>2 DEF InTransaction
  <1>6. ASSUME NEW i \in Jobs PROVE ~Refresh(i)
    <2> SUFFICES ASSUME Refresh(i) PROVE FALSE
      OBVIOUS
    <2>1. i # j
      BY <1>1 DEF Refresh, InTransaction
    <2>2. jobs'[j] = jobs[j]
      BY <1>1, <2>1 DEF Refresh
    <2> QED
      BY <1>1, <2>2 DEF InTransaction
  <1>7. ASSUME NEW i \in Jobs PROVE ~Upsert(i)
    <2> SUFFICES ASSUME Upsert(i) PROVE FALSE
      OBVIOUS
    <2>1. jobs'[j].stage = jobs[j].stage
      BY <1>1 DEF Upsert, Refreshes
    <2> QED
      BY <1>1, <2>1 DEF InTransaction
  <1>8. ASSUME NEW i \in Jobs PROVE ~ResolveScope(i)
    <2> SUFFICES ASSUME ResolveScope(i) PROVE FALSE
      OBVIOUS
    <2>1. jobs'[j].stage = jobs[j].stage \/ jobs'[j].stage = "resolving"
      BY <1>1 DEF ResolveScope, Refreshes
    <2> QED
      BY <1>1, <2>1 DEF InTransaction
  <1>9. ASSUME NEW i \in Jobs PROVE ~ResolveRow(i)
    <2> SUFFICES ASSUME ResolveRow(i) PROVE FALSE
      OBVIOUS
    <2>1. PICK S, w : jobs' = [jobs EXCEPT ![i] = [jobs[i] EXCEPT !.stale = S, !.writes = w]]
      BY DEF ResolveRow
    <2>2. jobs'[j].stage = jobs[j].stage
      BY <1>1, <2>1 DEF Refreshes
    <2> QED
      BY <1>1, <2>2 DEF InTransaction
  <1>10. ASSUME NEW i \in Jobs PROVE ~Fail(i)
    <2> SUFFICES ASSUME Fail(i) PROVE FALSE
      OBVIOUS
    <2>1. PICK J : J = IF jobs[i].attempt < JobAttempts
                       THEN [Queued EXCEPT !.attempt = jobs[i].attempt] ELSE Dead
      OBVIOUS
    <2>2. J.stage # "ended" /\ jobs' = [jobs EXCEPT ![i] = J]
      BY <2>1, QueuedTyped DEF Fail, Queued
    <2> QED
      BY <1>2, <2>2
  <1>11. ASSUME NEW i \in Jobs, Commit(i) PROVE i = j
    BY <1>3, <1>11 DEF Commit
  <1> QED
    BY <1>4, <1>5, <1>6, <1>7, <1>8, <1>9, <1>10, <1>11 DEF LiveNext, Works, Publish, Edit

\* A refresh that no other one overlaps leaves just the impacts of the forecast
\* it read, and those it was uncertain of.
THEOREM LoneRefreshReplacesHolds == LiveSpec => LoneRefreshReplaces
  <1>1. LiveInit => LoneInv
    BY QueuedTyped DEF LiveInit, LoneInv
  <1>2. ASSUME LiveIInv, LoneInv, LiveNext, NEW j \in Jobs, Commits(j), jobs[j].alone,
               NEW k \in ImpactKeys, k[1][1] \in jobs[j].fresh, plan[k[2]] # Gone
        PROVE  LET J == jobs[j]  f == forecasts[J.version] IN
               impacts'[k].state = "active" <=>
                 J.seen[k[2]] = k[1] /\ IF f.sure THEN k[1] \in f.severe
                   ELSE impacts[k].state = "active"
    <2> DEFINE J == jobs[j]
               f == forecasts[J.version]
    <2>1. Commit(j)
      BY <1>2, EndsByCommit
    <2>2. /\ InTransaction(j) /\ J.todo = {} /\ J.scopes = {} /\ J.stale = {}
          /\ impacts' = [l \in ImpactKeys |-> View(j, l)]
      BY <2>1 DEF Commit
    <2>3. impacts'[k] = View(j, k)
      BY <2>2
    <2>4. J.stage # "writing"
      BY <1>2, <2>2 DEF LiveIInv, CarriesSound
    <2>5. Done(J, View(j, k), k, f)
      BY <1>2, <2>2 DEF LoneInv, Undisturbed
    <2>6. k \in Matches(J.seen, J.fresh) <=> J.seen[k[2]] = k[1]
      BY <1>2 DEF Matches
    <2>7. f \in Weathers /\ f.sure \in BOOLEAN
      BY <1>2, <2>2, LiveAssumption DEF LiveIInv, LiveTyped, CarriesSound, InTransaction
    <2>8. CASE f.sure
      <3>1. k \in Impacts(J.seen, J.fresh, f) <=> J.seen[k[2]] = k[1] /\ k[1] \in f.severe
        BY <2>6, <2>8 DEF Impacts
      <3>2. Observed(J.seen, J.fresh, f) = Impacts(J.seen, J.fresh, f)
        BY <2>8 DEF Observed
      <3>3. k \in Impacts(J.seen, J.fresh, f) <=> View(j, k).state = "active"
        BY <2>2, <2>4, <2>5, <3>2 DEF Done
      <3> QED
        BY <2>3, <2>8, <3>1, <3>3
    <2>9. CASE ~f.sure
      <3>1. Observed(J.seen, J.fresh, f) = Matches(J.seen, J.fresh)
            /\ Impacts(J.seen, J.fresh, f) = {}
        BY <2>9 DEF Observed, Impacts
      <3>2. k \in Matches(J.seen, J.fresh) => View(j, k) = impacts[k]
        BY <2>5, <3>1 DEF Done, View
      <3>3. k \notin Matches(J.seen, J.fresh) => View(j, k).state # "active"
        BY <2>2, <2>4, <2>5, <3>1 DEF Done
      <3> QED
        BY <2>3, <2>6, <2>9, <3>2, <3>3
    <2> QED
      BY <2>7, <2>8, <2>9
  <1>3. LiveIInv /\ LoneInv /\ [LiveNext]_liveVars =>
          [\A j \in Jobs : Commits(j) /\ jobs[j].alone =>
             LET J == jobs[j]  f == forecasts[J.version] IN
               \A k \in ImpactKeys : k[1][1] \in J.fresh /\ plan[k[2]] # Gone =>
                 (impacts'[k].state = "active" <=>
                    J.seen[k[2]] = k[1] /\ IF f.sure THEN k[1] \in f.severe
                      ELSE impacts[k].state = "active")]_liveVars
    BY <1>2
  <1> QED
    BY <1>1, <1>3, InitEstablishesLive, LiveStepKeeps, LoneKept, PTL DEF LiveSpec,
       LoneRefreshReplaces

================================================================================
