----------------------------- MODULE TravelData -----------------------------
(***************************************************************************)
(* The travel-data coordinator (packages/travel-data/src/coordinator.ts)   *)
(* with its circuit breaker (resilience.ts) and its cache (cache.ts), for  *)
(* one operation: a primary provider, fallbacks in order, and callers that *)
(* ask for one of a few inputs.                                            *)
(*                                                                         *)
(* A caller reads the cache, and answers from it or waits for a flight: a  *)
(* `chain' it starts or joins (primary, then fallbacks), or a `refresh'    *)
(* that renews a stale entry in the background.  Flights of one process    *)
(* share the in-flight table, the circuits and the cache.                  *)
(*                                                                         *)
(* An await on the memory cache or on a settled promise takes no time, so  *)
(* the clock moves only while every flight waits for a provider or for its *)
(* back-off; other actors' steps do interleave at those awaits.            *)
(***************************************************************************)
EXTENDS Integers, Sequences, FiniteSets, SequencesExt, FiniteSetsExt

CONSTANTS
  Callers,           \* requests, each with its own id and abort signal
  Inputs,            \* normalized inputs: one cache key per provider and input
  Primary,           \* the operation's primary provider
  Fallbacks,         \* its fallback chain, in order
  FallbackOn,        \* the failures that permit a fallback (fallback.triggers)
  Uncovered,         \* cache keys the provider's supports() turns down
  RetryRateLimits,   \* the policy's retryRateLimits
  MaxAttempts, FailureThreshold, OpenFor, FreshFor, StaleFor,
  MaxTime,           \* bound of the clock
  None

Providers == {Primary} \cup Range(Fallbacks)
Keys == Providers \X Inputs
Flights == Callers \X {"chain", "refresh"}
Times == 0 .. (MaxTime + FreshFor + StaleFor)
Entry == [staleAt : Times, expiresAt : Times]

ASSUME PoliciesAreValid ==
  /\ {MaxAttempts, FailureThreshold, OpenFor, FreshFor} \subseteq Nat \ {0}
  /\ StaleFor \in Nat /\ MaxTime \in Nat
  /\ Fallbacks \in Seq(Providers \ {Primary})
ASSUME NoneAssumption ==
  /\ None \notin Nat /\ None \notin Entry /\ None \notin Keys /\ None \notin Flights
  /\ None \notin {"success", "stale"}

VARIABLES
  now,       \* the clock
  cache,     \* cache[provider, input]: the entry kept, or None
  circuit,   \* circuit[provider]: failures, half-open permit, time of opening
  inFlight,  \* inFlight[provider, input]: the flight registered, or None
  call,      \* call[c]: where caller c is and what it was answered
  flight     \* flight[f]: the network work of a caller

vars == <<now, cache, circuit, inFlight, call, flight>>

-----------------------------------------------------------------------------
(* Values, results and the state they move through.                        *)

\* How a failed attempt is normalized: what the coordinator tells apart.
Unavailable == {"unavailable"}                   \* down or timed out: retryable
Invalid == {"invalid_response"}                  \* malformed, or expired
Refused == {"not_found", "unsupported"}          \* the provider answers: no
Limited == {"rate_limited"}
AttemptFailures == Unavailable \cup Invalid \cup Refused \cup Limited \cup {"cancelled"}
Failures == AttemptFailures \cup {"circuit_open", "no_safe_fallback"}

NoEntry == [staleAt |-> 0, expiresAt |-> 0]

\* What a caller is answered; an entry goes with a value.
Result == [status : {"success", "stale"} \cup Failures \cup {None}, provider : Providers, entry : Entry]
NoResult == [status |-> None, provider |-> Primary, entry |-> NoEntry]
Failure(kind, p) == [status |-> kind, provider |-> p, entry |-> NoEntry]
Succeeded(r) == r.status \in {"success", "stale"}

\* A call: new, then it has seen the cache, waits on a flight or is answered; for
\* a caller that has seen the cache, `result' is what it found there.
CallStates == {"new", "seen", "waiting", "answered"}
NewCall == [state |-> "new", input |-> None, on |-> None, aborted |-> FALSE, result |-> NoResult]

\* A flight is registered under `key' and works with `provider', the fallback
\* number `fallback' or, for 0, the provider of its key; `since' is when the
\* circuit admitted it, `deaf' says its caller had gone before the attempt began.
FlightStates == {"none", "calling", "sleeping", "writing", "falling", "candidate", "ending"}
NoFlight == [state |-> "none", key |-> None, provider |-> Primary, fallback |-> 0,
             attempts |-> 0, since |-> 0, deaf |-> FALSE, result |-> NoResult]
Closed == [failures |-> 0, halfOpen |-> FALSE, openedAt |-> None]

Init ==
  /\ now = 0
  /\ cache \in [Keys -> {None, [staleAt |-> FreshFor, expiresAt |-> FreshFor + StaleFor]}]
  /\ \A k \in Uncovered : cache[k] = None
  /\ \E n \in 0 .. FailureThreshold - 1 : circuit = [p \in Providers |-> [Closed EXCEPT !.failures = n]]
  /\ inFlight = [k \in Keys |-> None]
  /\ call = [c \in Callers |-> NewCall]
  /\ flight = [f \in Flights |-> NoFlight]

-----------------------------------------------------------------------------
(* The circuit breaker.                                                    *)

\* acquire: closed, or open long enough with no probe in flight.
Admitted(p) ==
  \/ circuit[p].openedAt = None
  \/ now - circuit[p].openedAt >= OpenFor /\ ~circuit[p].halfOpen
Acquired(p) ==
  IF circuit[p].openedAt = None THEN circuit[p] ELSE [circuit[p] EXCEPT !.halfOpen = TRUE]

Broken(p) ==
  LET failures == Min({circuit[p].failures + 1, FailureThreshold})
  IN [failures |-> failures, halfOpen |-> FALSE,
      openedAt |-> IF circuit[p].openedAt # None \/ failures >= FailureThreshold
                   THEN now ELSE None]

\* Mutant: an answer that is neither a success nor a circuit failure goes unreported.
Unreported(p, kind) ==
  IF kind \in Unavailable \cup Invalid THEN Broken(p)
  ELSE IF kind = "success" THEN Closed ELSE circuit[p]
\* finishFailure: what the circuit is told when a fetch ends.
Concluded(p, kind) ==
  IF kind \in Unavailable \cup Invalid THEN Broken(p) ELSE Closed

-----------------------------------------------------------------------------
(* Flights.                                                                *)

Aborted(f) == call[f[1]].aborted
Working(f) == flight[f].state \in {"calling", "sleeping"}
Active(f) == flight[f].state # "none"

\* The fetch is over with result r.  A chain falls back where its policy permits
\* it, and offers what a fallback delivers for acceptance; anything else ends.
FetchOver(f, fl, r) ==
  LET falls == f[2] = "chain" /\ ~Succeeded(r) /\ (fl.fallback > 0 \/ r.status \in FallbackOn)
  IN [fl EXCEPT !.result = r, !.attempts = 0, !.since = 0, !.deaf = FALSE,
        !.state = IF falls THEN "falling"
                  ELSE IF fl.fallback > 0 THEN "candidate" ELSE "ending",
        !.fallback = IF falls THEN @ + 1 ELSE @]

\* fetchProvider up to the first await: coverage, circuit, first attempt.
Fetching(f, fl, p) ==
  LET next == [fl EXCEPT !.provider = p]
  IN IF <<p, fl.key[2]>> \in Uncovered THEN FetchOver(f, next, Failure("unsupported", p))
     ELSE IF ~Admitted(p) THEN FetchOver(f, next, Failure("circuit_open", p))
     ELSE [next EXCEPT !.state = "calling", !.attempts = 1, !.since = now, !.deaf = Aborted(f)]
CircuitAfter(p, i) ==
  IF <<p, i>> \notin Uncovered /\ Admitted(p) THEN [circuit EXCEPT ![p] = Acquired(p)] ELSE circuit

\* Registers flight f under `key' and starts it.
Depart(f, key) ==
  /\ flight' = [flight EXCEPT ![f] = Fetching(f, [NoFlight EXCEPT !.key = key], key[1])]
  /\ circuit' = CircuitAfter(key[1], key[2])
  /\ inFlight' = [inFlight EXCEPT ![key] = f]

\* createFreshness: the policy's window, cut short by the expiry of the source.
Freshness(source) ==
  LET expires == Min({now + FreshFor + StaleFor, source})
  IN [staleAt |-> Min({now + FreshFor, expires}), expiresAt |-> expires]

\* The provider answers with a value, valid until its source expires.
Answered(f) ==
  /\ flight[f].state = "calling"
  /\ \E source \in {now, now + FreshFor, now + FreshFor + StaleFor} :
       LET p == flight[f].provider
           entry == Freshness(source)
       IN IF entry.expiresAt <= now
          THEN /\ flight' = [flight EXCEPT ![f] = FetchOver(f, @, Failure("invalid_response", p))]
               /\ circuit' = [circuit EXCEPT ![p] = Concluded(p, "invalid_response")]
          ELSE /\ flight' = [flight EXCEPT ![f].state = "writing",
                   ![f].result = [status |-> "success", provider |-> p, entry |-> entry]]
               /\ circuit' = [circuit EXCEPT ![p] = Concluded(p, "success")]
  /\ UNCHANGED <<now, cache, inFlight, call>>

\* writeCache, where the sources' terms permit it.
Write(f) ==
  /\ flight[f].state = "writing"
  /\ LET fl == flight[f]
     IN /\ \E permitted \in BOOLEAN :
             cache' = IF permitted THEN [cache EXCEPT ![<<fl.provider, fl.key[2]>>] = fl.result.entry] ELSE cache
        /\ flight' = [flight EXCEPT ![f] = FetchOver(f, fl, fl.result)]
  /\ UNCHANGED <<now, circuit, inFlight, call>>

Retryable(kind) == kind \in Unavailable \cup Invalid \/ (kind \in Limited /\ RetryRateLimits)

\* An attempt that failed is given up: finishFailure.
GiveUp(f, kind) ==
  LET p == flight[f].provider
  IN /\ flight' = [flight EXCEPT ![f] = FetchOver(f, @, Failure(kind, p))]
     /\ circuit' = [circuit EXCEPT ![p] = Concluded(p, kind)]
     /\ UNCHANGED <<now, cache, inFlight, call>>

\* The attempt fails for good: nothing to retry, no attempt left, or a retry-after
\* longer than the policy waits.
Fails(f, kind) ==
  /\ flight[f].state = "calling"
  /\ GiveUp(f, kind)

\* The attempt fails and is retried after a back-off; a caller that has gone ends
\* it there, and the circuit is not told.
BacksOff(f, kind) ==
  /\ flight[f].state = "calling"
  /\ Retryable(kind) /\ flight[f].attempts < MaxAttempts
  /\ flight' = IF Aborted(f)
               THEN [flight EXCEPT ![f] = FetchOver(f, @, Failure("cancelled", @.provider))]
               ELSE [flight EXCEPT ![f].state = "sleeping"]
  /\ UNCHANGED <<now, cache, circuit, inFlight, call>>

Retry(f) ==
  /\ flight[f].state = "sleeping"
  /\ flight' = [flight EXCEPT ![f].state = "calling", ![f].attempts = @ + 1]
  /\ UNCHANGED <<now, cache, circuit, inFlight, call>>

\* Mutant: an entry is current until after its stale time.
StateOfLate(e) == IF e.staleAt < now THEN "stale" ELSE "success"
StateOf(e) == IF e.staleAt <= now THEN "stale" ELSE "success"
Held(k) == cache[k] # None /\ cache[k].expiresAt > now
FromCache(k) == [status |-> StateOf(cache[k]), provider |-> k[1], entry |-> cache[k]]
\* readCache drops an entry past its expiry.
Dropped(k) == IF Held(k) THEN cache ELSE [cache EXCEPT ![k] = None]

\* The chain turns to its next fallback: none is left, its caller has gone, the
\* fallback's cache has an entry, or the fallback is fetched.
FallBack(f) ==
  LET fl == flight[f]
      out == fl.fallback > Len(Fallbacks)
      p == Fallbacks[fl.fallback]
      k == <<p, fl.key[2]>>
      ends(r) == /\ flight' = [flight EXCEPT ![f].state = "ending", ![f].result = r]
                 /\ UNCHANGED <<cache, circuit>>
  IN /\ fl.state = "falling"
     /\ \/ out /\ ends(Failure("no_safe_fallback", fl.key[1]))
        \/ ~out /\ Aborted(f) /\ ends(Failure("cancelled", p))
        \/ /\ ~out /\ ~Aborted(f) /\ Held(k)
           /\ flight' = [flight EXCEPT ![f].state = "candidate", ![f].result = FromCache(k)]
           /\ UNCHANGED <<cache, circuit>>
        \/ /\ ~out /\ ~Aborted(f) /\ ~Held(k)
           /\ cache' = Dropped(k)
           /\ flight' = [flight EXCEPT ![f] = Fetching(f, fl, p)]
           /\ circuit' = CircuitAfter(p, fl.key[2])
     /\ UNCHANGED <<now, inFlight, call>>

\* The policy accepts the candidate or not; a stale one is renewed meanwhile.
Reject(f) ==
  /\ flight[f].state = "candidate"
  /\ flight' = [flight EXCEPT ![f].state = "falling", ![f].fallback = @ + 1]
  /\ UNCHANGED <<now, cache, circuit, inFlight, call>>

Renewal(f) == <<f[1], "refresh">>
Accept(f) ==
  LET r == flight[f].result
      k == <<r.provider, flight[f].key[2]>>
      ended == [flight EXCEPT ![f].state = "ending"]
  IN /\ flight[f].state = "candidate"
     /\ IF r.status = "stale" /\ inFlight[k] = None
        THEN /\ flight' = [ended EXCEPT ![Renewal(f)] =
                             Fetching(Renewal(f), [NoFlight EXCEPT !.key = k], k[1])]
             /\ circuit' = CircuitAfter(k[1], k[2])
             /\ inFlight' = [inFlight EXCEPT ![k] = Renewal(f)]
        ELSE flight' = ended /\ UNCHANGED <<circuit, inFlight>>
     /\ UNCHANGED <<now, cache, call>>

\* Mutant: only the caller that started the flight is answered.
LandForOne(f) ==
  /\ flight[f].state = "ending"
  /\ inFlight' = [inFlight EXCEPT ![flight[f].key] = None]
  /\ call' = IF call[f[1]].state # "waiting" THEN call
             ELSE [call EXCEPT ![f[1]].state = "answered", ![f[1]].on = None, ![f[1]].result = flight[f].result]
  /\ flight' = [flight EXCEPT ![f] = NoFlight]
  /\ UNCHANGED <<now, cache, circuit>>

\* The flight settles: its entry goes from the table, and its callers resume.
Land(f) ==
  /\ flight[f].state = "ending"
  /\ inFlight' = [inFlight EXCEPT ![flight[f].key] = None]
  /\ call' = [c \in Callers |->
       IF call[c].state = "waiting" /\ call[c].on = f
       THEN [call[c] EXCEPT !.state = "answered", !.on = None, !.result = flight[f].result]
       ELSE call[c]]
  /\ flight' = [flight EXCEPT ![f] = NoFlight]
  /\ UNCHANGED <<now, cache, circuit>>

-----------------------------------------------------------------------------
(* Callers.                                                                *)

\* execute, up to the answer of the cache.
Ask(c, i) ==
  LET k == <<Primary, i>>
  IN /\ call[c].state = "new"
     /\ IF call[c].aborted
        THEN /\ call' = [call EXCEPT ![c].state = "answered", ![c].input = i,
                                     ![c].result = Failure("cancelled", Primary)]
             /\ UNCHANGED cache
        ELSE /\ call' = [call EXCEPT ![c].state = "seen", ![c].input = i, ![c].result =
                   IF Held(k) THEN FromCache(k) ELSE NoResult]
             /\ cache' = Dropped(k)
     /\ UNCHANGED <<now, circuit, inFlight, flight>>

\* It answers from the cache; a stale entry is renewed in the background unless a
\* flight for it is under way.
AnswerFromCache(c) ==
  LET k == <<Primary, call[c].input>>
  IN /\ call[c].state = "seen" /\ Succeeded(call[c].result)
     /\ call' = [call EXCEPT ![c].state = "answered"]
     /\ IF call[c].result.status = "stale" /\ inFlight[k] = None
        THEN Depart(<<c, "refresh">>, k)
        ELSE UNCHANGED <<circuit, inFlight, flight>>
     /\ UNCHANGED <<now, cache>>

\* Mutant: a caller starts a flight of its own.
FlyAlone(c) ==
  LET k == <<Primary, call[c].input>>
  IN /\ call[c].state = "seen" /\ ~Succeeded(call[c].result)
     /\ call' = [call EXCEPT ![c].state = "waiting", ![c].on = <<c, "chain">>]
     /\ Depart(<<c, "chain">>, k)
     /\ UNCHANGED <<now, cache>>

\* singleFlight: it joins the flight under way for its key, or starts one.
Fly(c) ==
  LET k == <<Primary, call[c].input>>
  IN /\ call[c].state = "seen" /\ ~Succeeded(call[c].result)
     /\ IF inFlight[k] # None
        THEN /\ call' = [call EXCEPT ![c].state = "waiting", ![c].on = inFlight[k]]
             /\ UNCHANGED <<circuit, inFlight, flight>>
        ELSE /\ call' = [call EXCEPT ![c].state = "waiting", ![c].on = <<c, "chain">>]
             /\ Depart(<<c, "chain">>, k)
     /\ UNCHANGED <<now, cache>>

\* A caller's signal aborts: the attempt of a flight it started ends as cancelled,
\* and so does its back-off, of which the circuit is not told.  A later attempt, or
\* one that began after the abort, does not hear it.
Hears(f) == flight[f].state = "calling" /\ ~flight[f].deaf
Abort(c) ==
  LET ended(f) == FetchOver(f, flight[f], Failure("cancelled", flight[f].provider))
      mine == {f \in Flights : f[1] = c}
  IN /\ ~call[c].aborted
     /\ call[c].state # "answered" \/ \E f \in mine : Active(f)
     /\ call' = [call EXCEPT ![c].aborted = TRUE]
     /\ flight' = [f \in Flights |->
          IF f \in mine /\ (Hears(f) \/ flight[f].state = "sleeping") THEN ended(f) ELSE flight[f]]
     /\ circuit' = [p \in Providers |->
          IF \E f \in mine : Hears(f) /\ flight[f].provider = p THEN Concluded(p, "cancelled") ELSE circuit[p]]
     /\ UNCHANGED <<now, cache, inFlight>>

\* Time passes while every flight waits for a provider or for its back-off.
Tick ==
  /\ now < MaxTime
  /\ \A c \in Callers : call[c].state # "seen"
  /\ \A f \in Flights : Active(f) => Working(f)
  /\ now' = now + 1
  /\ UNCHANGED <<cache, circuit, inFlight, call, flight>>

FlightStep(f) ==
  \/ Answered(f)
  \/ \E kind \in AttemptFailures \ {"cancelled", "unsupported"} : Fails(f, kind) \/ BacksOff(f, kind)
  \/ Write(f) \/ Retry(f) \/ FallBack(f) \/ Accept(f) \/ Reject(f) \/ Land(f)
CallStep(c) == AnswerFromCache(c) \/ Fly(c)

Next ==
  \/ \E f \in Flights : FlightStep(f)
  \/ \E c \in Callers : CallStep(c) \/ Abort(c) \/ \E i \in Inputs : Ask(c, i)
  \/ Tick

Spec == Init /\ [][Next]_vars

\* A timeout ends every attempt and a timer every back-off; awaited steps resume.
\* (A flight takes finitely many steps, so none is starved by the others.)
FairSpec == Spec /\ WF_vars((\E f \in Flights : FlightStep(f)) \/ (\E c \in Callers : CallStep(c)))

-----------------------------------------------------------------------------
(* Properties.                                                             *)

TypeOK ==
  /\ now \in 0 .. MaxTime
  /\ cache \in [Keys -> Entry \cup {None}]
  /\ circuit \in [Providers -> [failures : 0 .. FailureThreshold, halfOpen : BOOLEAN,
                                openedAt : (0 .. MaxTime) \cup {None}]]
  /\ inFlight \in [Keys -> Flights \cup {None}]
  /\ call \in [Callers -> [state : CallStates, input : Inputs \cup {None}, on : Flights \cup {None},
                           aborted : BOOLEAN, result : Result]]
  /\ flight \in [Flights -> [state : FlightStates, key : Keys \cup {None}, provider : Providers,
                             fallback : 0 .. Len(Fallbacks) + 1, attempts : 0 .. MaxAttempts,
                             since : 0 .. MaxTime, deaf : BOOLEAN, result : Result]]

\* The table and the flights agree: a flight is registered under its key until it
\* lands, so the primary provider is asked for an input by one flight at a time, and
\* a caller never waits on a flight that has gone (coordinator.ts:634-686).
OneFlightPerKey ==
  /\ \A k \in Keys, f \in Flights : inFlight[k] = f <=> (Active(f) /\ flight[f].key = k)
  /\ \A c \in Callers : call[c].state = "waiting" => Active(call[c].on)

\* The circuit admits one flight at a time once it has been open for its term: of the
\* flights admitted since then at most one is under way, and it holds the permit
\* (resilience.ts:25-52).
ProbesAlone ==
  \A p \in Providers : circuit[p].openedAt # None =>
    LET probes == {f \in Flights : Working(f) /\ flight[f].provider = p
                                   /\ flight[f].since >= circuit[p].openedAt + OpenFor}
    IN Cardinality(probes) <= 1 /\ (probes # {} => circuit[p].halfOpen)

\* The table of flights and the circuits, under every interleaving of callers,
\* answers, retries and aborts: one flight per key, one probe per open circuit.
FlightsAreSound == TypeOK /\ OneFlightPerKey /\ ProbesAlone

\* What a caller is answered as current is current at that time, and what it is
\* answered as stale has not expired, whichever provider, cache entry or flight it
\* comes from, and whoever started the flight (coordinator.ts:483-601).
AnswersAreCurrent ==
  [][\A c \in Callers : call[c].state # "answered" /\ call'[c].state = "answered" =>
       LET r == call'[c].result
       IN /\ r.status = "success" => now < r.entry.staleAt
          /\ r.status = "stale" => r.entry.staleAt <= now /\ now < r.entry.expiresAt]_vars

Waits(c) == call[c].state \in {"seen", "waiting"}

\* Whoever asks is answered (coordinator.ts:96-134).
AsksAreAnswered ==
  (\E c \in Callers : Waits(c)) ~> (\A c \in Callers : ~Waits(c))

\* A probe reports back to its circuit, so that the next one is admitted, unless a
\* caller leaves (resilience.ts:25-52, coordinator.ts:297).
ProbesConclude ==
  (\E p \in Providers : circuit[p].halfOpen)
    ~> ((\A p \in Providers : ~circuit[p].halfOpen) \/ \E c \in Callers : call[c].aborted)
=============================================================================
