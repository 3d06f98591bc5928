---- MODULE TokenVerifier_proofs ----
(***************************************************************************)
(* TokenVerifier for any calls, keys, timeouts and lifetimes: how long a   *)
(* retired key is accepted and a new one refused, that nobody waits for a  *)
(* request that is gone, nor longer than a sequence of attempts, and that  *)
(* an open circuit is respected.                                           *)
(***************************************************************************)
EXTENDS TokenVerifier, TLAPS

LEMMA Constants ==
    /\ Timeout \in Nat /\ MaxRetries \in Nat /\ RetryDelay \in Nat /\ OpenTime \in Nat
    /\ Cooldown \in Nat /\ Cooldown > 0 /\ MinTtl \in Nat /\ MaxTtl \in Nat /\ MaxTtl > 0
    /\ TokenTtl \in Nat /\ Horizon \in Nat
    /\ CircuitFailures \in Nat /\ CircuitFailures > 0
BY TimesAreNatural, PositiveBounds

LEMMA IdleType == Idle \in CallType
BY SomeKey DEF Idle, CallType, WaitingStates

LEMMA IdleFields == Idle.pc = "idle" /\ Idle.began = 0
BY DEF Idle

LEMMA NoFlightType == NoFlight \in FlightType
BY Constants DEF NoFlight, FlightType

LEMMA DismissedType ==
    ASSUME calls \in [Calls -> CallType], NEW S PROVE Dismissed(S) \in [Calls -> CallType]
BY IdleType DEF Dismissed

LEMMA JudgedType ==
    ASSUME calls \in [Calls -> CallType], NEW S, NEW keys
    PROVE  Judged(S, keys) \in [Calls -> CallType]
<1> SUFFICES ASSUME NEW c \in Calls, NEW v \in {"accepted", "refused"}
             PROVE  [calls[c] EXCEPT !.began = 0, !.pc = v] \in CallType
  BY DEF Judged
<1> QED
  BY DEF CallType

LEMMA FetchType ==
    ASSUME calls \in [Calls -> CallType], flight \in [Flights -> FlightType], now \in Nat,
           NEW c \in Calls, NEW k \in Keys, NEW g \in BOOLEAN, NEW f \in Flights,
           NEW w \in WaitingStates, Fetch(c, k, g, f, w)
    PROVE  calls' \in [Calls -> CallType] /\ flight' \in [Flights -> FlightType]
<1> NewFlight \in FlightType
  BY Constants DEF NewFlight, FlightType
<1> [pc |-> w, key |-> k, genuine |-> g, began |-> now] \in CallType
  BY DEF CallType
<1> QED
  BY IdleType DEF Fetch, Wait

LEMMA TypeStep == ASSUME TypeOK, [Next]_vars PROVE TypeOK'
<1> USE Constants
<1> USE DEF TypeOK, issuerVars, keyVars
<1> FailureNoted \in [failures : Nat, openedUntil : Nat]
  BY DEF FailureNoted
<1>1. ASSUME NEW c \in Calls, NEW k \in Keys, NEW g \in BOOLEAN, NEW v \in {"accepted", "refused"},
             Answer(c, k, g, v)
      PROVE  calls' \in [Calls -> CallType]
  BY <1>1 DEF Answer, CallType
<1>2. ASSUME NEW k \in Keys, NEW g \in BOOLEAN PROVE Forget(k, g) \in [Keys -> Nat]
  BY DEF Forget
<1>3. ASSUME NEW c \in Calls, NEW k \in Keys, Remembered(c, k) PROVE TypeOK'
  BY <1>1, <1>3 DEF Remembered
<1>4. ASSUME NEW c \in Calls, NEW k \in Keys, NEW g \in BOOLEAN, NEW ttl \in 0..TokenTtl,
             VerifyFromCache(c, k, g, ttl) PROVE TypeOK'
  <2>1. calls' \in [Calls -> CallType]
    BY <1>1, <1>4 DEF VerifyFromCache
  <2> QED
    BY <2>1, <1>4 DEF VerifyFromCache, Miss
<1>5. ASSUME NEW c \in Calls, NEW k \in Keys, NEW g \in BOOLEAN, RefuseUnknownKey(c, k, g)
      PROVE  TypeOK'
  BY <1>1, <1>2, <1>5 DEF RefuseUnknownKey, Miss
<1>6. ASSUME NEW c \in Calls, NEW k \in Keys, NEW g \in BOOLEAN, ForceRefresh(c, k, g)
      PROVE  TypeOK'
  BY <1>2, <1>6, FetchType DEF ForceRefresh, Miss, WaitingStates, Flights
<1>7. ASSUME NEW c \in Calls, NEW k \in Keys, NEW g \in BOOLEAN, FetchKeySet(c, k, g)
      PROVE  TypeOK'
  BY <1>2, <1>7, FetchType DEF FetchKeySet, Miss, WaitingStates, Flights, NoDocument
<1>8. ASSUME NEW c \in Calls, NEW k \in Keys, NEW g \in BOOLEAN, Introspect(c, k, g)
      PROVE  TypeOK'
  BY <1>2, <1>8, FetchType DEF Introspect, Miss, WaitingStates, Flights
<1>9. ASSUME NEW f \in Flights, RequestStep(f) PROVE TypeOK'
  <2>1. CASE IssuerServes(f)
    <3> [flight[f] EXCEPT !.phase = "replied", !.keys = published, !.served = now] \in FlightType
      BY DEF FlightType
    <3> QED
      BY <2>1 DEF IssuerServes
  <2>2. CASE AttemptFails(f)
    <3> [flight[f] EXCEPT !.phase = "delay", !.sent = now, !.keys = {}, !.served = 0]
            \in FlightType
      BY DEF FlightType
    <3> QED
      BY <2>2 DEF AttemptFails
  <2>3. CASE Retry(f)
    BY <2>3 DEF Retry, FlightType
  <2>4. CASE SequenceFails(f)
    BY <2>4, DismissedType, NoFlightType DEF SequenceFails
  <2> QED
    BY <1>9, <2>1, <2>2, <2>3, <2>4 DEF RequestStep
<1>10. ASSUME NEW ttl \in MinTtl..MaxTtl, NEW tokenTtl \in 0..TokenTtl,
              KeySetArrives(ttl, tokenTtl)
       PROVE  TypeOK'
  <2> DEFINE keys == flight[Shared].keys
  <2>1. flight[Shared] \in FlightType
    BY DEF Flights
  <2>2. jwks' \in [keys : SUBSET Keys, expires : Nat, served : Nat]
    BY <1>10, <2>1 DEF KeySetArrives, FlightType
  <2>3. tokens' \in [Keys -> Nat]
    <3>1. PICK last \in [Keys -> Calls] :
            tokens' = [k \in Keys |-> IF tokenTtl > 0 /\ Proven(k, keys) # {}
                                     THEN calls[last[k]].began + tokenTtl ELSE tokens[k]]
      BY <1>10 DEF KeySetArrives, KeepTokens
    <3>2. \A k \in Keys : calls[last[k]].began + tokenTtl \in Nat
      BY DEF CallType
    <3> QED
      BY <3>1, <3>2
  <2>4. unknown' \in [Keys -> Nat]
    <3>1. PICK last \in [Keys -> Calls] :
            unknown' = [k \in Keys |-> IF Unresolved(k, keys) # {}
                                      THEN CooledUntil(calls[last[k]].began) ELSE unknown[k]]
      BY <1>10 DEF KeySetArrives, CoolUnresolved
    <3>2. \A k \in Keys : CooledUntil(calls[last[k]].began) \in Nat
      BY DEF CallType, CooledUntil
    <3> QED
      BY <3>1, <3>2
  <2>5. lastForced' \in Int
    BY <1>10 DEF KeySetArrives, NoteForcedRefresh, CallType
  <2>6. flight' \in [Flights -> FlightType] /\ calls' \in [Calls -> CallType]
    BY <1>10, JudgedType, NoFlightType DEF KeySetArrives
  <2> QED
    BY <1>10, <2>2, <2>3, <2>4, <2>5, <2>6 DEF KeySetArrives, ClosedCircuit
<1>11. ASSUME NEW c \in Calls, NEW ttl \in 0..TokenTtl, IntrospectionArrives(c, ttl)
       PROVE  TypeOK'
  <2>1. calls[c] \in CallType /\ calls[c].began + ttl \in Nat
    BY DEF CallType
  <2>2. flight' \in [Flights -> FlightType] /\ calls' \in [Calls -> CallType]
    BY <1>11, JudgedType, NoFlightType DEF IntrospectionArrives
  <2>3. tokens' \in [Keys -> Nat]
    BY <1>11, <2>1 DEF IntrospectionArrives
  <2> QED
    BY <1>11, <2>2, <2>3 DEF IntrospectionArrives, ClosedCircuit
<1>12. ASSUME NEW c \in Calls, IntrospectionDenied(c) \/ Abort(c) PROVE TypeOK'
  BY <1>12, DismissedType, NoFlightType DEF IntrospectionDenied, Abort
<1>13. ASSUME NEW k \in Keys, Rotate(k) \/ Evict(k) PROVE TypeOK'
  BY <1>13 DEF Rotate, Evict
<1>14. CASE Tick
  BY <1>14, DismissedType DEF Tick
<1>15. CASE UNCHANGED vars
  BY <1>15 DEF vars
<1> QED
  BY <1>3, <1>4, <1>5, <1>6, <1>7, <1>8, <1>9, <1>10, <1>11, <1>12, <1>13, <1>14, <1>15
     DEF Next, CallComesIn, Arrival

LEMMA TypeInit == Init => TypeOK
<1> -Cooldown \in Int
  BY Constants
<1> QED
  BY Constants, IdleType, NoFlightType DEF Init, TypeOK, NoDocument, ClosedCircuit

\* The variables keep their types.
THEOREM TypeCorrect == Spec => []TypeOK
BY TypeInit, TypeStep, PTL DEF Spec

-----------------------------------------------------------------------------
(* The inductive invariant. *)

\* How long n attempts take, with the delays that follow them.
Span(n) == n * (Timeout + RetryDelay)

\* A request under way keeps to its timers and to the pace of its attempts.
FlightTimes ==
    \A f \in Flights :
        /\ flight[f].phase # "off" =>
               /\ flight[f].began <= flight[f].sent /\ flight[f].sent <= now
               /\ flight[f].attempt >= 1
        /\ Outstanding(f) =>
               /\ now <= flight[f].sent + Timeout
               /\ flight[f].sent <= flight[f].began + Span(flight[f].attempt - 1)
        /\ flight[f].phase = "replied" =>
               flight[f].sent <= flight[f].served /\ flight[f].served <= now
        /\ flight[f].phase = "delay" =>
               /\ flight[f].attempt <= MaxRetries
               /\ now <= flight[f].sent + RetryDelay
               /\ flight[f].sent <= flight[f].began + Span(flight[f].attempt - 1) + Timeout

\* No entry reaches further ahead than its lifetime.
ClockInv ==
    /\ \A k \in Keys : /\ since[k] <= now
                       /\ tokens[k] <= now + TokenTtl
                       /\ unknown[k] <= now + Cooldown
    /\ lastForced <= now
    /\ jwks.served <= now /\ jwks.expires <= jwks.served + Timeout + MaxTtl
    /\ \A c \in Calls : calls[c].began <= now

\* A key that has not changed since a set was served is in that set if and only if
\* it is published.
SnapshotInv ==
    /\ \A k \in Keys : since[k] < jwks.served => (k \in jwks.keys <=> k \in published)
    /\ \A f \in Flights, k \in Keys :
           (flight[f].phase = "replied" /\ since[k] < flight[f].served)
               => (k \in flight[f].keys <=> k \in published)

\* The set in use was served no longer than a timeout before the latest refresh
\* that holds another one back.
FreshInv ==
    KeySetHeld => /\ lastForced <= jwks.served + Timeout
                  /\ \A k \in Keys : unknown[k] <= jwks.served + Timeout + Cooldown

\* What remains in the token cache of a retired key.
TokenInv ==
    \A k \in Keys :
        k \notin published => tokens[k] < since[k] + Timeout + MaxTtl + TokenTtl

\* A call waits for a request that began no later than it did.
WaitInv ==
    \A f \in Flights : \A c \in Waiters(f) :
        flight[f].phase # "off" /\ flight[f].began <= calls[c].began

IInv ==
    /\ TypeOK /\ FlightTimes /\ ClockInv /\ SnapshotInv /\ FreshInv /\ TokenInv /\ WaitInv
    /\ KeysAgeOut /\ RotationIsSeen /\ OutagesAreLeftAlone

LEMMA SpanFacts ==
    ASSUME NEW m \in Nat, NEW n \in Nat
    PROVE  /\ Span(n) \in Nat
           /\ Span(n + 1) = Span(n) + Timeout + RetryDelay
           /\ m <= n => Span(m) <= Span(n)
<1> DEFINE X == Timeout + RetryDelay
<1>1. X \in Nat
  BY Constants
<1>2. n * X \in Nat /\ m * X \in Nat
  BY <1>1
<1>3. (n + 1) * X = n * X + X
  BY <1>1
<1>4. m <= n => m * X <= n * X
  BY <1>1
<1> HIDE DEF X
<1>5. X = Timeout + RetryDelay
  BY DEF X
<1> QED
  BY <1>1, <1>2, <1>3, <1>4, <1>5, Constants DEF Span

-----------------------------------------------------------------------------
(* What a step can do to a request, to a call and to the clock. *)

\* The steps of a request that goes on.
GoesOn(f) ==
    \/ /\ flight[f].phase = "sent"
       /\ flight'[f] = [flight[f] EXCEPT !.phase = "replied", !.keys = published, !.served = now]
    \/ /\ Outstanding(f) /\ flight[f].attempt <= MaxRetries
       /\ flight'[f] = [flight[f] EXCEPT !.phase = "delay", !.sent = now, !.keys = {}, !.served = 0]
    \/ /\ flight[f].phase = "delay" /\ now >= flight[f].sent + RetryDelay
       /\ flight'[f] = [flight[f] EXCEPT !.phase = "sent", !.attempt = @ + 1, !.sent = now]

Begins(f) == flight[f].phase = "off" /\ ~ CircuitOpen /\ flight'[f] = NewFlight

LEMMA FlightMoves ==
    ASSUME TypeOK, [Next]_vars, NEW f \in Flights
    PROVE  \/ flight'[f] = flight[f]
           \/ flight'[f] = NoFlight
           \/ now' = now /\ circuit' = circuit /\ published' = published /\ since' = since
              /\ (Begins(f) \/ GoesOn(f))
<1> USE DEF TypeOK, issuerVars
<1>1. ASSUME NEW c \in Calls, NEW k \in Keys, NEW g \in BOOLEAN, NEW w,
             Miss(c, k, g), Fetch(c, k, g, Shared, w) \/ Fetch(c, k, g, c, w)
      PROVE  \/ flight'[f] = flight[f]
             \/ now' = now /\ circuit' = circuit /\ published' = published /\ since' = since
                /\ Begins(f)
  <2>1. PICK e \in Flights : Fetch(c, k, g, e, w)
    BY <1>1 DEF Flights
  <2> QED
    BY <1>1, <2>1 DEF Miss, Fetch, Begins
<1>2. ASSUME NEW c \in Calls, CallComesIn(c)
      PROVE  \/ flight'[f] = flight[f]
             \/ now' = now /\ circuit' = circuit /\ published' = published /\ since' = since
                /\ Begins(f)
  <2>1. PICK k \in Keys, g \in BOOLEAN :
          \/ UNCHANGED flight
          \/ ForceRefresh(c, k, g) \/ FetchKeySet(c, k, g) \/ Introspect(c, k, g)
    BY <1>2 DEF CallComesIn, Remembered, VerifyFromCache, RefuseUnknownKey
  <2> QED
    BY <1>1, <2>1 DEF ForceRefresh, FetchKeySet, Introspect
<1>3. ASSUME NEW e \in Flights, RequestStep(e)
      PROVE  \/ flight'[f] = flight[f]
             \/ flight'[f] = NoFlight
             \/ now' = now /\ circuit' = circuit /\ published' = published /\ since' = since
                /\ GoesOn(f)
  BY <1>3 DEF RequestStep, IssuerServes, AttemptFails, Retry, SequenceFails, GoesOn
<1>4. ASSUME Arrival \/ (\E c \in Calls : IntrospectionDenied(c) \/ Abort(c))
      PROVE  flight'[f] = flight[f] \/ flight'[f] = NoFlight
  BY <1>4 DEF Arrival, KeySetArrives, IntrospectionArrives, IntrospectionDenied, Abort
<1>5. ASSUME Tick \/ UNCHANGED vars \/ (\E k \in Keys : Rotate(k) \/ Evict(k))
      PROVE  flight'[f] = flight[f]
  BY <1>5 DEF Tick, vars, Rotate, Evict
<1> QED
  BY <1>2, <1>3, <1>4, <1>5 DEF Next

LEMMA GoesOnFacts ==
    ASSUME NEW f, flight[f] \in FlightType, GoesOn(f)
    PROVE  /\ flight'[f].began = flight[f].began
           /\ flight[f].phase # "off" /\ flight'[f].phase # "off"
           /\ flight'[f].phase = "replied" => flight'[f].keys = published
<1>1. ASSUME NEW x,
             \/ x = [flight[f] EXCEPT !.phase = "delay", !.sent = now, !.keys = {}, !.served = 0]
             \/ x = [flight[f] EXCEPT !.phase = "sent", !.attempt = @ + 1, !.sent = now]
      PROVE  x.began = flight[f].began /\ x.phase \in {"delay", "sent"}
  BY <1>1 DEF FlightType
<1>2. CASE flight'[f] = [flight[f] EXCEPT !.phase = "replied", !.keys = published, !.served = now]
  <2>1. /\ flight'[f].began = flight[f].began /\ flight'[f].phase # "off"
        /\ flight'[f].keys = published
    BY <1>2 DEF FlightType
  <2> QED
    BY <2>1 DEF GoesOn, Outstanding
<1> QED
  BY <1>1, <1>2 DEF GoesOn, Outstanding

\* The clock stands, or it ticks and no timer was due.
LEMMA ClockMoves ==
    ASSUME TypeOK, [Next]_vars
    PROVE  now' = now \/ Tick
<1>1. ASSUME NEW c \in Calls, CallComesIn(c) PROVE now' = now
  BY <1>1 DEF CallComesIn, Remembered, VerifyFromCache, RefuseUnknownKey, ForceRefresh,
     FetchKeySet, Introspect, Miss
<1>2. ASSUME NEW f \in Flights, RequestStep(f) PROVE now' = now
  BY <1>2 DEF RequestStep, IssuerServes, AttemptFails, Retry, SequenceFails
<1>3. CASE Arrival
  BY <1>3 DEF Arrival, KeySetArrives, IntrospectionArrives
<1>4. ASSUME NEW c \in Calls, IntrospectionDenied(c) \/ Abort(c) PROVE now' = now
  BY <1>4 DEF IntrospectionDenied, Abort
<1>5. ASSUME NEW k \in Keys, Rotate(k) \/ Evict(k) PROVE now' = now
  BY <1>5 DEF Rotate, Evict
<1>6. CASE UNCHANGED vars
  BY <1>6 DEF vars
<1> QED
  BY <1>1, <1>2, <1>3, <1>4, <1>5, <1>6 DEF Next

\* A call is left alone, becomes idle or has its verdict, or begins to wait.
LEMMA CallMoves ==
    ASSUME TypeOK, [Next]_vars, NEW c \in Calls
    PROVE  \/ calls'[c] = calls[c]
           \/ calls'[c].began = 0 /\ ~ Waiting(c)'
           \/ calls'[c].began = now /\ now' = now /\ ~ Waiting(c)
<1> USE DEF TypeOK, WaitingStates
<1>1. ASSUME NEW d \in Calls, CallComesIn(d)
      PROVE  \/ calls'[c] = calls[c]
             \/ calls'[c].began = 0 /\ ~ Waiting(c)'
             \/ calls'[c].began = now /\ now' = now /\ ~ Waiting(c)
  <2>1. PICK k \in Keys, g \in BOOLEAN :
          \/ \E v \in {"accepted", "refused"} : Answer(d, k, g, v)
          \/ Miss(d, k, g) /\ \E f \in Flights, w \in WaitingStates : Fetch(d, k, g, f, w)
    BY <1>1 DEF CallComesIn, Remembered, VerifyFromCache, RefuseUnknownKey, ForceRefresh,
       FetchKeySet, Introspect, Flights
  <2>2. ASSUME NEW v \in {"accepted", "refused"}, Answer(d, k, g, v)
        PROVE  calls'[c] = calls[c] \/ (calls'[c].began = 0 /\ ~ Waiting(c)')
    BY <2>2 DEF Answer, Waiting
  <2>3. ASSUME NEW f \in Flights, NEW w \in WaitingStates, Miss(d, k, g), Fetch(d, k, g, f, w)
        PROVE  \/ calls'[c] = calls[c]
               \/ calls'[c].began = 0 /\ ~ Waiting(c)'
               \/ calls'[c].began = now /\ now' = now /\ ~ Waiting(c)
    BY <2>3 DEF Miss, Fetch, Wait, Waiting, Idle
  <2> QED
    BY <2>1, <2>2, <2>3
<1>2. ASSUME NEW S, calls' = Dismissed(S)
      PROVE  calls'[c] = calls[c] \/ (calls'[c].began = 0 /\ ~ Waiting(c)')
  BY <1>2 DEF Dismissed, Idle, Waiting
<1>3. ASSUME NEW S, NEW keys, calls' = Judged(S, keys)
      PROVE  calls'[c] = calls[c] \/ (calls'[c].began = 0 /\ ~ Waiting(c)')
  <2>1. CASE c \notin S
    BY <1>3, <2>1 DEF Judged
  <2>2. CASE c \in S
    <3>1. PICK v \in {"accepted", "refused"} : calls'[c] = [calls[c] EXCEPT !.began = 0, !.pc = v]
      BY <1>3, <2>2 DEF Judged
    <3> QED
      BY <3>1 DEF Waiting, CallType
  <2> QED
    BY <2>1, <2>2
<1>4. CASE UNCHANGED calls
  BY <1>4
<1> QED
  BY <1>1, <1>2, <1>3, <1>4 DEF Next, vars, RequestStep, IssuerServes, AttemptFails, Retry,
     SequenceFails, Arrival, KeySetArrives, IntrospectionArrives, IntrospectionDenied, Abort,
     Rotate, Evict, Tick

-----------------------------------------------------------------------------
(* Every part of the invariant is preserved. *)

LEMMA TickIs ==
    ASSUME TypeOK, Tick
    PROVE  /\ now' = now + 1 /\ now \in Nat
           /\ UNCHANGED <<mode, issuerVars, tokens, keyVars, circuit, flight>>
           /\ \A f \in Flights :
                 /\ Outstanding(f) => now + 1 <= flight[f].sent + Timeout
                 /\ flight[f].phase = "delay" => now + 1 <= flight[f].sent + RetryDelay
<1> SUFFICES ASSUME NEW f \in Flights
             PROVE  /\ Outstanding(f) => now + 1 <= flight[f].sent + Timeout
                    /\ flight[f].phase = "delay" => now + 1 <= flight[f].sent + RetryDelay
  BY DEF Tick, TypeOK
<1>1. now < Due(f) /\ now \in Nat /\ flight[f].sent \in Nat
  BY DEF Tick, TypeOK, FlightType
<1> QED
  BY <1>1, Constants DEF Due, Outstanding

LEMMA FlightTimesStep ==
    ASSUME TypeOK, FlightTimes, [Next]_vars
    PROVE  FlightTimes'
<1> SUFFICES ASSUME NEW f \in Flights
             PROVE  /\ flight'[f].phase # "off" =>
                           /\ flight'[f].began <= flight'[f].sent /\ flight'[f].sent <= now'
                           /\ flight'[f].attempt >= 1
                    /\ flight'[f].phase \in {"sent", "replied"} =>
                           /\ now' <= flight'[f].sent + Timeout
                           /\ flight'[f].sent <= flight'[f].began + Span(flight'[f].attempt - 1)
                    /\ flight'[f].phase = "replied" =>
                           flight'[f].sent <= flight'[f].served /\ flight'[f].served <= now'
                    /\ flight'[f].phase = "delay" =>
                           /\ flight'[f].attempt <= MaxRetries
                           /\ now' <= flight'[f].sent + RetryDelay
                           /\ flight'[f].sent <=
                                  flight'[f].began + Span(flight'[f].attempt - 1) + Timeout
  BY DEF FlightTimes, Outstanding
<1> USE Constants
<1>1. flight[f] \in FlightType /\ now \in Nat
  BY DEF TypeOK
<1>2. /\ flight[f].attempt \in Nat /\ flight[f].began \in Nat /\ flight[f].sent \in Nat
      /\ flight[f].served \in Nat
  BY <1>1 DEF FlightType
<1>3. /\ flight[f].phase # "off" =>
             /\ flight[f].began <= flight[f].sent /\ flight[f].sent <= now
             /\ flight[f].attempt >= 1
      /\ flight[f].phase \in {"sent", "replied"} =>
             /\ now <= flight[f].sent + Timeout
             /\ flight[f].sent <= flight[f].began + Span(flight[f].attempt - 1)
      /\ flight[f].phase = "replied" =>
             flight[f].sent <= flight[f].served /\ flight[f].served <= now
      /\ flight[f].phase = "delay" =>
             /\ flight[f].attempt <= MaxRetries
             /\ now <= flight[f].sent + RetryDelay
             /\ flight[f].sent <= flight[f].began + Span(flight[f].attempt - 1) + Timeout
  BY DEF FlightTimes, Outstanding
<1>4. flight[f].attempt >= 1 => /\ Span(flight[f].attempt - 1) \in Nat
                               /\ Span(flight[f].attempt) =
                                      Span(flight[f].attempt - 1) + Timeout + RetryDelay
  <2> SUFFICES ASSUME flight[f].attempt >= 1
               PROVE  /\ Span(flight[f].attempt - 1) \in Nat
                      /\ Span(flight[f].attempt) =
                             Span(flight[f].attempt - 1) + Timeout + RetryDelay
    OBVIOUS
  <2>1. flight[f].attempt - 1 \in Nat /\ (flight[f].attempt - 1) + 1 = flight[f].attempt
    BY <1>2
  <2> DEFINE n == flight[f].attempt - 1
  <2>2. n \in Nat
    BY <2>1
  <2>3. Span(n) \in Nat /\ Span(n + 1) = Span(n) + Timeout + RetryDelay
    <3> HIDE DEF n
    <3> QED
      BY <2>2, SpanFacts
  <2> QED
    BY <2>1, <2>3
<1>5. CASE flight'[f] = flight[f] /\ now' = now
  BY <1>3, <1>5
<1>6. CASE flight'[f] = NoFlight
  BY <1>6 DEF NoFlight
<1>7. CASE Begins(f) /\ now' = now
  <2>1. 1 - 1 \in Nat /\ Span(1 - 1) \in Nat
    BY SpanFacts
  <2> QED
    BY <1>1, <1>7, <2>1 DEF Begins, NewFlight
<1>8. CASE GoesOn(f) /\ now' = now
  <2>1. ASSUME flight[f].phase = "sent",
               flight'[f] = [flight[f] EXCEPT !.phase = "replied", !.keys = published, !.served = now]
        PROVE  /\ flight'[f].phase = "replied" /\ flight'[f].served = now
               /\ flight'[f].began = flight[f].began /\ flight'[f].sent = flight[f].sent
               /\ flight'[f].attempt = flight[f].attempt
    BY <1>1, <2>1 DEF FlightType
  <2>2. ASSUME flight'[f] =
                 [flight[f] EXCEPT !.phase = "delay", !.sent = now, !.keys = {}, !.served = 0]
        PROVE  /\ flight'[f].phase = "delay" /\ flight'[f].sent = now
               /\ flight'[f].began = flight[f].began
               /\ flight'[f].attempt = flight[f].attempt
    BY <1>1, <2>2 DEF FlightType
  <2>3. ASSUME flight'[f] = [flight[f] EXCEPT !.phase = "sent", !.attempt = @ + 1, !.sent = now]
        PROVE  /\ flight'[f].phase = "sent" /\ flight'[f].sent = now
               /\ flight'[f].began = flight[f].began
               /\ flight'[f].attempt = flight[f].attempt + 1
    BY <1>1, <2>3 DEF FlightType
  <2>4. flight'[f].phase = "sent" => flight'[f].attempt - 1 = flight[f].attempt
    BY <1>2, <1>8, <2>1, <2>2, <2>3 DEF GoesOn
  <2> QED
    BY <1>1, <1>2, <1>3, <1>4, <1>8, <2>1, <2>2, <2>3, <2>4 DEF GoesOn, Outstanding
<1>9. CASE Tick
  BY <1>2, <1>3, <1>9, TickIs DEF Outstanding
<1> QED
  BY <1>5, <1>6, <1>7, <1>8, <1>9, FlightMoves, ClockMoves

LEMMA WaitStep ==
    ASSUME TypeOK, FlightTimes, WaitInv, [Next]_vars
    PROVE  WaitInv'
<1> SUFFICES ASSUME NEW f \in Flights, NEW c \in Calls, c \in Waiters(f)'
             PROVE  flight'[f].phase # "off" /\ flight'[f].began <= calls'[c].began
  BY DEF WaitInv, Waiters
<1>1. /\ flight \in [Flights -> FlightType] /\ calls \in [Calls -> CallType] /\ now \in Nat
      /\ Shared \notin Calls /\ Shared \in Flights /\ Calls \subseteq Flights
  BY SharedIsNoCall DEF TypeOK, Flights
<1>2. /\ f = Shared \/ f = c
      /\ f = Shared <=> calls'[c].pc \in {"looking", "refreshing"}
      /\ f = c <=> calls'[c].pc = "introspecting"
  BY <1>1 DEF Waiters
<1>3. calls[c] = calls'[c] => /\ c \in Waiters(f) /\ flight[f].phase # "off"
                             /\ flight[f].began <= calls[c].began
  BY <1>2 DEF Waiters, WaitInv
<1>4. ASSUME calls'[c] = calls[c], flight'[f] = flight[f]
      PROVE  flight'[f].phase # "off" /\ flight'[f].began <= calls'[c].began
  BY <1>3, <1>4
<1>5. ASSUME NEW S, calls' = Dismissed(S) PROVE calls'[c] = calls[c] /\ c \notin S
  BY <1>2, <1>5 DEF Dismissed, Idle
<1>6. ASSUME NEW S, NEW keys, calls' = Judged(S, keys) PROVE calls'[c] = calls[c] /\ c \notin S
  <2>1. CASE c \in S
    <3>1. PICK v \in {"accepted", "refused"} : calls'[c] = [calls[c] EXCEPT !.began = 0, !.pc = v]
      BY <1>6, <2>1 DEF Judged
    <3>2. calls'[c].pc \in {"accepted", "refused"}
      BY <1>1, <3>1 DEF CallType
    <3> QED
      BY <1>2, <3>2
  <2>2. CASE c \notin S
    BY <1>6, <2>2 DEF Judged
  <2> QED
    BY <2>1, <2>2
<1>7. ASSUME NEW d \in Calls, CallComesIn(d)
      PROVE  flight'[f].phase # "off" /\ flight'[f].began <= calls'[c].began
  <2>1. PICK k \in Keys, g \in BOOLEAN :
          \/ UNCHANGED flight /\ \E v \in {"accepted", "refused"} : Answer(d, k, g, v)
          \/ \E e \in Flights, w \in WaitingStates :
                /\ Miss(d, k, g) /\ Fetch(d, k, g, e, w)
                /\ e = Shared <=> w \in {"looking", "refreshing"}
                /\ e = d <=> w = "introspecting"
    BY <1>1, <1>7 DEF CallComesIn, Remembered, VerifyFromCache, RefuseUnknownKey, ForceRefresh,
       FetchKeySet, Introspect, WaitingStates
  <2>2. ASSUME UNCHANGED flight, NEW v \in {"accepted", "refused"}, Answer(d, k, g, v)
        PROVE  flight'[f].phase # "off" /\ flight'[f].began <= calls'[c].began
    <3>1. c # d
      BY <1>1, <1>2, <2>2 DEF Answer
    <3> QED
      BY <1>1, <1>4, <2>2, <3>1 DEF Answer
  <2>3. ASSUME NEW e \in Flights, NEW w \in WaitingStates, Miss(d, k, g), Fetch(d, k, g, e, w),
               e = Shared <=> w \in {"looking", "refreshing"}, e = d <=> w = "introspecting"
        PROVE  flight'[f].phase # "off" /\ flight'[f].began <= calls'[c].began
    <3>1. CASE c # d
      <4>1. calls'[c] = calls[c]
        BY <1>1, <2>3, <3>1 DEF Fetch, Wait
      <4>2. flight'[f] = flight[f]
        BY <1>1, <1>3, <2>3, <4>1 DEF Fetch
      <4> QED
        BY <1>4, <4>1, <4>2
    <3>2. CASE c = d
      <4>1. ~ (flight[e].phase = "off" /\ CircuitOpen)
        BY <1>1, <1>2, <2>3, <3>2 DEF Fetch, Idle
      <4>2. calls'[c] = [pc |-> w, key |-> k, genuine |-> g, began |-> now]
        BY <1>1, <2>3, <3>2, <4>1 DEF Fetch, Wait
      <4>3. e = f
        BY <1>1, <1>2, <2>3, <3>2, <4>2
      <4>4. CASE flight[f].phase = "off"
        BY <1>1, <2>3, <4>1, <4>2, <4>3, <4>4 DEF Fetch, NewFlight
      <4>5. CASE flight[f].phase # "off"
        <5>1. flight'[f] = flight[f]
          BY <2>3, <4>1, <4>3, <4>5 DEF Fetch
        <5>2. flight[f] \in FlightType /\ flight[f].began <= flight[f].sent /\ flight[f].sent <= now
          BY <1>1, <4>5 DEF FlightTimes
        <5> QED
          BY <1>1, <4>2, <4>5, <5>1, <5>2 DEF FlightType
      <4> QED
        BY <4>4, <4>5
    <3> QED
      BY <3>1, <3>2
  <2> QED
    BY <2>1, <2>2, <2>3
<1>8. ASSUME NEW e \in Flights, RequestStep(e)
      PROVE  flight'[f].phase # "off" /\ flight'[f].began <= calls'[c].began
  <2>1. CASE SequenceFails(e)
    BY <1>1, <1>3, <1>5, <2>1 DEF SequenceFails
  <2>2. CASE IssuerServes(e) \/ AttemptFails(e) \/ Retry(e)
    <3>1. calls' = calls
      BY <2>2 DEF IssuerServes, AttemptFails, Retry
    <3>2. flight'[f].began = flight[f].began /\ (flight[f].phase # "off" => flight'[f].phase # "off")
      <4>1. flight'[f] = flight[f] \/ GoesOn(f)
        BY <1>1, <2>2 DEF IssuerServes, AttemptFails, Retry, GoesOn
      <4> QED
        BY <1>1, <4>1, GoesOnFacts
    <3> QED
      BY <1>3, <3>1, <3>2
  <2> QED
    BY <1>8, <2>1, <2>2 DEF RequestStep
<1>9. ASSUME NEW ttl, NEW tokenTtl, KeySetArrives(ttl, tokenTtl)
      PROVE  flight'[f].phase # "off" /\ flight'[f].began <= calls'[c].began
  BY <1>1, <1>3, <1>4, <1>6, <1>9 DEF KeySetArrives
<1>10. ASSUME NEW d \in Calls, NEW ttl, IntrospectionArrives(d, ttl)
       PROVE  flight'[f].phase # "off" /\ flight'[f].began <= calls'[c].began
  BY <1>1, <1>2, <1>4, <1>6, <1>10 DEF IntrospectionArrives
<1>11. ASSUME NEW d \in Calls, IntrospectionDenied(d) \/ Abort(d)
       PROVE  flight'[f].phase # "off" /\ flight'[f].began <= calls'[c].began
  BY <1>1, <1>2, <1>4, <1>5, <1>11 DEF IntrospectionDenied, Abort
<1>12. CASE Tick
  BY <1>4, <1>5, <1>12 DEF Tick
<1>13. CASE UNCHANGED vars \/ (\E k \in Keys : Rotate(k) \/ Evict(k))
  BY <1>4, <1>13 DEF vars, Rotate, Evict
<1> QED
  BY <1>7, <1>8, <1>9, <1>10, <1>11, <1>12, <1>13 DEF Next, Arrival

LEMMA WaitsAlone == ASSUME WaitInv PROVE NobodyWaitsAlone
BY DEF WaitInv, NobodyWaitsAlone, Waiters

LEMMA WaitsEnd == ASSUME TypeOK, FlightTimes, WaitInv PROVE WaitsAreBounded
<1> SUFFICES ASSUME NEW c \in Calls, Waiting(c)
             PROVE  now - calls[c].began <= Timeout + MaxRetries * (Timeout + RetryDelay)
  BY DEF WaitsAreBounded
<1> USE Constants
<1>1. PICK f \in Flights : c \in Waiters(f)
  BY DEF Waiting, WaitingStates, Waiters, Flights
<1>2. /\ flight[f] \in FlightType /\ calls[c] \in CallType /\ now \in Nat
      /\ flight[f].phase # "off" /\ flight[f].began <= calls[c].began
  BY <1>1 DEF TypeOK, WaitInv
<1>3. /\ flight[f].attempt \in 0..MaxRetries + 1 /\ flight[f].began \in Nat
      /\ flight[f].sent \in Nat /\ calls[c].began \in Nat
      /\ flight[f].phase \in {"sent", "replied", "delay"}
  BY <1>2 DEF FlightType, CallType
<1>4. flight[f].attempt >= 1
  BY <1>2 DEF FlightTimes
<1>5. PICK n \in Nat : n = flight[f].attempt - 1 /\ n <= MaxRetries
  BY <1>3, <1>4
<1>6. Span(n) \in Nat /\ Span(n + 1) = Span(n) + Timeout + RetryDelay
  BY <1>5, SpanFacts
<1>7. Span(MaxRetries) \in Nat /\ Span(n) <= Span(MaxRetries)
  BY <1>5, SpanFacts
<1>8. CASE Outstanding(f)
  <2>1. now <= flight[f].sent + Timeout /\ flight[f].sent <= flight[f].began + Span(n)
    BY <1>5, <1>8 DEF FlightTimes
  <2> QED
    BY <1>2, <1>3, <1>6, <1>7, <2>1 DEF Span
<1>9. CASE flight[f].phase = "delay"
  <2>1. /\ n + 1 <= MaxRetries /\ now <= flight[f].sent + RetryDelay
        /\ flight[f].sent <= flight[f].began + Span(n) + Timeout
    BY <1>3, <1>5, <1>9 DEF FlightTimes
  <2>2. Span(n + 1) <= Span(MaxRetries)
    BY <1>5, <2>1, SpanFacts
  <2> HIDE DEF Span
  <2>3. now <= flight[f].began + Span(MaxRetries) + Timeout
    BY <1>2, <1>3, <1>6, <1>7, <2>1, <2>2
  <2> QED
    BY <1>2, <1>3, <1>7, <2>3 DEF Span
<1> QED
  BY <1>3, <1>8, <1>9 DEF Outstanding

LEMMA CircuitStep ==
    ASSUME TypeOK, FlightTimes, OutagesAreLeftAlone, [Next]_vars
    PROVE  OutagesAreLeftAlone'
<1> USE Constants
<1>1. circuit' = circuit \/ circuit' = ClosedCircuit \/ circuit' = FailureNoted
  <2>1. ASSUME NEW c \in Calls, CallComesIn(c) PROVE circuit' = circuit
    BY <2>1 DEF CallComesIn, Remembered, VerifyFromCache, RefuseUnknownKey, ForceRefresh,
       FetchKeySet, Introspect, Miss
  <2>2. ASSUME NEW f \in Flights, RequestStep(f) PROVE circuit' = circuit \/ circuit' = FailureNoted
    BY <2>2 DEF RequestStep, IssuerServes, AttemptFails, Retry, SequenceFails
  <2>3. ASSUME Arrival PROVE circuit' = ClosedCircuit
    BY <2>3 DEF Arrival, KeySetArrives, IntrospectionArrives
  <2>4. ASSUME NEW c \in Calls, IntrospectionDenied(c) \/ Abort(c) PROVE circuit' = circuit
    BY <2>4 DEF IntrospectionDenied, Abort
  <2>5. ASSUME Tick \/ UNCHANGED vars \/ (\E k \in Keys : Rotate(k) \/ Evict(k))
        PROVE  circuit' = circuit
    BY <2>5 DEF Tick, vars, Rotate, Evict
  <2> QED
    BY <2>1, <2>2, <2>3, <2>4, <2>5 DEF Next
<1> SUFFICES ASSUME NEW f \in Flights, flight'[f].phase # "off"
             PROVE  \/ flight'[f].began + OpenTime <= circuit'.openedUntil
                    \/ circuit'.openedUntil <= flight'[f].began
  BY DEF OutagesAreLeftAlone
<1>2. /\ flight[f] \in FlightType /\ now \in Nat /\ circuit.openedUntil \in Nat
      /\ flight[f].began \in Nat /\ flight[f].sent \in Nat
  BY DEF TypeOK, FlightType
<1>3. CASE flight'[f] = flight[f]
  <2>1. /\ flight[f].began + OpenTime <= circuit.openedUntil \/ circuit.openedUntil <= flight[f].began
        /\ flight[f].began <= now
    BY <1>2, <1>3 DEF OutagesAreLeftAlone, FlightTimes
  <2>2. circuit'.openedUntil \in {circuit.openedUntil, 0, now + OpenTime}
    BY <1>1 DEF ClosedCircuit, FailureNoted
  <2> QED
    BY <1>2, <1>3, <2>1, <2>2
<1>4. CASE flight'[f] = NoFlight
  BY <1>4 DEF NoFlight
<1>5. CASE Begins(f) /\ circuit' = circuit
  BY <1>2, <1>5 DEF Begins, NewFlight, CircuitOpen
<1>6. CASE GoesOn(f) /\ circuit' = circuit
  <2>1. flight[f].phase # "off" /\ flight'[f].began = flight[f].began
    BY <1>2, <1>6, GoesOnFacts
  <2> QED
    BY <1>6, <2>1 DEF OutagesAreLeftAlone
<1> QED
  BY <1>3, <1>4, <1>5, <1>6, FlightMoves

\* The answer on its way was served within the timeout.
LEMMA ReplyIsFresh ==
    ASSUME TypeOK, FlightTimes, NEW f \in Flights, flight[f].phase = "replied"
    PROVE  /\ flight[f].served \in Nat /\ now \in Nat
           /\ flight[f].served <= now /\ now <= flight[f].served + Timeout
<1>1. /\ flight[f].sent \in Nat /\ flight[f].served \in Nat /\ now \in Nat
      /\ now <= flight[f].sent + Timeout
      /\ flight[f].sent <= flight[f].served /\ flight[f].served <= now
  BY DEF TypeOK, FlightType, FlightTimes, Outstanding
<1> QED
  BY <1>1, Constants

\* What an arriving key set writes.
LEMMA Arrives ==
    ASSUME TypeOK, FlightTimes, ClockInv, NEW ttl \in MinTtl..MaxTtl, NEW tokenTtl \in 0..TokenTtl,
           KeySetArrives(ttl, tokenTtl)
    PROVE  /\ now' = now /\ published' = published /\ since' = since
           /\ \A k \in Keys :
                 /\ \/ tokens'[k] = tokens[k]
                    \/ k \in flight[Shared].keys /\ tokens'[k] \in Nat /\ tokens'[k] <= now + TokenTtl
                 /\ unknown'[k] \in Nat /\ unknown'[k] <= now + Cooldown
           /\ lastForced' \in Int /\ lastForced' <= now
           /\ jwks'.served = flight[Shared].served /\ jwks'.keys = flight[Shared].keys
           /\ jwks'.expires = now + ttl
<1> USE Constants
<1> DEFINE keys == flight[Shared].keys
<1>1. \A c \in Calls : calls[c].began \in Nat /\ calls[c].began <= now /\ now \in Nat
  BY DEF TypeOK, CallType, ClockInv
<1>2. ASSUME NEW k \in Keys
      PROVE  /\ \/ tokens'[k] = tokens[k]
                \/ k \in keys /\ tokens'[k] \in Nat /\ tokens'[k] <= now + TokenTtl
             /\ unknown'[k] \in Nat /\ unknown'[k] <= now + Cooldown
  <2>1. PICK last \in [Keys -> Calls] :
          /\ Proven(k, keys) # {} => last[k] \in Proven(k, keys)
          /\ tokens' = [j \in Keys |-> IF tokenTtl > 0 /\ Proven(j, keys) # {}
                                       THEN calls[last[j]].began + tokenTtl ELSE tokens[j]]
    BY DEF KeySetArrives, KeepTokens
  <2>2. tokens'[k] = IF tokenTtl > 0 /\ Proven(k, keys) # {}
                     THEN calls[last[k]].began + tokenTtl ELSE tokens[k]
    BY <2>1
  <2>3. Proven(k, keys) # {} => k \in keys
    BY DEF Proven, Verified
  <2>4. PICK late \in [Keys -> Calls] :
          unknown' = [j \in Keys |-> IF Unresolved(j, keys) # {}
                                    THEN CooledUntil(calls[late[j]].began) ELSE unknown[j]]
    BY DEF KeySetArrives, CoolUnresolved
  <2>5. unknown[k] \in Nat /\ unknown[k] <= now + Cooldown
    BY DEF TypeOK, ClockInv
  <2>6. unknown'[k] = unknown[k] \/ unknown'[k] = calls[late[k]].began + Cooldown
    BY <2>4 DEF CooledUntil
  <2>7. last[k] \in Calls /\ late[k] \in Calls
    BY <2>1, <2>4
  <2> QED
    BY <1>1, <2>2, <2>3, <2>5, <2>6, <2>7
<1>3. lastForced' \in Int /\ lastForced' <= now
  <2>1. lastForced \in Int /\ lastForced <= now
    BY DEF TypeOK, ClockInv
  <2> QED
    BY <1>1, <2>1 DEF KeySetArrives, NoteForcedRefresh
<1> QED
  BY <1>2, <1>3 DEF KeySetArrives, issuerVars

\* A step keeps the caches, or it is one of these.
LEMMA CacheMoves ==
    ASSUME TypeOK, [Next]_vars
    PROVE  \/ UNCHANGED <<issuerVars, tokens, keyVars>>
           \/ \E c \in Calls, k \in Keys, g \in BOOLEAN, ttl \in 0..TokenTtl :
                 VerifyFromCache(c, k, g, ttl)
           \/ /\ UNCHANGED <<now, issuerVars, unknown, lastForced>>
              /\ jwks' = jwks \/ jwks' = NoDocument
              /\ \A k \in Keys : tokens'[k] \in {0, tokens[k]}
           \/ \E ttl \in MinTtl..MaxTtl, tokenTtl \in 0..TokenTtl : KeySetArrives(ttl, tokenTtl)
           \/ \E c \in Calls, ttl \in 0..TokenTtl : IntrospectionArrives(c, ttl)
           \/ \E k \in Keys : Rotate(k) \/ Evict(k)
<1> USE DEF issuerVars, keyVars
<1>1. ASSUME NEW c \in Calls, CallComesIn(c)
      PROVE  \/ UNCHANGED <<issuerVars, tokens, keyVars>>
             \/ \E k \in Keys, g \in BOOLEAN, ttl \in 0..TokenTtl : VerifyFromCache(c, k, g, ttl)
             \/ /\ UNCHANGED <<now, issuerVars, unknown, lastForced>>
                /\ jwks' = jwks \/ jwks' = NoDocument
                /\ \A k \in Keys : tokens'[k] \in {0, tokens[k]}
  <2>1. ASSUME NEW k \in Keys, NEW g \in BOOLEAN,
               RefuseUnknownKey(c, k, g) \/ ForceRefresh(c, k, g) \/ FetchKeySet(c, k, g)
                   \/ Introspect(c, k, g)
        PROVE  /\ UNCHANGED <<now, issuerVars, unknown, lastForced>>
               /\ jwks' = jwks \/ jwks' = NoDocument
               /\ \A j \in Keys : tokens'[j] \in {0, tokens[j]}
    <3>1. UNCHANGED <<now, issuerVars, unknown, lastForced>> /\ (jwks' = jwks \/ jwks' = NoDocument)
      BY <2>1 DEF RefuseUnknownKey, ForceRefresh, FetchKeySet, Introspect, Miss
    <3>2. tokens' = Forget(k, g)
      BY <2>1 DEF RefuseUnknownKey, ForceRefresh, FetchKeySet, Introspect
    <3> QED
      BY <3>1, <3>2 DEF Forget, TypeOK
  <2> QED
    BY <1>1, <2>1 DEF CallComesIn, Remembered
<1>2. ASSUME NEW f \in Flights, RequestStep(f) PROVE UNCHANGED <<issuerVars, tokens, keyVars>>
  BY <1>2 DEF RequestStep, IssuerServes, AttemptFails, Retry, SequenceFails
<1>3. ASSUME \/ Tick \/ UNCHANGED vars
             \/ \E c \in Calls : IntrospectionDenied(c) \/ Abort(c)
      PROVE  UNCHANGED <<issuerVars, tokens, keyVars>>
  BY <1>3 DEF Tick, vars, IntrospectionDenied, Abort
<1> QED
  BY <1>1, <1>2, <1>3 DEF Next, Arrival

LEMMA ClockStep ==
    ASSUME TypeOK, FlightTimes, ClockInv, [Next]_vars
    PROVE  ClockInv'
<1> USE Constants
<1>1. /\ now \in Nat /\ now' \in Nat /\ now <= now'
      /\ jwks.served \in Nat /\ jwks.expires \in Nat /\ lastForced \in Int
      /\ \A k \in Keys : since[k] \in Nat /\ tokens[k] \in Nat /\ unknown[k] \in Nat
  BY ClockMoves, TickIs DEF TypeOK
<1>2. ASSUME NEW c \in Calls PROVE calls'[c].began <= now'
  <2>1. calls[c].began \in Nat /\ calls[c].began <= now
    BY DEF TypeOK, CallType, ClockInv
  <2> QED
    BY <1>1, <2>1, CallMoves
<1> SUFFICES /\ \A k \in Keys : /\ since'[k] <= now'
                               /\ tokens'[k] <= now' + TokenTtl
                               /\ unknown'[k] <= now' + Cooldown
             /\ lastForced' <= now'
             /\ jwks'.served <= now' /\ jwks'.expires <= jwks'.served + Timeout + MaxTtl
  BY <1>2 DEF ClockInv
<1>3. CASE UNCHANGED <<issuerVars, tokens, keyVars>>
  BY <1>1, <1>3 DEF issuerVars, keyVars, ClockInv
<1>4. ASSUME NEW c \in Calls, NEW k \in Keys, NEW g \in BOOLEAN, NEW ttl \in 0..TokenTtl,
             VerifyFromCache(c, k, g, ttl)
      PROVE  ClockInv'
  <2>1. UNCHANGED <<now, issuerVars, keyVars>> /\ \A j \in Keys : tokens'[j] \in {0, now + ttl, tokens[j]}
    BY <1>4 DEF VerifyFromCache, Miss, TypeOK
  <2> QED
    BY <1>1, <1>2, <2>1 DEF issuerVars, keyVars, ClockInv
<1>5. CASE /\ UNCHANGED <<now, issuerVars, unknown, lastForced>>
           /\ jwks' = jwks \/ jwks' = NoDocument
           /\ \A k \in Keys : tokens'[k] \in {0, tokens[k]}
  BY <1>1, <1>5 DEF issuerVars, ClockInv, NoDocument
<1>6. ASSUME NEW ttl \in MinTtl..MaxTtl, NEW tokenTtl \in 0..TokenTtl, KeySetArrives(ttl, tokenTtl)
      PROVE  ClockInv'
  <2>1. /\ flight[Shared].served \in Nat /\ flight[Shared].served <= now
        /\ now <= flight[Shared].served + Timeout
    BY <1>6, ReplyIsFresh DEF KeySetArrives, Flights
  <2> QED
    BY <1>1, <1>2, <1>6, <2>1, Arrives DEF ClockInv
<1>7. ASSUME NEW c \in Calls, NEW ttl \in 0..TokenTtl, IntrospectionArrives(c, ttl)
      PROVE  ClockInv'
  <2>1. calls[c].began \in Nat /\ calls[c].began <= now
    BY DEF TypeOK, CallType, ClockInv
  <2>2. /\ UNCHANGED <<now, issuerVars, keyVars>>
        /\ \A k \in Keys : tokens'[k] \in {calls[c].began + ttl, tokens[k]}
    BY <1>7 DEF IntrospectionArrives, TypeOK
  <2> QED
    BY <1>1, <1>2, <2>1, <2>2 DEF issuerVars, keyVars, ClockInv
<1>8. ASSUME NEW k \in Keys, Rotate(k) \/ Evict(k) PROVE ClockInv'
  <2>1. /\ UNCHANGED <<now, jwks, lastForced>>
        /\ \A j \in Keys : /\ since'[j] \in {now, since[j]}
                           /\ tokens'[j] \in {0, tokens[j]} /\ unknown'[j] \in {0, unknown[j]}
    BY <1>8 DEF Rotate, Evict, TypeOK, keyVars, issuerVars
  <2> QED
    BY <1>1, <1>2, <2>1 DEF ClockInv
<1> QED
  BY <1>3, <1>4, <1>5, <1>6, <1>7, <1>8, CacheMoves DEF ClockInv

LEMMA IssuerMoves ==
    ASSUME TypeOK, [Next]_vars
    PROVE  \/ UNCHANGED issuerVars
           \/ \E k \in Keys : Rotate(k)
<1>1. CASE \E c \in Calls, k \in Keys, g \in BOOLEAN, ttl \in 0..TokenTtl : VerifyFromCache(c, k, g, ttl)
  BY <1>1 DEF VerifyFromCache, Miss
<1> QED
  BY <1>1, CacheMoves DEF issuerVars, Evict, KeySetArrives, IntrospectionArrives

LEMMA SnapshotStep ==
    ASSUME TypeOK, FlightTimes, ClockInv, SnapshotInv, [Next]_vars
    PROVE  SnapshotInv'
<1> USE Constants
<1>1. /\ now \in Nat /\ since \in [Keys -> Nat] /\ jwks.served \in Nat /\ jwks.served <= now
      /\ Shared \in Flights
  BY DEF TypeOK, ClockInv, Flights
<1>2. ASSUME NEW k \in Keys, Rotate(k), NEW j \in Keys, NEW time \in Nat, time <= now,
             since'[j] < time
      PROVE  since[j] < time /\ (j \in published' <=> j \in published)
  BY <1>1, <1>2 DEF Rotate
<1>3. ASSUME NEW j \in Keys, since'[j] < jwks'.served
      PROVE  j \in jwks'.keys <=> j \in published'
  <2>1. CASE \E k \in Keys : Rotate(k)
    <3>1. jwks' = jwks
      BY <2>1 DEF Rotate, keyVars
    <3> QED
      BY <1>1, <1>2, <1>3, <2>1, <3>1 DEF SnapshotInv
  <2>2. CASE UNCHANGED issuerVars /\ jwks' = jwks
    BY <1>3, <2>2 DEF issuerVars, SnapshotInv
  <2>3. CASE jwks' = NoDocument /\ UNCHANGED issuerVars
    BY <1>1, <1>3, <2>3 DEF NoDocument, issuerVars
  <2>4. ASSUME NEW ttl \in MinTtl..MaxTtl, NEW tokenTtl \in 0..TokenTtl,
               KeySetArrives(ttl, tokenTtl)
        PROVE  j \in jwks'.keys <=> j \in published'
    <3>1. flight[Shared].phase = "replied"
      BY <2>4 DEF KeySetArrives
    <3> QED
      BY <1>1, <1>3, <2>4, <3>1, Arrives DEF SnapshotInv
  <2> QED
    BY <2>1, <2>2, <2>3, <2>4, CacheMoves DEF keyVars, issuerVars, VerifyFromCache, Miss,
       IntrospectionArrives, Evict
<1>4. ASSUME NEW f \in Flights, NEW j \in Keys,
             flight'[f].phase = "replied", since'[j] < flight'[f].served
      PROVE  j \in flight'[f].keys <=> j \in published'
  <2>1. CASE flight'[f] = flight[f]
    <3>1. flight[f].served \in Nat /\ flight[f].served <= now
      BY <1>4, <2>1, ReplyIsFresh
    <3>2. CASE UNCHANGED issuerVars
      BY <1>4, <2>1, <3>2 DEF issuerVars, SnapshotInv
    <3>3. CASE \E k \in Keys : Rotate(k)
      BY <1>2, <1>4, <2>1, <3>1, <3>3 DEF SnapshotInv
    <3> QED
      BY <3>2, <3>3, IssuerMoves
  <2>2. CASE flight'[f] = NoFlight
    BY <1>4, <2>2 DEF NoFlight
  <2>3. CASE published' = published /\ (Begins(f) \/ GoesOn(f))
    <3>1. flight[f] \in FlightType
      BY DEF TypeOK
    <3>2. flight'[f].keys = published
      BY <1>4, <2>3, <3>1, GoesOnFacts DEF Begins, NewFlight
    <3> QED
      BY <2>3, <3>2
  <2> QED
    BY <2>1, <2>2, <2>3, FlightMoves
<1> QED
  BY <1>3, <1>4 DEF SnapshotInv

LEMMA FreshStep ==
    ASSUME TypeOK, FlightTimes, ClockInv, FreshInv, [Next]_vars
    PROVE  FreshInv'
<1> USE Constants
<1>1. /\ now \in Nat /\ now' \in Nat /\ now <= now'
      /\ jwks.served \in Nat /\ jwks.expires \in Nat /\ lastForced \in Int
      /\ \A k \in Keys : unknown[k] \in Nat
  BY ClockMoves, TickIs DEF TypeOK
<1> SUFFICES ASSUME jwks'.expires > now'
             PROVE  /\ lastForced' <= jwks'.served + Timeout
                    /\ \A k \in Keys : unknown'[k] <= jwks'.served + Timeout + Cooldown
  BY DEF FreshInv, KeySetHeld
<1>2. CASE UNCHANGED keyVars
  BY <1>1, <1>2 DEF keyVars, FreshInv, KeySetHeld
<1>3. CASE UNCHANGED <<jwks, lastForced>> /\ \A k \in Keys : unknown'[k] \in {0, unknown[k]}
  BY <1>1, <1>3 DEF FreshInv, KeySetHeld
<1>4. CASE jwks' = NoDocument
  BY <1>1, <1>4 DEF NoDocument
<1>5. ASSUME NEW ttl \in MinTtl..MaxTtl, NEW tokenTtl \in 0..TokenTtl, KeySetArrives(ttl, tokenTtl)
      PROVE  /\ lastForced' <= jwks'.served + Timeout
             /\ \A k \in Keys : unknown'[k] <= jwks'.served + Timeout + Cooldown
  <2>1. flight[Shared].served \in Nat /\ now <= flight[Shared].served + Timeout
    BY <1>5, ReplyIsFresh DEF KeySetArrives, Flights
  <2> QED
    BY <1>1, <1>5, <2>1, Arrives
<1> QED
  BY <1>2, <1>3, <1>4, <1>5, CacheMoves DEF keyVars, VerifyFromCache, IntrospectionArrives,
     Rotate, Evict, TypeOK

-----------------------------------------------------------------------------
(* What an answer rests on. *)

\* A retired key in the set in use was published less than two lifetimes ago; a
\* published key that is not in it appeared at the earliest as long ago as the
\* set was served.
LEMMA HeldSet ==
    ASSUME TypeOK, ClockInv, SnapshotInv, KeySetHeld, NEW k \in Keys
    PROVE  /\ k \in jwks.keys /\ k \notin published => now < since[k] + Timeout + MaxTtl
           /\ k \notin jwks.keys /\ k \in published => jwks.served <= since[k]
<1>1. /\ now \in Nat /\ since[k] \in Nat /\ jwks.served \in Nat /\ jwks.expires \in Nat
      /\ jwks.expires > now /\ jwks.expires <= jwks.served + Timeout + MaxTtl
  BY DEF TypeOK, ClockInv, KeySetHeld
<1>2. since[k] < jwks.served => (k \in jwks.keys <=> k \in published)
  BY DEF SnapshotInv
<1> QED
  BY <1>1, <1>2, Constants

\* The same of an answer that arrives.
LEMMA ArrivingReply ==
    ASSUME TypeOK, FlightTimes, SnapshotInv, NEW f \in Flights, flight[f].phase = "replied",
           NEW k \in Keys, ~ (k \in flight[f].keys <=> k \in published)
    PROVE  now <= since[k] + Timeout
<1>1. /\ flight[f].served \in Nat /\ now \in Nat /\ now <= flight[f].served + Timeout
      /\ since[k] \in Nat
  BY ReplyIsFresh DEF TypeOK
<1>2. flight[f].served <= since[k]
  BY <1>1 DEF SnapshotInv
<1> QED
  BY <1>1, <1>2, Constants

LEMMA TokenStep ==
    ASSUME TypeOK, FlightTimes, ClockInv, SnapshotInv, TokenInv, [Next]_vars
    PROVE  TokenInv'
<1> USE Constants
<1> SUFFICES ASSUME NEW k \in Keys, k \notin published'
             PROVE  tokens'[k] < since'[k] + Timeout + MaxTtl + TokenTtl
  BY DEF TokenInv
<1>1. /\ now \in Nat /\ since \in [Keys -> Nat] /\ tokens \in [Keys -> Nat]
      /\ tokens[k] <= now + TokenTtl
      /\ k \notin published => tokens[k] < since[k] + Timeout + MaxTtl + TokenTtl
  BY DEF TypeOK, ClockInv, TokenInv
<1>2. CASE UNCHANGED issuerVars /\ tokens'[k] \in {0, tokens[k]}
  BY <1>1, <1>2 DEF issuerVars
<1>3. ASSUME NEW c \in Calls, NEW j \in Keys, NEW g \in BOOLEAN, NEW ttl \in 0..TokenTtl,
             VerifyFromCache(c, j, g, ttl)
      PROVE  tokens'[k] < since'[k] + Timeout + MaxTtl + TokenTtl
  <2>1. UNCHANGED issuerVars /\ KeySetHeld /\ j \in jwks.keys
    BY <1>3 DEF VerifyFromCache, Miss
  <2>2. tokens'[k] \in {0, tokens[k]} \/ (k = j /\ tokens'[k] = now + ttl)
    BY <1>1, <1>3 DEF VerifyFromCache
  <2>3. CASE k = j /\ tokens'[k] = now + ttl
    <3>1. now < since[k] + Timeout + MaxTtl
      BY <2>1, <2>3, HeldSet DEF issuerVars
    <3> QED
      BY <1>1, <2>1, <2>3, <3>1 DEF issuerVars
  <2> QED
    BY <1>2, <2>1, <2>2, <2>3
<1>4. ASSUME NEW ttl \in MinTtl..MaxTtl, NEW tokenTtl \in 0..TokenTtl, KeySetArrives(ttl, tokenTtl)
      PROVE  tokens'[k] < since'[k] + Timeout + MaxTtl + TokenTtl
  <2>1. /\ published' = published /\ since' = since
        /\ \/ tokens'[k] = tokens[k]
           \/ k \in flight[Shared].keys /\ tokens'[k] \in Nat /\ tokens'[k] <= now + TokenTtl
    BY <1>4, Arrives
  <2>2. CASE tokens'[k] = tokens[k]
    BY <1>2, <2>1, <2>2 DEF issuerVars
  <2>3. CASE k \in flight[Shared].keys /\ tokens'[k] \in Nat /\ tokens'[k] <= now + TokenTtl
    <3>1. now <= since[k] + Timeout
      BY <1>4, <2>1, <2>3, ArrivingReply DEF KeySetArrives, Flights
    <3> QED
      BY <1>1, <2>1, <2>3, <3>1
  <2> QED
    BY <2>1, <2>2, <2>3
<1>5. ASSUME NEW c \in Calls, NEW ttl \in 0..TokenTtl, IntrospectionArrives(c, ttl)
      PROVE  tokens'[k] < since'[k] + Timeout + MaxTtl + TokenTtl
  <2>1. UNCHANGED issuerVars /\ flight[c].phase = "replied"
    BY <1>5 DEF IntrospectionArrives
  <2>2. \/ tokens'[k] = tokens[k]
        \/ k \in flight[c].keys /\ tokens'[k] = calls[c].began + ttl
    BY <1>1, <1>5 DEF IntrospectionArrives, Verified
  <2>3. CASE k \in flight[c].keys /\ tokens'[k] = calls[c].began + ttl
    <3>1. now <= since[k] + Timeout
      BY <2>1, <2>3, ArrivingReply DEF issuerVars, Flights
    <3>2. calls[c].began \in Nat /\ calls[c].began <= now
      BY DEF TypeOK, CallType, ClockInv
    <3> QED
      BY <1>1, <2>1, <2>3, <3>1, <3>2 DEF issuerVars
  <2> QED
    BY <1>2, <2>1, <2>2, <2>3
<1>6. ASSUME NEW j \in Keys, Rotate(j)
      PROVE  tokens'[k] < since'[k] + Timeout + MaxTtl + TokenTtl
  <2>1. tokens' = tokens /\ (since'[k] = now \/ (since'[k] = since[k] /\ k \notin published))
    BY <1>1, <1>6 DEF Rotate
  <2> QED
    BY <1>1, <2>1
<1>7. ASSUME NEW j \in Keys, Evict(j) PROVE UNCHANGED issuerVars /\ tokens'[k] \in {0, tokens[k]}
  BY <1>1, <1>7 DEF Evict
<1> QED
  BY <1>2, <1>3, <1>4, <1>5, <1>6, <1>7, CacheMoves DEF issuerVars

\* What the two properties say of one verdict.
Justified(pc, k, g) ==
    /\ pc = "accepted" /\ k \notin published => now - since[k] < Timeout + MaxTtl + TokenTtl
    /\ pc = "refused" /\ g /\ k \in published => now - since[k] < Timeout + Cooldown

LEMMA IncomingVerdict ==
    ASSUME TypeOK, ClockInv, SnapshotInv, FreshInv, TokenInv, NEW c \in Calls,
           NEW k \in Keys, NEW g \in BOOLEAN
    PROVE  /\ Hit(k, TRUE) => Justified("accepted", k, TRUE)
           /\ KeySetHeld /\ k \in jwks.keys => Justified(IF g THEN "accepted" ELSE "refused", k, g)
           /\ KeySetHeld /\ k \notin jwks.keys /\ RefreshCoolingDown(k) => Justified("refused", k, g)
<1> USE Constants
<1>1. /\ now \in Nat /\ since[k] \in Nat /\ tokens[k] \in Nat /\ jwks.served \in Nat
      /\ unknown[k] \in Nat /\ lastForced \in Int
  BY DEF TypeOK
<1>2. Hit(k, TRUE) => Justified("accepted", k, TRUE)
  BY <1>1 DEF Hit, TokenInv, Justified
<1>3. ASSUME KeySetHeld, k \in jwks.keys PROVE Justified(IF g THEN "accepted" ELSE "refused", k, g)
  <2>1. k \notin published => now < since[k] + Timeout + MaxTtl
    BY <1>3, HeldSet
  <2>2. CASE g
    BY <1>1, <2>1, <2>2 DEF Justified
  <2>3. CASE ~ g
    BY <2>3 DEF Justified
  <2> QED
    BY <2>2, <2>3
<1>4. ASSUME KeySetHeld, k \notin jwks.keys, RefreshCoolingDown(k) PROVE Justified("refused", k, g)
  <2>1. k \in published => jwks.served <= since[k]
    BY <1>4, HeldSet
  <2>2. lastForced <= jwks.served + Timeout /\ unknown[k] <= jwks.served + Timeout + Cooldown
    BY <1>4 DEF FreshInv
  <2>3. now < jwks.served + Timeout + Cooldown
    BY <1>1, <1>4, <2>2 DEF RefreshCoolingDown
  <2> QED
    BY <1>1, <2>1, <2>3 DEF Justified
<1> QED
  BY <1>2, <1>3, <1>4

LEMMA ArrivingVerdict ==
    ASSUME TypeOK, FlightTimes, SnapshotInv, NEW f \in Flights, flight[f].phase = "replied",
           NEW k \in Keys, NEW g \in BOOLEAN
    PROVE  Justified(IF g /\ k \in flight[f].keys THEN "accepted" ELSE "refused", k, g)
<1>1. now \in Nat /\ since[k] \in Nat
  BY DEF TypeOK
<1>2. ~ (k \in flight[f].keys <=> k \in published) => now <= since[k] + Timeout
  BY ArrivingReply
<1>3. CASE g /\ k \in flight[f].keys
  BY <1>1, <1>2, <1>3, Constants DEF Justified
<1>4. CASE ~ (g /\ k \in flight[f].keys)
  BY <1>1, <1>2, <1>4, Constants DEF Justified
<1> QED
  BY <1>3, <1>4

LEMMA VerdictStep ==
    ASSUME TypeOK, FlightTimes, ClockInv, SnapshotInv, FreshInv, TokenInv,
           KeysAgeOut, RotationIsSeen, [Next]_vars
    PROVE  KeysAgeOut' /\ RotationIsSeen'
<1> DEFINE Fine(c) ==
      /\ (calls'[c].pc = "accepted" /\ calls'[c].key \notin published')
            => now' - since'[calls'[c].key] < Timeout + MaxTtl + TokenTtl
      /\ (calls'[c].pc = "refused" /\ calls'[c].genuine /\ calls'[c].key \in published')
            => now' - since'[calls'[c].key] < Timeout + Cooldown
<1> SUFFICES ASSUME NEW c \in Calls PROVE Fine(c)
  BY DEF KeysAgeOut, RotationIsSeen
<1> USE Constants
<1>1. /\ now \in Nat /\ since \in [Keys -> Nat] /\ calls \in [Calls -> CallType]
      /\ calls[c].pc \in {"idle", "accepted", "refused"} \cup WaitingStates
      /\ calls[c].key \in Keys /\ calls[c].genuine \in BOOLEAN
  BY DEF TypeOK, CallType
<1>2. Justified(calls[c].pc, calls[c].key, calls[c].genuine)
  BY DEF Justified, KeysAgeOut, RotationIsSeen
<1>3. ASSUME UNCHANGED <<now, issuerVars>>,
             Justified(calls'[c].pc, calls'[c].key, calls'[c].genuine)
      PROVE  Fine(c)
  BY <1>3 DEF Justified, issuerVars
<1>4. ASSUME calls'[c].pc \notin {"accepted", "refused"} PROVE Fine(c)
  BY <1>4
<1>5. ASSUME UNCHANGED <<now, issuerVars>>, calls'[c] = calls[c] PROVE Fine(c)
  BY <1>2, <1>3, <1>5
<1>6. ASSUME NEW d \in Calls, CallComesIn(d) PROVE Fine(c)
  <2>1. UNCHANGED <<now, issuerVars>>
    BY <1>6 DEF CallComesIn, Remembered, VerifyFromCache, RefuseUnknownKey, ForceRefresh,
       FetchKeySet, Introspect, Miss
  <2>2. ASSUME NEW k \in Keys, NEW g \in BOOLEAN, NEW v, Answer(d, k, g, v), Justified(v, k, g)
        PROVE  Fine(c)
    <3>1. CASE c = d
      <4>1. calls'[c].pc = v /\ calls'[c].key = k /\ calls'[c].genuine = g
        BY <1>1, <2>2, <3>1 DEF Answer
      <4> QED
        BY <1>3, <2>1, <2>2, <4>1
    <3>2. CASE c # d
      BY <1>1, <1>5, <2>1, <2>2, <3>2 DEF Answer
    <3> QED
      BY <3>1, <3>2
  <2>3. ASSUME NEW k \in Keys, NEW g \in BOOLEAN, NEW f, NEW w \in WaitingStates, Fetch(d, k, g, f, w)
        PROVE  Fine(c)
    <3>1. CASE c = d
      <4>1. calls'[c].pc \in {"idle", w}
        BY <1>1, <2>3, <3>1 DEF Fetch, Wait, Idle
      <4> QED
        BY <1>4, <4>1 DEF WaitingStates
    <3>2. CASE c # d
      BY <1>1, <1>5, <2>1, <2>3, <3>2 DEF Fetch, Wait
    <3> QED
      BY <3>1, <3>2
  <2>4. ASSUME NEW k \in Keys, Remembered(d, k) PROVE Fine(c)
    BY <2>2, <2>4, IncomingVerdict DEF Remembered
  <2>5. ASSUME NEW k \in Keys, NEW g \in BOOLEAN, NEW ttl, VerifyFromCache(d, k, g, ttl) PROVE Fine(c)
    BY <2>2, <2>5, IncomingVerdict DEF VerifyFromCache
  <2>6. ASSUME NEW k \in Keys, NEW g \in BOOLEAN, RefuseUnknownKey(d, k, g) PROVE Fine(c)
    BY <2>2, <2>6, IncomingVerdict DEF RefuseUnknownKey
  <2>7. ASSUME NEW k \in Keys, NEW g \in BOOLEAN,
               ForceRefresh(d, k, g) \/ FetchKeySet(d, k, g) \/ Introspect(d, k, g)
        PROVE  Fine(c)
    BY <2>3, <2>7 DEF ForceRefresh, FetchKeySet, Introspect, WaitingStates
  <2> QED
    BY <1>6, <2>4, <2>5, <2>6, <2>7 DEF CallComesIn
<1>7. ASSUME NEW S, calls' = Dismissed(S), UNCHANGED <<now, issuerVars>> PROVE Fine(c)
  <2>1. calls'[c] = calls[c] \/ calls'[c] = Idle
    BY <1>7 DEF Dismissed
  <2> QED
    BY <1>4, <1>5, <1>7, <2>1 DEF Idle
<1>8. ASSUME NEW f \in Flights, NEW S, flight[f].phase = "replied",
             calls' = Judged(S, flight[f].keys), UNCHANGED <<now, issuerVars>>
      PROVE  Fine(c)
  <2>1. CASE c \notin S
    BY <1>5, <1>8, <2>1 DEF Judged
  <2>2. CASE c \in S
    <3> DEFINE v == IF calls[c].genuine /\ calls[c].key \in flight[f].keys
                    THEN "accepted" ELSE "refused"
    <3>1. calls'[c] = [calls[c] EXCEPT !.began = 0, !.pc = v]
      BY <1>8, <2>2 DEF Judged, Verified
    <3>2. calls[c] \in CallType
      BY <1>1
    <3> HIDE DEF v
    <3>3. calls'[c].pc = v /\ calls'[c].key = calls[c].key /\ calls'[c].genuine = calls[c].genuine
      BY <3>1, <3>2 DEF CallType
    <3>4. Justified(v, calls[c].key, calls[c].genuine)
      BY <1>1, <1>8, ArrivingVerdict DEF v
    <3> QED
      BY <1>3, <1>8, <3>3, <3>4
  <2> QED
    BY <2>1, <2>2
<1>9. ASSUME NEW f \in Flights, RequestStep(f) PROVE Fine(c)
  BY <1>5, <1>7, <1>9 DEF RequestStep, IssuerServes, AttemptFails, Retry, SequenceFails
<1>10. ASSUME Arrival PROVE Fine(c)
  BY <1>8, <1>10 DEF Arrival, KeySetArrives, IntrospectionArrives, Flights
<1>11. ASSUME NEW d \in Calls, IntrospectionDenied(d) \/ Abort(d) PROVE Fine(c)
  BY <1>7, <1>11 DEF IntrospectionDenied, Abort
<1>12. ASSUME NEW k \in Keys, Rotate(k) PROVE Fine(c)
  <2>1. now' = now /\ calls' = calls
    BY <1>12 DEF Rotate
  <2>2. CASE calls[c].key = k
    BY <1>1, <1>12, <2>1, <2>2 DEF Rotate
  <2>3. CASE calls[c].key # k
    BY <1>1, <1>2, <1>12, <2>1, <2>3 DEF Rotate, Justified
  <2> QED
    BY <2>2, <2>3
<1>13. ASSUME NEW k \in Keys, Evict(k) PROVE Fine(c)
  BY <1>5, <1>13 DEF Evict
<1>14. CASE Tick
  <2>1. calls'[c] = IF Waiting(c) THEN calls[c] ELSE Idle
    BY <1>14 DEF Tick, Dismissed
  <2> QED
    BY <1>4, <2>1 DEF Waiting, WaitingStates, Idle
<1>15. CASE UNCHANGED vars
  BY <1>5, <1>15 DEF vars
<1> QED
  BY <1>6, <1>9, <1>10, <1>11, <1>12, <1>13, <1>14, <1>15 DEF Next

-----------------------------------------------------------------------------
(* The theorems. *)

LEMMA IInvInit == Init => IInv
<1> SUFFICES ASSUME Init PROVE IInv
  OBVIOUS
<1>1. TypeOK
  BY TypeInit
<1>2. \A f \in Flights : flight[f] = NoFlight
  BY DEF Init
<1>3. \A c \in Calls : calls[c] = Idle
  BY DEF Init
<1>4. FlightTimes
  BY <1>2 DEF FlightTimes, NoFlight, Outstanding
<1>5. ClockInv
  <2>1. now = 0 /\ lastForced = -Cooldown /\ jwks.served = 0 /\ jwks.expires = 0
    BY DEF Init, NoDocument
  <2>2. \A k \in Keys : since[k] = 0 /\ tokens[k] = 0 /\ unknown[k] = 0
    BY DEF Init
  <2>3. \A c \in Calls : calls[c].began = 0
    BY <1>3, IdleFields
  <2> QED
    BY <2>1, <2>2, <2>3, Constants DEF ClockInv
<1>6. SnapshotInv
  <2>1. jwks.served = 0 /\ \A k \in Keys : since[k] = 0
    BY DEF Init, NoDocument
  <2>2. \A f \in Flights : flight[f].phase = "off"
    BY <1>2 DEF NoFlight
  <2> QED
    BY <2>1, <2>2 DEF SnapshotInv
<1>7. FreshInv
  BY DEF Init, FreshInv, KeySetHeld, NoDocument
<1>8. TokenInv
  BY Constants DEF Init, TokenInv
<1>9. WaitInv
  BY <1>3, IdleFields DEF WaitInv, Waiters
<1>10. KeysAgeOut /\ RotationIsSeen
  BY <1>3, IdleFields DEF KeysAgeOut, RotationIsSeen
<1>11. OutagesAreLeftAlone
  BY <1>2 DEF OutagesAreLeftAlone, NoFlight
<1> QED
  BY <1>1, <1>4, <1>5, <1>6, <1>7, <1>8, <1>9, <1>10, <1>11 DEF IInv

LEMMA IInvStep == IInv /\ [Next]_vars => IInv'
BY TypeStep, FlightTimesStep, ClockStep, SnapshotStep, FreshStep, TokenStep, WaitStep, VerdictStep,
   CircuitStep DEF IInv

\* The strengthened invariant holds of every behaviour: what is known of requests,
\* of the cached key set, of accepted tokens and of calls that wait.
THEOREM Invariance == Spec => []IInv
BY IInvInit, IInvStep, PTL DEF Spec

\* Whatever the timeouts and lifetimes, a token is accepted only while its key was
\* published less than Timeout + MaxTtl + TokenTtl ago, in either mode.
THEOREM RetiredKeysAgeOut == Spec => []KeysAgeOut
<1>1. IInv => KeysAgeOut
  BY DEF IInv
<1> QED
  BY <1>1, Invariance, PTL

\* A genuine token is refused for less than Timeout + Cooldown after its key was
\* published, whatever failed and whoever aborted meanwhile.
THEOREM NewKeysAreSeen == Spec => []RotationIsSeen
<1>1. IInv => RotationIsSeen
  BY DEF IInv
<1> QED
  BY <1>1, Invariance, PTL

\* No sequence of requests begins while the circuit is open.
THEOREM CircuitIsRespected == Spec => []OutagesAreLeftAlone
<1>1. IInv => OutagesAreLeftAlone
  BY DEF IInv
<1> QED
  BY <1>1, Invariance, PTL

\* Every call that waits has a request to wait for.
THEOREM WaitersAreServed == Spec => []NobodyWaitsAlone
<1>1. IInv => NobodyWaitsAlone
  BY WaitsAlone DEF IInv
<1> QED
  BY <1>1, Invariance, PTL

\* No call waits longer than one sequence of attempts takes.
THEOREM WaitsEndInTime == Spec => []WaitsAreBounded
<1>1. IInv => WaitsAreBounded
  BY WaitsEnd DEF IInv
<1> QED
  BY <1>1, Invariance, PTL
====
