---- MODULE TokenVerifier ----
(***************************************************************************)
(* Bearer-token verification of the hosted server                          *)
(* (src/src/oauth-resource-server.ts): OAuthBearerTokenVerifier over       *)
(* OAuthJwtVerifier, which checks a token against the issuer's published   *)
(* keys, or OAuthIntrospectionVerifier, which asks the issuer about each   *)
(* token.  Both keep accepted tokens, retry behind a circuit breaker and   *)
(* serve callers that may abort; all of it shares one process and its      *)
(* module-level caches.                                                    *)
(*                                                                         *)
(* A token is the key (kid) it names and whether that key really signed    *)
(* it.  The issuer publishes and retires keys as it likes; to introspec-   *)
(* tion, a token is active while its key is published.                     *)
(***************************************************************************)
EXTENDS Integers

CONSTANTS
    Calls,              \* requests, each with a verifier and a signal of its own
    Shared,             \* the key-set fetch that calls share (jwksInFlight)
    Keys,
    Timeout,            \* jwksTimeoutMs, introspectionTimeoutMs
    MaxRetries, RetryDelay,
    CircuitFailures, OpenTime,
    Cooldown,           \* jwksRefreshCooldownMs
    MinTtl, MaxTtl,     \* the floor of jwksTtlSeconds, jwksCacheTtlSeconds
    TokenTtl,           \* tokenCacheTtlSeconds
    Horizon             \* bound: no call begins and no key changes from then on

ASSUME SharedIsNoCall == Shared \notin Calls
ASSUME TimesAreNatural ==
    {Timeout, MaxRetries, RetryDelay, OpenTime, Cooldown, MinTtl, TokenTtl, Horizon} \subseteq Nat
ASSUME PositiveBounds ==
    {CircuitFailures, MaxTtl, Cooldown} \subseteq Nat \ {0} /\ MinTtl <= MaxTtl
ASSUME SomeKey == Keys # {}

VARIABLES
    mode,               \* the verifier configured; introspection wins over keys
    now,
    published, since,   \* the issuer's keys, and when each last came or went
    tokens,             \* introspectionCache: until when a key's token is accepted
    jwks,               \* jwksCache: the key set, with when the issuer served it
    unknown,            \* jwksUnknownKidCache: until when a kid is not looked for
    lastForced,         \* jwksLastForcedRefreshMs
    circuit,
    flight,             \* the requests under way: the shared one, or one per call
    calls

issuerVars == <<published, since>>
keyVars == <<jwks, unknown, lastForced>>
vars == <<mode, now, issuerVars, tokens, keyVars, circuit, flight, calls>>

Flights == Calls \cup {Shared}

NoDocument == [keys |-> {}, expires |-> 0, served |-> 0]
NoFlight == [phase |-> "off", attempt |-> 0, began |-> 0, sent |-> 0, keys |-> {}, served |-> 0]
ClosedCircuit == [failures |-> 0, openedUntil |-> 0]

WaitingStates == {"looking", "refreshing", "introspecting"}

\* A call that has not begun, or that ended without a verdict on its token:
\* unavailable, denied or aborted.  A verdict stays in pc until the clock moves.
Idle == [pc |-> "idle", key |-> CHOOSE k \in Keys : TRUE, genuine |-> TRUE, began |-> 0]

FlightType ==
    [phase : {"off", "sent", "replied", "delay"}, attempt : 0..MaxRetries + 1,
     began : Nat, sent : Nat, keys : SUBSET Keys, served : Nat]

CallType ==
    [pc : {"idle", "accepted", "refused"} \cup WaitingStates,
     key : Keys, genuine : BOOLEAN, began : Nat]

TypeOK ==
    /\ mode \in {"jwks", "introspection"}
    /\ now \in Nat
    /\ published \in SUBSET Keys /\ since \in [Keys -> Nat]
    /\ tokens \in [Keys -> Nat]
    /\ jwks \in [keys : SUBSET Keys, expires : Nat, served : Nat]
    /\ unknown \in [Keys -> Nat]
    /\ lastForced \in Int
    /\ circuit \in [failures : Nat, openedUntil : Nat]
    /\ flight \in [Flights -> FlightType]
    /\ calls \in [Calls -> CallType]

Init ==
    /\ mode \in {"jwks", "introspection"}
    /\ now = 0
    /\ published \in SUBSET Keys /\ since = [k \in Keys |-> 0]
    /\ tokens = [k \in Keys |-> 0]
    /\ jwks = NoDocument
    /\ unknown = [k \in Keys |-> 0]
    /\ lastForced = -Cooldown      \* no entry: a refresh is allowed at once
    /\ circuit = ClosedCircuit
    /\ flight = [f \in Flights |-> NoFlight]
    /\ calls = [c \in Calls |-> Idle]

-----------------------------------------------------------------------------
(* The parts of verifyAccessToken. *)

Waiting(c) == calls[c].pc \in WaitingStates

\* The calls that resume when a request ends.
Waiters(f) ==
    {c \in Calls : \/ f = Shared /\ calls[c].pc \in {"looking", "refreshing"}
                   \/ f = c /\ calls[c].pc = "introspecting"}

\* The token of call c names k, and k signed it or did not.
Answer(c, k, g, verdict) ==
    calls' = [calls EXCEPT ![c] = [pc |-> verdict, key |-> k, genuine |-> g, began |-> 0]]
Wait(c, k, g, waiting) ==
    calls' = [calls EXCEPT ![c] = [pc |-> waiting, key |-> k, genuine |-> g, began |-> now]]

\* cachedAuthInfo.
Hit(k, g) == g /\ tokens[k] > now

\* Mutant: the cached key set never expires.
KeySetHeldForever == jwks.expires # 0

\* cachedJwks finds a key set.
KeySetHeld == jwks.expires > now

\* Mutant: a kid that was not found is left alone for as long as a key set lives.
CooledForTtl(began) == began + Cooldown + MaxTtl

\* rememberUnresolvedKid.
CooledUntil(began) == began + Cooldown

\* unresolvedKidCoolingDown, forcedRefreshAllowed.
RefreshCoolingDown(k) == unknown[k] > now \/ now - lastForced < Cooldown

\* Mutant: the circuit is not looked at.
CircuitIgnored == FALSE

\* retryAfterSeconds.
CircuitOpen == circuit.openedUntil > now

NewFlight ==
    [phase |-> "sent", attempt |-> 1, began |-> now, sent |-> now, keys |-> {}, served |-> 0]

\* fetchJwks, or a call's own introspection: join the request under way, begin
\* one, or give up at once while the circuit is open.
Fetch(c, k, g, f, waiting) ==
    IF flight[f].phase = "off" /\ CircuitOpen
    THEN /\ calls' = [calls EXCEPT ![c] = Idle]
         /\ UNCHANGED flight
    ELSE /\ Wait(c, k, g, waiting)
         /\ flight' = IF flight[f].phase = "off" THEN [flight EXCEPT ![f] = NewFlight]
                      ELSE flight

\* A call comes in whose token is not remembered; an ended entry is deleted.
Miss(c, k, g) ==
    /\ ~ Waiting(c) /\ now < Horizon
    /\ ~ Hit(k, g)
    /\ UNCHANGED <<mode, now, issuerVars, circuit>>

Forget(k, g) == IF g THEN [tokens EXCEPT ![k] = 0] ELSE tokens

-----------------------------------------------------------------------------
(* A call comes in. *)

Remembered(c, k) ==
    /\ ~ Waiting(c) /\ now < Horizon
    /\ Hit(k, TRUE)
    /\ Answer(c, k, TRUE, "accepted")
    /\ UNCHANGED <<mode, now, issuerVars, tokens, keyVars, circuit, flight>>

\* The cached set has the key: the signature decides.
VerifyFromCache(c, k, g, ttl) ==
    /\ mode = "jwks" /\ Miss(c, k, g)
    /\ KeySetHeld /\ k \in jwks.keys
    /\ Answer(c, k, g, IF g THEN "accepted" ELSE "refused")
    /\ tokens' = IF g THEN [tokens EXCEPT ![k] = IF ttl = 0 THEN 0 ELSE now + ttl] ELSE tokens
    /\ UNCHANGED <<keyVars, flight>>

\* The cached set has no such key, and it was refreshed a moment ago.
RefuseUnknownKey(c, k, g) ==
    /\ mode = "jwks" /\ Miss(c, k, g)
    /\ KeySetHeld /\ k \notin jwks.keys /\ RefreshCoolingDown(k)
    /\ Answer(c, k, g, "refused")
    /\ tokens' = Forget(k, g)
    /\ UNCHANGED <<keyVars, flight>>

\* The cached set has no such key: jwks(true).
ForceRefresh(c, k, g) ==
    /\ mode = "jwks" /\ Miss(c, k, g)
    /\ KeySetHeld /\ k \notin jwks.keys /\ ~ RefreshCoolingDown(k)
    /\ Fetch(c, k, g, Shared, "refreshing")
    /\ tokens' = Forget(k, g)
    /\ UNCHANGED keyVars

\* There is no key set, or it has expired.
FetchKeySet(c, k, g) ==
    /\ mode = "jwks" /\ Miss(c, k, g)
    /\ ~ KeySetHeld
    /\ Fetch(c, k, g, Shared, "looking")
    /\ tokens' = Forget(k, g)
    /\ jwks' = NoDocument
    /\ UNCHANGED <<unknown, lastForced>>

Introspect(c, k, g) ==
    /\ mode = "introspection" /\ Miss(c, k, g)
    /\ Fetch(c, k, g, c, "introspecting")
    /\ tokens' = Forget(k, g)
    /\ UNCHANGED keyVars

-----------------------------------------------------------------------------
(* A request is under way; sent is when its attempt, or its delay, began. *)

Outstanding(f) == flight[f].phase \in {"sent", "replied"}

\* The issuer answers from the keys it has at this moment.
IssuerServes(f) ==
    /\ flight[f].phase = "sent"
    /\ flight' = [flight EXCEPT ![f].phase = "replied", ![f].keys = published, ![f].served = now]
    /\ UNCHANGED <<mode, now, issuerVars, tokens, keyVars, circuit, calls>>

\* A timeout, network error or error status, with attempts left.
AttemptFails(f) ==
    /\ Outstanding(f)
    /\ flight[f].attempt <= MaxRetries
    /\ flight' = [flight EXCEPT ![f] =
           [@ EXCEPT !.phase = "delay", !.sent = now, !.keys = {}, !.served = 0]]
    /\ UNCHANGED <<mode, now, issuerVars, tokens, keyVars, circuit, calls>>

\* Mutant: every attempt counts as the first.
RetryAnew(f) ==
    /\ flight[f].phase = "delay" /\ now >= flight[f].sent + RetryDelay
    /\ flight' = [flight EXCEPT ![f].phase = "sent", ![f].sent = now]
    /\ UNCHANGED <<mode, now, issuerVars, tokens, keyVars, circuit, calls>>

\* oauthDependencyRetryDelay is over.
Retry(f) ==
    /\ flight[f].phase = "delay" /\ now >= flight[f].sent + RetryDelay
    /\ flight' = [flight EXCEPT ![f].phase = "sent", ![f].attempt = @ + 1, ![f].sent = now]
    /\ UNCHANGED <<mode, now, issuerVars, tokens, keyVars, circuit, calls>>

\* noteOAuthDependencyFailure; failures beyond CircuitFailures are not told apart.
FailureNoted ==
    LET failures == IF circuit.failures < CircuitFailures THEN circuit.failures + 1
                    ELSE CircuitFailures
    IN  [failures |-> failures,
         openedUntil |-> IF failures = CircuitFailures THEN now + OpenTime
                         ELSE circuit.openedUntil]

\* Calls that end without a verdict on the token.
Dismissed(resumed) == [c \in Calls |-> IF c \in resumed THEN Idle ELSE calls[c]]

\* The last attempt fails, or an answer arrives that is not worth another one (a
\* redirect, a malformed document): one failure for the circuit, and every call
\* that waits is told.
SequenceFails(f) ==
    /\ Outstanding(f)
    /\ flight' = [flight EXCEPT ![f] = NoFlight]
    /\ circuit' = FailureNoted
    /\ calls' = Dismissed(Waiters(f))
    /\ UNCHANGED <<mode, now, issuerVars, tokens, keyVars>>

Verified(c, keys) == calls[c].genuine /\ calls[c].key \in keys

\* The calls that resume have their verdict.
Judged(resumed, keys) ==
    [c \in Calls |-> IF c \in resumed
                     THEN [calls[c] EXCEPT !.began = 0,
                               !.pc = IF Verified(c, keys) THEN "accepted" ELSE "refused"]
                     ELSE calls[c]]

\* The resumed calls whose tokens name k and prove good, or bad after a refresh.
Proven(k, keys) == {c \in Waiters(Shared) : calls[c].key = k /\ Verified(c, keys)}
Unresolved(k, keys) ==
    {c \in Waiters(Shared) : /\ calls[c].pc = "refreshing" /\ calls[c].key = k
                             /\ ~ Verified(c, keys)}

\* rememberAuthInfo, with the time at which the call began.  Of several calls with
\* one token the last to finish decides; ttl is 0 where nothing is kept, because
\* the cache is off or the token ends too soon.
KeepTokens(keys, ttl) ==
    \E last \in [Keys -> Calls] :
        /\ \A k \in Keys : Proven(k, keys) # {} => last[k] \in Proven(k, keys)
        /\ tokens' = [k \in Keys |-> IF ttl > 0 /\ Proven(k, keys) # {}
                                     THEN calls[last[k]].began + ttl ELSE tokens[k]]

\* rememberUnresolvedKid.
CoolUnresolved(keys) ==
    \E last \in [Keys -> Calls] :
        /\ \A k \in Keys : Unresolved(k, keys) # {} => last[k] \in Unresolved(k, keys)
        /\ unknown' = [k \in Keys |-> IF Unresolved(k, keys) # {}
                                      THEN CooledUntil(calls[last[k]].began) ELSE unknown[k]]

\* noteForcedRefresh, with the time at which the call asked for the refresh.
NoteForcedRefresh ==
    LET refreshing == {c \in Calls : calls[c].pc = "refreshing"} IN
    IF refreshing = {} THEN UNCHANGED lastForced
    ELSE \E c \in refreshing : /\ \A d \in refreshing : calls[d].began <= calls[c].began
                               /\ lastForced' = calls[c].began

\* fetchJwksAttempt stores the set and every call that waits resumes with it.
KeySetArrives(ttl, tokenTtl) ==
    LET keys == flight[Shared].keys IN
    /\ flight[Shared].phase = "replied"
    /\ jwks' = [keys |-> keys, expires |-> now + ttl, served |-> flight[Shared].served]
    /\ flight' = [flight EXCEPT ![Shared] = NoFlight]
    /\ circuit' = ClosedCircuit
    /\ calls' = Judged(Waiters(Shared), keys)
    /\ KeepTokens(keys, tokenTtl)
    /\ CoolUnresolved(keys)
    /\ NoteForcedRefresh
    /\ UNCHANGED <<mode, now, issuerVars>>

\* The issuer says whether the call's token is active.
IntrospectionArrives(c, ttl) ==
    LET active == Verified(c, flight[c].keys) IN
    /\ flight[c].phase = "replied"
    /\ flight' = [flight EXCEPT ![c] = NoFlight]
    /\ circuit' = ClosedCircuit
    /\ calls' = Judged({c}, flight[c].keys)
    /\ tokens' = IF active /\ ttl > 0 THEN [tokens EXCEPT ![calls[c].key] = calls[c].began + ttl]
                 ELSE tokens
    /\ UNCHANGED <<mode, now, issuerVars, keyVars>>

\* The issuer rejects the introspection request itself (a 4xx status): neither a
\* success nor a failure to the circuit, and an invalid token to the caller.
IntrospectionDenied(c) ==
    /\ Outstanding(c)
    /\ flight' = [flight EXCEPT ![c] = NoFlight]
    /\ calls' = Dismissed({c})
    /\ UNCHANGED <<mode, now, issuerVars, tokens, keyVars, circuit>>

\* Mutant: the caller's signal cancels the fetch it shares.
AbortFetch(c) ==
    /\ Waiting(c)
    /\ calls' = Dismissed({c})
    /\ flight' = [flight EXCEPT ![IF mode = "jwks" THEN Shared ELSE c] = NoFlight]
    /\ UNCHANGED <<mode, now, issuerVars, tokens, keyVars, circuit>>

\* The caller's signal: an introspection of its own is cancelled and counts
\* neither way; a shared fetch goes on.
Abort(c) ==
    /\ Waiting(c)
    /\ calls' = Dismissed({c})
    /\ flight' = [flight EXCEPT ![c] = NoFlight]
    /\ UNCHANGED <<mode, now, issuerVars, tokens, keyVars, circuit>>

-----------------------------------------------------------------------------
(* The surroundings. *)

\* The issuer publishes a key or retires one.
Rotate(k) ==
    /\ now < Horizon
    /\ published' = IF k \in published THEN published \ {k} ELSE published \cup {k}
    /\ since' = [since EXCEPT ![k] = now]
    /\ UNCHANGED <<mode, now, tokens, keyVars, circuit, flight, calls>>

\* Entries for other tokens and kids push this one out of a full cache.
Evict(k) ==
    /\ \/ tokens[k] # 0 /\ tokens' = [tokens EXCEPT ![k] = 0] /\ UNCHANGED unknown
       \/ unknown[k] # 0 /\ unknown' = [unknown EXCEPT ![k] = 0] /\ UNCHANGED tokens
    /\ UNCHANGED <<mode, now, issuerVars, jwks, lastForced, circuit, flight, calls>>

\* When the timer that a request waits with fires.
Due(f) ==
    CASE Outstanding(f) -> flight[f].sent + Timeout
      [] flight[f].phase = "delay" -> flight[f].sent + RetryDelay
      [] OTHER -> now + 1

\* The clock does not pass a timer that is due.  What calls were told is forgotten.
Tick ==
    /\ now < Horizon \/ \E c \in Calls : Waiting(c)
    /\ \A f \in Flights : now < Due(f)
    /\ now' = now + 1
    /\ calls' = Dismissed({c \in Calls : ~ Waiting(c)})
    /\ UNCHANGED <<mode, issuerVars, tokens, keyVars, circuit, flight>>

CallComesIn(c) ==
    \E k \in Keys :
        \/ Remembered(c, k)
        \/ \E g \in BOOLEAN :
               \/ \E ttl \in 0..TokenTtl : VerifyFromCache(c, k, g, ttl)
               \/ RefuseUnknownKey(c, k, g) \/ ForceRefresh(c, k, g)
               \/ FetchKeySet(c, k, g) \/ Introspect(c, k, g)

RequestStep(f) ==
    IssuerServes(f) \/ AttemptFails(f) \/ Retry(f) \/ SequenceFails(f)

Arrival ==
    \/ \E ttl \in MinTtl..MaxTtl, tokenTtl \in 0..TokenTtl : KeySetArrives(ttl, tokenTtl)
    \/ \E c \in Calls, ttl \in 0..TokenTtl : IntrospectionArrives(c, ttl)

Next ==
    \/ \E c \in Calls : CallComesIn(c) \/ IntrospectionDenied(c) \/ Abort(c)
    \/ \E f \in Flights : RequestStep(f)
    \/ Arrival
    \/ \E k \in Keys : Rotate(k) \/ Evict(k)
    \/ Tick

Spec == Init /\ [][Next]_vars

-----------------------------------------------------------------------------
(* Properties. *)

\* A retired key is soon worth nothing: a token is accepted only while its key
\* was published less than the three lifetimes that can add up ago: of the answer
\* that brought the set, of the set in the cache, and of the token in its own.
KeysAgeOut ==
    \A c \in Calls :
        (calls[c].pc = "accepted" /\ calls[c].key \notin published)
            => now - since[calls[c].key] < Timeout + MaxTtl + TokenTtl

\* A published key is soon known: a genuine token is refused only in the
\* cool-down that follows a refresh whose answer may have been on its way when
\* the key appeared.
RotationIsSeen ==
    \A c \in Calls :
        (calls[c].pc = "refused" /\ calls[c].genuine /\ calls[c].key \in published)
            => now - since[calls[c].key] < Timeout + Cooldown

\* While the circuit is open no sequence of requests begins: those under way began
\* before it opened, or after it closed.
OutagesAreLeftAlone ==
    \A f \in Flights :
        flight[f].phase # "off" =>
            \/ flight[f].began + OpenTime <= circuit.openedUntil
            \/ circuit.openedUntil <= flight[f].began

\* A call that waits has a request to wait for, whoever began it, joined it or
\* gave up on it since.
NobodyWaitsAlone ==
    \A c \in Calls, f \in Flights : c \in Waiters(f) => flight[f].phase # "off"

\* Whatever the issuer and the other callers do, a call waits no longer than one
\* sequence of attempts takes.
WaitsAreBounded ==
    \A c \in Calls :
        Waiting(c) => now - calls[c].began <= Timeout + MaxRetries * (Timeout + RetryDelay)
====
