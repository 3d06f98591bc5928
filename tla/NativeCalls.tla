---- MODULE NativeCalls ----
(***************************************************************************)
(* Tool calls that share one B2AuthManager (src/src/auth.ts) and reach B2  *)
(* through B2Client.withNativeCircuit (src/src/b2/client.ts).              *)
(*                                                                         *)
(* An authorization is known in two places, the manager's cachedAuth and   *)
(* the SDK's accountInfo, and at most one more is on its way.  A call runs *)
(* at most two attempts; an attempt authorizes, sends one request, reads   *)
(* the status and then the body, and is cut short by its caller's abort or *)
(* by the circuit deadline.  B2 may handle a request long after the call   *)
(* gave it up.  Writers call an endpoint of NON_IDEMPOTENT_B2_API_ENDPOINTS*)
(* and Readers any other one; Refreshers are b2_authorize_account calls,   *)
(* which run forceRefresh outside the circuit.                             *)
(***************************************************************************)
EXTENDS Naturals

CONSTANTS
    Writers, Readers, Refreshers,
    MaxRetries,     \* SDK_RETRY_OPTIONS.maxRetries: re-sends of a read
    MaxTokens       \* bound: authorizations that B2 issues

ASSUME KindsAreDisjoint ==
    /\ Writers \cap Readers = {}
    /\ Refreshers \cap (Writers \cup Readers) = {}

ASSUME BoundsAreNatural == MaxRetries \in Nat /\ MaxTokens \in Nat

VARIABLES
    \* B2AuthManager and the SDK client it owns.
    cachedAuth,     \* the token of cachedAuth, or NoToken
    fresh,          \* cachedAuth is younger than TOKEN_TTL_MS
    sdkAuth,        \* the token of the SDK's accountInfo, or NoToken
    inflight,       \* inflightAuth # null
    issued,         \* the token on its way in that authorization, or NoToken
    \* B2.
    minted,         \* number of tokens B2 has issued
    live,           \* the tokens B2 still accepts
    applied,        \* how often B2 has carried out the write of a Writer
    stray,          \* requests <<w, token>> given up and not yet handled
    \* The calls.
    pc, attempt, retries, token, aborted, wire, result,
    refused         \* the token whose request was answered 401, or NoToken

managerVars == <<cachedAuth, fresh, sdkAuth, inflight, issued>>
b2Vars == <<minted, live, applied, stray>>
callVars == <<pc, attempt, retries, token, aborted, wire, result, refused>>
vars == <<managerVars, b2Vars, callVars>>

Circuited == Writers \cup Readers
Calls == Circuited \cup Refreshers
NoToken == 0
Token == 1..MaxTokens

\* wire: the request of a call that is on its way, or how B2 has answered it.
\* "rejected" is a status below 500 other than 401 and 408, "trouble" 408 or 5xx.
Replies == {"ok", "unauthorized", "rejected", "trouble"}
\* result: how an attempt ended.  "lost" is an error of the connection without a
\* status, "unknown" operation_status_unknown, "unknownAborted" the same with the
\* caller's abort as its cause.  Definite ends tell that no write happened:
\* createErrorHasKnownProviderRejection counts on them.
Definite == {"unauthorized", "rejected", "aborted", "open"}
Results == Definite \cup {"ok", "trouble", "lost", "unknown", "unknownAborted",
                         "timedOut"}

TypeOK ==
    /\ cachedAuth \in Token \cup {NoToken} /\ sdkAuth \in Token \cup {NoToken}
    /\ issued \in Token \cup {NoToken}
    /\ fresh \in BOOLEAN /\ inflight \in BOOLEAN
    /\ minted \in 0..MaxTokens /\ live \subseteq Token
    /\ applied \in [Writers -> Nat]
    /\ stray \subseteq (Writers \X Token)
    /\ pc \in [Calls -> {"idle", "firing", "waiting", "sent", "reading",
                         "settling", "done"}]
    /\ attempt \in [Calls -> {0, 1}]
    /\ retries \in [Calls -> 0..MaxRetries]
    /\ token \in [Calls -> Token \cup {NoToken}]
    /\ aborted \in [Calls -> BOOLEAN]
    /\ wire \in [Calls -> {"none", "flying"} \cup Replies]
    /\ result \in [Calls -> {"none"} \cup Results]
    /\ refused \in [Calls -> Token \cup {NoToken}]

Init ==
    /\ cachedAuth = NoToken /\ sdkAuth = NoToken /\ issued = NoToken
    /\ fresh = FALSE /\ inflight = FALSE
    /\ minted = 0 /\ live = {} /\ stray = {}
    /\ applied = [w \in Writers |-> 0]
    /\ pc = [c \in Calls |-> "idle"]
    /\ attempt = [c \in Calls |-> 0] /\ retries = [c \in Calls |-> 0]
    /\ token = [c \in Calls |-> NoToken] /\ refused = [c \in Calls |-> NoToken]
    /\ aborted = [c \in Calls |-> FALSE]
    /\ wire = [c \in Calls |-> "none"] /\ result = [c \in Calls |-> "none"]

-----------------------------------------------------------------------------
(* The authorization cache. *)

\* syncCachedAuthFromSdk: the SDK's token wins whenever it has another one.
SdkNews == sdkAuth # NoToken /\ sdkAuth # cachedAuth
SyncedAuth == IF SdkNews THEN sdkAuth ELSE cachedAuth
SyncedFresh == SdkNews \/ fresh

Sync ==
    /\ cachedAuth' = SyncedAuth /\ fresh' = SyncedFresh
    /\ UNCHANGED <<sdkAuth, inflight, issued>>

\* Mutant: an invalidation that leaves the SDK's copy alone.
InvalidateCacheOnly ==
    /\ cachedAuth' = NoToken /\ fresh' = FALSE /\ UNCHANGED sdkAuth

\* invalidate: both copies go, an authorization on its way stays.
Invalidate ==
    /\ cachedAuth' = NoToken /\ fresh' = FALSE /\ sdkAuth' = NoToken

\* The attempt of c is over with result r, and its request with it.
EndAttempt(c, r) ==
    /\ pc' = [pc EXCEPT ![c] = "settling"]
    /\ result' = [result EXCEPT ![c] = r]
    /\ wire' = [wire EXCEPT ![c] = "none"]
    /\ retries' = [retries EXCEPT ![c] = 0]

\* The request goes out with token t; nothing leaves for a caller that has gone.
Send(c, t) ==
    /\ token' = [token EXCEPT ![c] = t]
    /\ \/ aborted[c] /\ EndAttempt(c, "aborted")
       \/ /\ ~aborted[c]
          /\ pc' = [pc EXCEPT ![c] = "sent"]
          /\ wire' = [wire EXCEPT ![c] = "flying"]
          /\ UNCHANGED <<result, retries>>

\* The start of an attempt, up to its first await: fire runs getAuth, which uses
\* the cache, joins the authorization in flight, or starts one.  It is started
\* even for a caller that has gone; raceWithCallerAbort then turns him away.
GetAuth(c) ==
    /\ c \in Circuited /\ pc[c] = "firing"
    /\ cachedAuth' = SyncedAuth /\ fresh' = SyncedFresh /\ UNCHANGED sdkAuth
    /\ \/ /\ SyncedAuth # NoToken /\ SyncedFresh
          /\ Send(c, SyncedAuth)
          /\ UNCHANGED inflight
       \/ /\ ~(SyncedAuth # NoToken /\ SyncedFresh)
          /\ inflight' = TRUE
          /\ \/ aborted[c] /\ EndAttempt(c, "aborted")
             \/ /\ ~aborted[c]
                /\ pc' = [pc EXCEPT ![c] = "waiting"]
                /\ UNCHANGED <<result, wire, retries>>
          /\ UNCHANGED token
    /\ UNCHANGED <<issued, attempt, aborted, refused>>
    /\ UNCHANGED b2Vars

\* forceRefresh: invalidate, then getAuth, which joins what is in flight.
ForceRefresh(c) ==
    /\ c \in Refreshers /\ pc[c] = "idle"
    /\ Invalidate
    /\ inflight' = TRUE
    /\ pc' = [pc EXCEPT ![c] = "waiting"]
    /\ UNCHANGED <<issued, attempt, retries, token, aborted, wire, result, refused>>
    /\ UNCHANGED b2Vars

\* B2 answers b2_authorize_account with a new token.
AuthIssued ==
    /\ inflight /\ issued = NoToken /\ minted < MaxTokens
    /\ minted' = minted + 1 /\ live' = live \cup {minted + 1}
    /\ issued' = minted + 1
    /\ UNCHANGED <<cachedAuth, fresh, sdkAuth, inflight, applied, stray>>
    /\ UNCHANGED callVars

\* authorize resolves: the SDK and the manager keep the answer and everyone who
\* waits for it goes on with it; a refresher is answered with it.
AuthArrives ==
    /\ inflight /\ issued # NoToken
    /\ cachedAuth' = issued /\ sdkAuth' = issued /\ fresh' = TRUE
    /\ inflight' = FALSE /\ issued' = NoToken
    /\ LET waiters == {c \in Calls : pc[c] = "waiting"} IN
       /\ token' = [c \in Calls |-> IF c \in waiters \cap Circuited THEN issued
                                    ELSE token[c]]
       /\ pc' = [c \in Calls |-> IF c \notin waiters THEN pc[c]
                                 ELSE IF c \in Refreshers THEN "idle" ELSE "sent"]
       /\ wire' = [c \in Calls |-> IF c \in waiters \cap Circuited THEN "flying"
                                   ELSE wire[c]]
    /\ UNCHANGED <<attempt, retries, aborted, result, refused>>
    /\ UNCHANGED b2Vars

\* authorize rejects: the credential is refused, or B2 cannot be reached.
AuthFails(r) ==
    /\ inflight
    /\ inflight' = FALSE /\ issued' = NoToken
    /\ LET waiters == {c \in Calls : pc[c] = "waiting"} IN
       /\ pc' = [c \in Calls |-> IF c \notin waiters THEN pc[c]
                                 ELSE IF c \in Refreshers THEN "idle" ELSE "settling"]
       /\ result' = [c \in Calls |-> IF c \in waiters \cap Circuited THEN r
                                     ELSE result[c]]
    /\ UNCHANGED <<cachedAuth, fresh, sdkAuth, attempt, retries, token, aborted,
                   wire, refused>>
    /\ UNCHANGED b2Vars

-----------------------------------------------------------------------------
(* One request: RequestSignalTransport and SharedRetryBudgetTransport.     *)

\* The request on the wire is given up; a write may still reach B2.
Strays(c) == IF c \in Writers /\ wire[c] = "flying" THEN {<<c, token[c]>>} ELSE {}

GiveUp(c) == stray' = stray \cup Strays(c)

\* What a request that did not get an answer means: a write may have happened.
Interrupted(c, r) == IF c \in Writers THEN r.write ELSE r.read

\* B2 handles the request: 401 for a token it no longer accepts, else the write
\* is carried out, or refused with a status; a 408 or 5xx may come with either.
Serve(c) ==
    /\ wire[c] = "flying"
    /\ \/ /\ token[c] \in live
          /\ \/ /\ \E r \in {"ok", "trouble"} : wire' = [wire EXCEPT ![c] = r]
                /\ applied' = IF c \in Writers THEN [applied EXCEPT ![c] = @ + 1]
                              ELSE applied
             \/ /\ \E r \in {"rejected", "trouble"} : wire' = [wire EXCEPT ![c] = r]
                /\ UNCHANGED applied
       \/ /\ token[c] \notin live
          /\ wire' = [wire EXCEPT ![c] = "unauthorized"]
          /\ UNCHANGED applied
    /\ UNCHANGED <<minted, live, stray, pc, attempt, retries, token, aborted,
                   result, refused>>
    /\ UNCHANGED managerVars

\* The same for a request nobody waits for any more.
ServeStray(s) ==
    /\ s \in stray
    /\ stray' = stray \ {s}
    /\ applied' = IF s[2] \in live THEN [applied EXCEPT ![s[1]] = @ + 1] ELSE applied
    /\ UNCHANGED <<minted, live>>
    /\ UNCHANGED managerVars /\ UNCHANGED callVars

\* The status line has arrived; the body has not been read.  A status other
\* than 2xx is definite from here on (withDefinitiveErrorJsonRead).
Headers(c) ==
    /\ pc[c] = "sent" /\ wire[c] \in Replies
    /\ pc' = [pc EXCEPT ![c] = "reading"]
    /\ UNCHANGED <<attempt, retries, token, aborted, wire, result, refused>>
    /\ UNCHANGED managerVars /\ UNCHANGED b2Vars

Body(c) ==
    /\ pc[c] = "reading"
    /\ EndAttempt(c, wire[c])
    /\ UNCHANGED <<attempt, token, aborted, refused>>
    /\ UNCHANGED managerVars /\ UNCHANGED b2Vars

\* The body cannot be read: an error keeps its status, a write that B2 answered
\* with 2xx is unknown (withUnknownStatusJsonRead).
BodyLost(c) ==
    /\ pc[c] = "reading"
    /\ EndAttempt(c, IF wire[c] # "ok" THEN wire[c]
                     ELSE Interrupted(c, [write |-> "unknown", read |-> "lost"]))
    /\ UNCHANGED <<attempt, token, aborted, refused>>
    /\ UNCHANGED managerVars /\ UNCHANGED b2Vars

\* The SDK renews an expired authorization by itself and sends the request
\* again; the manager learns of it in syncCachedAuthFromSdk.
SdkRefresh(c) ==
    /\ pc[c] = "reading" /\ wire[c] = "unauthorized" /\ minted < MaxTokens
    /\ minted' = minted + 1 /\ live' = live \cup {minted + 1}
    /\ sdkAuth' = minted + 1
    /\ token' = [token EXCEPT ![c] = minted + 1]
    /\ wire' = [wire EXCEPT ![c] = "flying"]
    /\ pc' = [pc EXCEPT ![c] = "sent"]
    /\ UNCHANGED <<cachedAuth, fresh, inflight, issued, applied, stray>>
    /\ UNCHANGED <<attempt, retries, aborted, result, refused>>

\* No answer within requestTimeoutMs, or the connection is lost.  A write is
\* unknown after a timeout, an abort or a loss isResponseLostTransportError knows;
\* any other socket error (EPIPE, EHOSTUNREACH) is passed on as it is.
Timeout(c) ==
    /\ pc[c] = "sent"
    /\ \E r \in {Interrupted(c, [write |-> "unknown", read |-> "lost"]), "lost"} :
           EndAttempt(c, r)
    /\ GiveUp(c)
    /\ UNCHANGED <<minted, live, applied>>
    /\ UNCHANGED <<attempt, token, aborted, refused>>
    /\ UNCHANGED managerVars

\* Mutant: every endpoint is retried.
RetryAny(c) ==
    /\ \/ pc[c] = "sent"
       \/ pc[c] = "reading" /\ wire[c] = "trouble"
    /\ retries[c] < MaxRetries /\ ~aborted[c]
    /\ retries' = [retries EXCEPT ![c] = @ + 1]
    /\ wire' = [wire EXCEPT ![c] = "flying"]
    /\ pc' = [pc EXCEPT ![c] = "sent"]
    /\ GiveUp(c)
    /\ UNCHANGED <<minted, live, applied>>
    /\ UNCHANGED <<attempt, token, aborted, result, refused>>
    /\ UNCHANGED managerVars

\* The SDK sends again after a lost answer or a transient status, while the
\* process-wide budget has tokens; withOperationRetryPolicy forbids it to writers.
Retry(c) ==
    /\ c \notin Writers
    /\ \/ pc[c] = "sent"
       \/ pc[c] = "reading" /\ wire[c] = "trouble"
    /\ retries[c] < MaxRetries /\ ~aborted[c]
    /\ retries' = [retries EXCEPT ![c] = @ + 1]
    /\ wire' = [wire EXCEPT ![c] = "flying"]
    /\ pc' = [pc EXCEPT ![c] = "sent"]
    /\ UNCHANGED <<attempt, token, aborted, result, refused>>
    /\ UNCHANGED managerVars /\ UNCHANGED b2Vars

-----------------------------------------------------------------------------
(* The caller's abort, the circuit, and the end of an attempt.             *)

\* Mutant: a waiting caller that leaves takes the authorization with it.
AbortSharedAuth(c) ==
    /\ pc[c] = "waiting" /\ ~aborted[c]
    /\ aborted' = [aborted EXCEPT ![c] = TRUE]
    /\ inflight' = FALSE /\ issued' = NoToken
    /\ LET waiters == {d \in Calls : pc[d] = "waiting"} IN
       /\ pc' = [d \in Calls |-> IF d \notin waiters THEN pc[d]
                                 ELSE IF d \in Refreshers THEN "idle" ELSE "settling"]
       /\ result' = [d \in Calls |-> IF d \in waiters \cap Circuited THEN "aborted"
                                     ELSE result[d]]
    /\ UNCHANGED <<cachedAuth, fresh, sdkAuth, attempt, retries, token, wire, refused>>
    /\ UNCHANGED b2Vars

\* raceWithCallerAbort: the caller leaves, the authorization goes on.
AbortWaiting(c) ==
    /\ pc[c] = "waiting" /\ ~aborted[c]
    /\ \/ /\ c \in Circuited
          /\ aborted' = [aborted EXCEPT ![c] = TRUE]
          /\ EndAttempt(c, "aborted")
       \/ /\ c \in Refreshers
          /\ pc' = [pc EXCEPT ![c] = "idle"]
          /\ UNCHANGED <<retries, aborted, wire, result>>
    /\ UNCHANGED <<attempt, token, refused>>
    /\ UNCHANGED managerVars /\ UNCHANGED b2Vars

\* Mutant: an abort is told as one before the write is asked about.
AbortSentIsPlain(c) ==
    /\ pc[c] \in {"sent", "reading"} /\ ~aborted[c]
    /\ aborted' = [aborted EXCEPT ![c] = TRUE]
    /\ EndAttempt(c, IF pc[c] = "reading" /\ wire[c] # "ok" THEN wire[c] ELSE "aborted")
    /\ GiveUp(c)
    /\ UNCHANGED <<minted, live, applied>>
    /\ UNCHANGED <<attempt, token, refused>>
    /\ UNCHANGED managerVars

\* An abort with a request on the wire: a write may have happened.
AbortSent(c) ==
    /\ pc[c] \in {"sent", "reading"} /\ ~aborted[c]
    /\ aborted' = [aborted EXCEPT ![c] = TRUE]
    /\ EndAttempt(c, IF pc[c] = "reading" /\ wire[c] # "ok" THEN wire[c]
                     ELSE Interrupted(c, [write |-> "unknownAborted", read |-> "aborted"]))
    /\ GiveUp(c)
    /\ UNCHANGED <<minted, live, applied>>
    /\ UNCHANGED <<attempt, token, refused>>
    /\ UNCHANGED managerVars

\* withNativeCircuit runs a whole second attempt after a 401.
TriesAgain(c) ==
    /\ c \in Circuited
    /\ result[c] = "unauthorized" /\ attempt[c] = 0 /\ ~aborted[c]

\* An abort between two steps only raises the flag; it matters while another
\* attempt may follow.
AbortElsewhere(c) ==
    /\ ~aborted[c]
    /\ \/ pc[c] = "firing"
       \/ pc[c] = "settling" /\ TriesAgain(c)
    /\ aborted' = [aborted EXCEPT ![c] = TRUE]
    /\ UNCHANGED <<pc, attempt, retries, token, wire, result, refused>>
    /\ UNCHANGED managerVars /\ UNCHANGED b2Vars

\* The breaker is open: fire rejects without running anything.
CircuitOpen(c) ==
    /\ c \in Circuited /\ pc[c] = "firing"
    /\ EndAttempt(c, "open")
    /\ UNCHANGED <<attempt, token, aborted, refused>>
    /\ UNCHANGED managerVars /\ UNCHANGED b2Vars

\* CIRCUIT_TIMEOUT_MS after fire the breaker rejects and the signal of the
\* attempt is aborted, so whatever the attempt was doing ends with it.
CircuitTimeout(c) ==
    /\ c \in Circuited /\ pc[c] \in {"waiting", "sent", "reading"}
    /\ EndAttempt(c, "timedOut")
    /\ GiveUp(c)
    /\ UNCHANGED <<minted, live, applied>>
    /\ UNCHANGED <<attempt, token, aborted, refused>>
    /\ UNCHANGED managerVars

Start(c) ==
    /\ c \in Circuited /\ pc[c] = "idle"
    /\ pc' = [pc EXCEPT ![c] = "firing"]
    /\ UNCHANGED <<attempt, retries, token, aborted, wire, result, refused>>
    /\ UNCHANGED managerVars /\ UNCHANGED b2Vars

\* The 401 may be that of the authorization itself, before any request: token[c]
\* is then still NoToken.
AttemptAgain(c) ==
    /\ pc[c] = "settling" /\ TriesAgain(c)
    /\ Invalidate
    /\ attempt' = [attempt EXCEPT ![c] = @ + 1]
    /\ refused' = [refused EXCEPT ![c] = token[c]]
    /\ token' = [token EXCEPT ![c] = NoToken]
    /\ result' = [result EXCEPT ![c] = "none"]
    /\ pc' = [pc EXCEPT ![c] = "firing"]
    /\ UNCHANGED <<inflight, issued, retries, aborted, wire>>
    /\ UNCHANGED b2Vars

\* Any other end is the caller's.  Both ways out of a circuit sync the cache.
\* A Writer is one write; a Reader comes back with another call.
Answer(c) ==
    /\ pc[c] = "settling" /\ ~TriesAgain(c)
    /\ Sync
    /\ token' = [token EXCEPT ![c] = NoToken]
    /\ refused' = [refused EXCEPT ![c] = NoToken]
    /\ attempt' = [attempt EXCEPT ![c] = 0]
    /\ \/ /\ c \in Writers
          /\ pc' = [pc EXCEPT ![c] = "done"]
          /\ UNCHANGED <<aborted, result>>
       \/ /\ c \notin Writers
          /\ pc' = [pc EXCEPT ![c] = "idle"]
          /\ aborted' = [aborted EXCEPT ![c] = FALSE]
          /\ result' = [result EXCEPT ![c] = "none"]
    /\ UNCHANGED <<retries, wire>>
    /\ UNCHANGED b2Vars

\* TOKEN_TTL_MS has passed.
AgeOut ==
    /\ fresh /\ cachedAuth # NoToken
    /\ fresh' = FALSE
    /\ UNCHANGED <<cachedAuth, sdkAuth, inflight, issued>>
    /\ UNCHANGED b2Vars /\ UNCHANGED callVars

\* B2 stops accepting a token.
Expire(t) ==
    /\ t \in live /\ live' = live \ {t}
    /\ UNCHANGED <<minted, applied, stray>>
    /\ UNCHANGED managerVars /\ UNCHANGED callVars

-----------------------------------------------------------------------------
CallStep(c) ==
    \/ Start(c) \/ GetAuth(c) \/ ForceRefresh(c) \/ CircuitOpen(c)
    \/ Headers(c) \/ Body(c) \/ BodyLost(c) \/ SdkRefresh(c)
    \/ Retry(c) \/ Timeout(c) \/ CircuitTimeout(c)
    \/ AttemptAgain(c) \/ Answer(c)

Next ==
    \/ \E c \in Calls : CallStep(c)
    \/ \E c \in Calls : AbortWaiting(c) \/ AbortSent(c) \/ AbortElsewhere(c)
    \/ \E c \in Calls : Serve(c)
    \/ \E s \in stray : ServeStray(s)
    \/ AuthIssued
    \/ AuthArrives
    \/ \E r \in {"unauthorized", "trouble"} : AuthFails(r)
    \/ AgeOut
    \/ \E t \in live : Expire(t)

Spec == Init /\ [][Next]_vars

-----------------------------------------------------------------------------
(* Properties. *)

\* A write is carried out by B2 at most once for a call, whatever is lost,
\* retried, renewed or given up: only a request that B2 refused is sent again.
WritesHappenOnce == \A w \in Writers : applied[w] <= 1

\* What a call says of a write is true: a status below 500 other than 408, an
\* abort told as one and an open circuit mean that B2 has not carried it out and
\* never will, so that a claim on it may be released; a success means that it has.
\* A 408, a 5xx, a lost connection and a timeout leave it open.
AnswersAreTrue ==
    \A w \in Writers : pc[w] = "done" =>
        /\ result[w] \in Definite => applied[w] = 0 /\ ~\E t \in Token : <<w, t>> \in stray
        /\ result[w] = "ok" => applied[w] = 1

\* Calls that share an authorization do not share its callers' aborts: only a
\* call whose own caller left is answered so.
AbortsArePrivate ==
    \A c \in Calls : result[c] \in {"aborted", "unknownAborted"} => aborted[c]

\* The second attempt after a 401 never uses the refused token again, although
\* two copies of it were kept and other calls go on refreshing both.
RefusedTokenStaysOut ==
    \A c \in Calls : refused[c] # NoToken => token[c] # refused[c]
====
