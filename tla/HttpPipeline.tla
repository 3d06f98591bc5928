---- MODULE HttpPipeline ----
(***************************************************************************)
(* The request pipeline of http-fetch-handler.ts under http-server.ts: the *)
(* way of a request from admission to the release of its in-flight slot,   *)
(* with everything that can happen between two awaits, and the drain and   *)
(* close of the pipeline when the process is asked to stop.                *)
(*                                                                         *)
(* One action is one run-to-completion segment of the event loop.  Host,   *)
(* path and method checks that answer before a slot is taken change no     *)
(* state and are left out; a GET or DELETE has no body to wait for, which  *)
(* here is a "reading" step taken at once.  What the rate limiter, the     *)
(* credential provider and the capability discovery answer is a            *)
(* nondeterministic choice.                                                *)
(***************************************************************************)
EXTENDS InFlightLimiter, FiniteSets

CONSTANTS
    Requests,          \* connections, each serving one request at a time
    ClientKeys,        \* requestLimitKey: one per client address
    CredentialKeys,    \* CredentialResolution.cacheKey
    DiscoveryKey,      \* DISCOVERY_LIMIT_KEY
    VerificationKey,   \* CREDENTIAL_VERIFICATION_LIMIT_KEY
    NoKey,             \* a request that holds no slot
    NamesEncodable     \* FALSE: a tool name of a body may not fit in a header

ASSUME KeysCoverEveryUse ==
    /\ ClientKeys \cup CredentialKeys \cup {DiscoveryKey, VerificationKey} = Keys
    /\ NoKey \notin Keys
    /\ NamesEncodable \in BOOLEAN

ASSUME RequestsAreFinite == IsFiniteSet(Requests)

VARIABLES
    inFlight,      \* the limiter of request slots
    verification,  \* the limiter of header-credential verifications
    pc,            \* where each request is suspended
    limitKey,      \* the key under which a request's slot is accounted
    permit,        \* verificationPermitHeld
    prepared,      \* a PreparedMcpRequest exists for the request
    serverOpen,    \* an MCP server built for the request is open
    status,        \* what the connection was last answered
    shuttingDown, handlerClosed, forced, timerArmed, process

vars == <<inFlight, verification, pc, limitKey, permit, prepared, serverOpen,
          status, shuttingDown, handlerClosed, forced, timerArmed, process>>

requestVars == <<inFlight, verification, pc, limitKey, permit, prepared,
                 serverOpen, status>>
lifecycleVars == <<shuttingDown, handlerClosed, forced, timerArmed, process>>

Places == {"idle", "reading", "verifying", "dispatching", "streaming", "closing"}

\* The answers of the caps, told apart from every other answer.
Statuses == {"none", "capacity", "keyLimit", "other"}

TypeOK ==
    /\ inFlight \in Limiter
    /\ verification \in Limiter
    /\ pc \in [Requests -> Places]
    /\ limitKey \in [Requests -> Keys \cup {NoKey}]
    /\ permit \in [Requests -> BOOLEAN]
    /\ prepared \in [Requests -> BOOLEAN]
    /\ serverOpen \in [Requests -> BOOLEAN]
    /\ status \in [Requests -> Statuses]
    /\ shuttingDown \in BOOLEAN
    /\ handlerClosed \in BOOLEAN
    /\ forced \in BOOLEAN
    /\ timerArmed \in BOOLEAN
    /\ process \in {"up", "draining", "exited"}

Init ==
    /\ inFlight = EmptyLimiter
    /\ verification = EmptyLimiter
    /\ pc = [r \in Requests |-> "idle"]
    /\ limitKey = [r \in Requests |-> NoKey]
    /\ permit = [r \in Requests |-> FALSE]
    /\ prepared = [r \in Requests |-> FALSE]
    /\ serverOpen = [r \in Requests |-> FALSE]
    /\ status = [r \in Requests |-> "none"]
    /\ shuttingDown = FALSE
    /\ handlerClosed = FALSE
    /\ forced = FALSE
    /\ timerArmed = FALSE
    /\ process = "up"

-----------------------------------------------------------------------------
(* Admission. *)

Running == process # "exited"

Arrives(r) == Running /\ pc[r] = "idle"

\* An answer given before a slot is taken: nothing to clean up.
Refuse(r, why) ==
    /\ status' = [status EXCEPT ![r] = why]
    /\ UNCHANGED <<inFlight, verification, pc, limitKey, permit, prepared, serverOpen>>

\* A response with a body: its cleanup runs when the body has been consumed.
Answer(r, why) ==
    /\ pc' = [pc EXCEPT ![r] = "streaming"]
    /\ status' = [status EXCEPT ![r] = why]

RefuseWhileShuttingDown(r) ==
    /\ Arrives(r)
    /\ shuttingDown
    /\ Refuse(r, "other")
    /\ UNCHANGED lifecycleVars

RefuseAtCap(r, key) ==
    /\ Arrives(r)
    /\ ~shuttingDown
    /\ ~CanAcquire(inFlight, key)
    /\ Refuse(r, IF AtTotalCap(inFlight) THEN "capacity" ELSE "keyLimit")
    /\ UNCHANGED lifecycleVars

\* Mutant: an admission that does not look at the drain flag.
AdmitWhileDraining(r, key) ==
    /\ Arrives(r)
    /\ CanAcquire(inFlight, key)
    /\ inFlight' = Acquired(inFlight, key)
    /\ limitKey' = [limitKey EXCEPT ![r] = key]
    /\ \/ Answer(r, "other")
       \/ pc' = [pc EXCEPT ![r] = "reading"] /\ UNCHANGED status
    /\ UNCHANGED <<verification, permit, prepared, serverOpen>>
    /\ UNCHANGED lifecycleVars

\* The slot is taken before the rate limiter is asked.
Admit(r, key) ==
    /\ Arrives(r)
    /\ ~shuttingDown
    /\ CanAcquire(inFlight, key)
    /\ inFlight' = Acquired(inFlight, key)
    /\ limitKey' = [limitKey EXCEPT ![r] = key]
    /\ \/ Answer(r, "other")
       \/ pc' = [pc EXCEPT ![r] = "reading"] /\ UNCHANGED status
    /\ UNCHANGED <<verification, permit, prepared, serverOpen>>
    /\ UNCHANGED lifecycleVars

-----------------------------------------------------------------------------
(* The segment after the body: preflight, credentials, verification permit. *)

\* 413, a protocol or credential-header rejection, an unusable credential, or
\* an exception caught by the outer catch.
RejectAfterBody(r) ==
    /\ Running /\ pc[r] = "reading"
    /\ Answer(r, "other")
    /\ UNCHANGED <<inFlight, verification, limitKey, permit, prepared, serverOpen>>
    /\ UNCHANGED lifecycleVars

\* GET, DELETE and unsupported envelopes go to the SDK without credentials.
DispatchProtocolOnly(r) ==
    /\ Running /\ pc[r] = "reading"
    /\ pc' = [pc EXCEPT ![r] = "dispatching"]
    /\ UNCHANGED <<inFlight, verification, limitKey, permit, prepared, serverOpen, status>>
    /\ UNCHANGED lifecycleVars

\* dispatchDiscoveryMode up to its await.  Its promise is returned, not awaited,
\* so an exception of requestWithBodyAndHeaders leaves fetch and the Node server
\* answers 500 itself: no cleanup is attached to that answer.
Discover(r) ==
    IF ~CanRekey(inFlight, limitKey[r], DiscoveryKey)
    THEN Answer(r, "keyLimit") /\ UNCHANGED <<inFlight, limitKey, prepared>>
    ELSE /\ inFlight' = Rekeyed(inFlight, limitKey[r], DiscoveryKey)
         /\ \/ /\ Answer(r, "other")
               /\ limitKey' = [limitKey EXCEPT ![r] = DiscoveryKey]
               /\ UNCHANGED prepared
            \/ /\ pc' = [pc EXCEPT ![r] = "dispatching"]
               /\ limitKey' = [limitKey EXCEPT ![r] = DiscoveryKey]
               /\ prepared' = [prepared EXCEPT ![r] = TRUE]
               /\ UNCHANGED status
            \/ /\ ~NamesEncodable
               /\ pc' = [pc EXCEPT ![r] = "idle"]
               /\ status' = [status EXCEPT ![r] = "other"]
               /\ limitKey' = [limitKey EXCEPT ![r] = NoKey]
               /\ UNCHANGED prepared

EnterDiscovery(r) ==
    /\ Running /\ pc[r] = "reading"
    /\ Discover(r)
    /\ UNCHANGED <<verification, permit, serverOpen>>
    /\ UNCHANGED lifecycleVars

\* Mutant: verifications counted by the request limiter itself.
ResolveOnSharedLimiter(r, key, fresh) ==
    /\ Running /\ pc[r] = "reading"
    /\ CanRekey(inFlight, limitKey[r], key) /\ CanAcquire(inFlight, VerificationKey)
    /\ inFlight' = LET rekeyed == Rekeyed(inFlight, limitKey[r], key)
                   IN IF fresh THEN Acquired(rekeyed, VerificationKey) ELSE rekeyed
    /\ limitKey' = [limitKey EXCEPT ![r] = key]
    /\ pc' = [pc EXCEPT ![r] = "verifying"]
    /\ UNCHANGED <<verification, permit, prepared, serverOpen, status>>
    /\ UNCHANGED lifecycleVars

\* The slot moves from the client's key to the credential's key, then the
\* rate of the credential and, for a fresh header credential, the separate
\* verification limiter are asked.
ResolveCredential(r, key, fresh) ==
    /\ Running /\ pc[r] = "reading"
    /\ IF ~CanRekey(inFlight, limitKey[r], key)
       THEN Answer(r, "keyLimit") /\ UNCHANGED <<inFlight, verification, limitKey, permit>>
       ELSE /\ inFlight' = Rekeyed(inFlight, limitKey[r], key)
            /\ limitKey' = [limitKey EXCEPT ![r] = key]
            /\ \/ Answer(r, "other") /\ UNCHANGED <<verification, permit>>
               \/ /\ ~fresh
                  /\ pc' = [pc EXCEPT ![r] = "verifying"]
                  /\ UNCHANGED <<verification, permit, status>>
               \/ /\ fresh /\ ~CanAcquire(verification, VerificationKey)
                  /\ Answer(r, IF AtTotalCap(verification) THEN "capacity" ELSE "keyLimit")
                  /\ UNCHANGED <<verification, permit>>
               \/ \* acquired, and released again when the rate is exceeded
                  /\ fresh /\ CanAcquire(verification, VerificationKey)
                  /\ verification' = Released(Acquired(verification, VerificationKey), VerificationKey)
                  /\ Answer(r, "other")
                  /\ UNCHANGED permit
               \/ /\ fresh /\ CanAcquire(verification, VerificationKey)
                  /\ verification' = Acquired(verification, VerificationKey)
                  /\ permit' = [permit EXCEPT ![r] = TRUE]
                  /\ pc' = [pc EXCEPT ![r] = "verifying"]
                  /\ UNCHANGED status
    /\ UNCHANGED <<prepared, serverOpen>>
    /\ UNCHANGED lifecycleVars

-----------------------------------------------------------------------------
(* The segment after capability discovery; its finally frees the permit. *)

FreePermit(r) ==
    /\ verification' = IF permit[r] THEN Released(verification, VerificationKey)
                       ELSE verification
    /\ permit' = [permit EXCEPT ![r] = FALSE]

CapabilitiesKnown(r) ==
    /\ Running /\ pc[r] = "verifying"
    /\ FreePermit(r)
    /\ prepared' = [prepared EXCEPT ![r] = TRUE]
    /\ \/ pc' = [pc EXCEPT ![r] = "dispatching"] /\ UNCHANGED status
       \/ ~NamesEncodable /\ Answer(r, "other")   \* caught by the outer catch
    /\ UNCHANGED <<inFlight, limitKey, serverOpen>>
    /\ UNCHANGED lifecycleVars

\* Mutant: a failure that keeps the verification permit.
FailKeepingPermit(r) ==
    /\ Running /\ pc[r] = "verifying"
    /\ UNCHANGED verification
    /\ permit' = [permit EXCEPT ![r] = FALSE]
    /\ \/ Answer(r, "other") /\ UNCHANGED <<inFlight, limitKey, prepared>>
       \/ Discover(r)
    /\ UNCHANGED serverOpen
    /\ UNCHANGED lifecycleVars

\* Discovery failed: an error answer, or the discovery server when the provider
\* may downgrade a rejected credential.
CapabilitiesFailed(r) ==
    /\ Running /\ pc[r] = "verifying"
    /\ FreePermit(r)
    /\ \/ Answer(r, "other") /\ UNCHANGED <<inFlight, limitKey, prepared>>
       \/ Discover(r)
    /\ UNCHANGED serverOpen
    /\ UNCHANGED lifecycleVars

-----------------------------------------------------------------------------
(* Dispatch to the MCP handler, the response body, and its cleanup. *)

\* The SDK builds its server inside the prepared request scope; without one
\* the factory throws.
OpenServer(r) ==
    /\ Running /\ pc[r] = "dispatching"
    /\ prepared[r] /\ ~serverOpen[r]
    /\ serverOpen' = [serverOpen EXCEPT ![r] = TRUE]
    /\ UNCHANGED <<inFlight, verification, pc, limitKey, permit, prepared, status>>
    /\ UNCHANGED lifecycleVars

\* dispatchToMcp answers, or maps an exception to 500; without a body the
\* cleanup starts at once.
DispatchSettles(r) ==
    /\ Running /\ pc[r] = "dispatching"
    /\ \/ Answer(r, "other")
       \/ /\ pc' = [pc EXCEPT ![r] = "closing"]
          /\ status' = [status EXCEPT ![r] = "other"]
    /\ UNCHANGED <<inFlight, verification, limitKey, permit, prepared, serverOpen>>
    /\ UNCHANGED lifecycleVars

\* Mutant: a cleanup that is never attached to the body.
BodyNeverConsumed(r) == Running /\ pc[r] = "streaming" /\ UNCHANGED vars

\* The body ended, failed or was cancelled by the client's disconnect: runCleanup
\* runs once and starts closing the request's servers.
BodyConsumed(r) ==
    /\ Running /\ pc[r] = "streaming"
    /\ pc' = [pc EXCEPT ![r] = "closing"]
    /\ UNCHANGED <<inFlight, verification, limitKey, permit, prepared, serverOpen, status>>
    /\ UNCHANGED lifecycleVars

CloseHandlerIf(condition) ==
    /\ handlerClosed' = (handlerClosed \/ condition)
    /\ timerArmed' = (timerArmed /\ ~handlerClosed')

Forget(r) ==
    /\ pc' = [pc EXCEPT ![r] = "idle"]
    /\ limitKey' = [limitKey EXCEPT ![r] = NoKey]
    /\ prepared' = [prepared EXCEPT ![r] = FALSE]
    /\ status' = [status EXCEPT ![r] = "none"]

\* The servers are closed, then the slot is released and a drain may complete.
Finalize(r) ==
    /\ Running /\ pc[r] = "closing"
    /\ serverOpen' = [serverOpen EXCEPT ![r] = FALSE]
    /\ inFlight' = Released(inFlight, limitKey[r])
    /\ Forget(r)
    /\ CloseHandlerIf(shuttingDown /\ inFlight'.active = 0)
    /\ UNCHANGED <<verification, permit, shuttingDown, forced, process>>

-----------------------------------------------------------------------------
(* Drain, close and process shutdown. *)

\* Mutant: a drain that relies on the last request to close the handler.
DrainWithoutTimer ==
    IF shuttingDown THEN UNCHANGED <<shuttingDown, handlerClosed, timerArmed>>
    ELSE /\ shuttingDown' = TRUE
         /\ handlerClosed' = (inFlight.active = 0)
         /\ timerArmed' = FALSE

\* drain is idempotent; an idle pipeline closes its handler at once and
\* disarms the forced-close timer it just armed.
DrainEffect ==
    IF shuttingDown THEN UNCHANGED <<shuttingDown, handlerClosed, timerArmed>>
    ELSE /\ shuttingDown' = TRUE
         /\ handlerClosed' = (inFlight.active = 0)
         /\ timerArmed' = (inFlight.active # 0)

Drain ==
    /\ Running /\ ~shuttingDown
    /\ DrainEffect
    /\ UNCHANGED <<forced, process>>
    /\ UNCHANGED requestVars

\* close: drain, then close the handler whatever is in flight.
Close ==
    /\ Running /\ ~handlerClosed
    /\ shuttingDown' = TRUE
    /\ handlerClosed' = TRUE
    /\ timerArmed' = FALSE
    /\ forced' = TRUE
    /\ UNCHANGED process
    /\ UNCHANGED requestVars

\* The forced-close timer of drain, SHUTDOWN_DRAIN_MS after it.
ForcedClose ==
    /\ Running /\ timerArmed
    /\ handlerClosed' = TRUE
    /\ timerArmed' = FALSE
    /\ forced' = TRUE
    /\ UNCHANGED <<shuttingDown, process>>
    /\ UNCHANGED requestVars

\* SIGTERM, SIGINT or a server error.
Shutdown ==
    /\ process = "up"
    /\ process' = "draining"
    /\ DrainEffect
    /\ UNCHANGED forced
    /\ UNCHANGED requestVars

\* httpServer.close calls back when every connection is answered or its client
\* has gone, which may be at any moment: exit 0 whatever is in flight.
HttpServerClosed ==
    /\ process = "draining"
    /\ process' = "exited"
    /\ UNCHANGED <<shuttingDown, handlerClosed, forced, timerArmed>>
    /\ UNCHANGED requestVars

\* Mutant: a drain timer that waits for the requests in flight.
DrainTimeoutWhenIdle ==
    /\ process = "draining" /\ ~timerArmed /\ inFlight.active = 0
    /\ process' = "exited"
    /\ UNCHANGED <<shuttingDown, handlerClosed, forced, timerArmed>>
    /\ UNCHANGED requestVars

\* drainTimer, as long as the forced-close timer and armed after it: exit 1.
DrainTimeout ==
    /\ process = "draining" /\ ~timerArmed
    /\ process' = "exited"
    /\ UNCHANGED <<shuttingDown, handlerClosed, forced, timerArmed>>
    /\ UNCHANGED requestVars

-----------------------------------------------------------------------------
BodyRead(r) ==
    \/ RejectAfterBody(r)
    \/ DispatchProtocolOnly(r)
    \/ EnterDiscovery(r)
    \/ \E key \in CredentialKeys, fresh \in BOOLEAN : ResolveCredential(r, key, fresh)

RequestStep(r) ==
    \/ RefuseWhileShuttingDown(r)
    \/ \E key \in ClientKeys : RefuseAtCap(r, key) \/ Admit(r, key)
    \/ BodyRead(r)
    \/ CapabilitiesKnown(r)
    \/ CapabilitiesFailed(r)
    \/ OpenServer(r)
    \/ DispatchSettles(r)
    \/ BodyConsumed(r)
    \/ Finalize(r)

LifecycleStep ==
    \/ Drain \/ Close \/ ForcedClose \/ Shutdown \/ HttpServerClosed \/ DrainTimeout

Next == (\E r \in Requests : RequestStep(r)) \/ LifecycleStep

Spec == Init /\ [][Next]_vars

\* Timers fire; a body is read or cancelled (the server destroys idle sockets);
\* closing servers never rejects.  Nothing bounds a dispatch or a discovery.
Fairness ==
    /\ WF_vars(ForcedClose)
    /\ WF_vars(DrainTimeout)
    /\ \A r \in Requests : WF_vars(BodyConsumed(r)) /\ WF_vars(Finalize(r))

FairSpec == Spec /\ Fairness

-----------------------------------------------------------------------------
(* Properties. *)

Holders == {r \in Requests : pc[r] # "idle"}

HoldersOf(key) == {r \in Requests : limitKey[r] = key}

\* The limiter's total is the number of requests not yet cleaned up, and each
\* key's count the number of them accounted under that key: acquire, rekey and
\* release are balanced on every path out of fetch (the health gauge reports
\* this number).
SlotAccounting ==
    /\ inFlight.active = Cardinality(Holders)
    /\ \A key \in Keys : inFlight.byKey[key] = Cardinality(HoldersOf(key))

\* The verification limiter counts exactly the requests that wait for capability
\* discovery under a permit: every exit of that segment frees the permit.
PermitAccounting ==
    LET verifying == {r \in Requests : permit[r]}
    IN  /\ \A r \in verifying : pc[r] = "verifying"
        /\ verification.active = Cardinality(verifying)
        /\ verification.byKey[VerificationKey] = Cardinality(verifying)

\* MCP servers opened for requests never outnumber the global cap: a slot is
\* given back only after the servers of its request are closed.
OpenServersWithinCap == Cardinality({r \in Requests : serverOpen[r]}) <= MaxTotal

\* Draining waits: outside the forced close, the handler is closed only when no
\* request is in flight, and none is admitted afterwards.
HandlerClosesIdle == handlerClosed /\ ~forced => inFlight.active = 0 /\ Holders = {}

\* A request is turned away by a cap only when that many other requests hold
\* slots: an uncached credential does not use up its own caps.
RefusalsAreJustified ==
    [][\A r \in Requests :
        /\ (status'[r] = "capacity" /\ status[r] # "capacity") =>
               Cardinality(Holders \ {r}) >= MaxTotal
        /\ (status'[r] = "keyLimit" /\ status[r] # "keyLimit") =>
               Cardinality(Holders \ {r}) >= MaxPerKey]_vars

\* A response whose body is consumed gives its slot back.
BodyEndFreesSlot ==
    \A r \in Requests : pc[r] = "streaming" ~> (pc[r] = "idle" \/ process = "exited")

\* A drain closes the handler even when a request never settles.
DrainClosesHandler == shuttingDown ~> (handlerClosed \/ process = "exited")

\* A signalled process exits even when a connection never ends.
ShutdownExits == process = "draining" ~> process = "exited"
====
