---- MODULE CapabilityCache ----
(***************************************************************************)
(* Capability discovery (src/src/server.ts, called by the HTTP handler of  *)
(* src/src/http-fetch-handler.ts): which tools a credential gets is what   *)
(* B2 answers when the credential authorizes.  Answers are kept per key    *)
(* for Ttl, requests that need the same answer share one discovery, and a  *)
(* discovery for a credential out of request headers needs a permit.       *)
(*                                                                         *)
(* An answer is the instant at which B2 gave it: what B2 would say now may *)
(* be different.  The code runs on one thread; an action is what happens   *)
(* between two awaits, in which the clock is read more than once.          *)
(***************************************************************************)
EXTENDS Integers, FiniteSets

CONSTANTS
    Requests,
    None,               \* no request
    Keys,               \* capability cache keys, one per credential
    Ttl,                \* B2_CAPABILITY_CACHE_TTL_MS
    MaxEntries,         \* B2_CAPABILITY_CACHE_MAX_ENTRIES
    VerificationCap,    \* discoveries for header credentials at a time
    MaxInvalidations,   \* bound: invalidations of a key
    Horizon             \* bound: the clock stops here

ASSUME NoneIsNoRequest == None \notin Requests
ASSUME FiniteRequests == IsFiniteSet(Requests)
\* A TTL of zero keeps nothing: rememberCapabilities returns at once.
ASSUME Positive == {Ttl, MaxEntries, VerificationCap} \subseteq Nat \ {0}
ASSUME BoundsAreNatural == {MaxInvalidations, Horizon} \subseteq Nat
ASSUME SomeKey == Keys # {}

VARIABLES
    now,
    cache,          \* capabilityCache: per key, its answer and when that expires
    older,          \* the insertion order of the Map: pairs of keys, the older first
    inflight,       \* capabilityInflight: per key, the request whose discovery is shared
    req,
    invalidated     \* how often each key was invalidated

vars == <<now, cache, older, inflight, req, invalidated>>

NoEntry == [asOf |-> 0, expires |-> 0]
EntryType == [asOf : Nat, expires : Nat]

\* permit: "exempt" for a credential that is not out of headers, "held" while a
\* header credential counts against the cap, "spared" when none was asked of it.
ReqType ==
    [pc : {"idle", "asking", "answered", "joined"}, key : Keys, start : Nat, asOf : Nat,
     permit : {"exempt", "held", "spared"}, of : Requests \cup {None}]

Idle ==
    [pc |-> "idle", key |-> CHOOSE k \in Keys : TRUE, start |-> 0, asOf |-> 0,
     permit |-> "exempt", of |-> None]

TypeOK ==
    /\ now \in Nat
    /\ cache \in [Keys -> EntryType]
    /\ older \subseteq Keys \X Keys
    /\ inflight \in [Keys -> Requests \cup {None}]
    /\ req \in [Requests -> ReqType]
    /\ invalidated \in [Keys -> Nat]

Init ==
    /\ now = 0
    /\ cache = [k \in Keys |-> NoEntry]
    /\ older = {}
    /\ inflight = [k \in Keys |-> None]
    /\ req = [r \in Requests |-> Idle]
    /\ invalidated = [k \in Keys |-> 0]

-----------------------------------------------------------------------------
(* The cache. *)

Held(k) == cache[k] # NoEntry
Fresh(k, t) == cache[k].expires > t

Swept(t) == [k \in Keys |-> IF Fresh(k, t) THEN cache[k] ELSE NoEntry]

Entries(c) == {k \in Keys : c[k] # NoEntry}

\* The order of what is left after other keys were deleted.
Among(S, o) == o \cap (S \X S)

\* delete and set: of the keys S, k becomes the youngest.
MovedLast(k, S, o) == Among(S \ {k}, o) \cup (S \ {k}) \X {k}

Oldest(S, o) == CHOOSE k \in S : \A j \in S \ {k} : <<k, j>> \in o

\* set and enforceCacheMax, on a Map c: a key it holds keeps its place.  One
\* entry was added at most, so at most one goes, the oldest.
Store(k, entry, c) ==
    LET keys == Entries(c) \cup {k}
        order == IF k \in Entries(c) THEN Among(keys, older) ELSE MovedLast(k, keys, older)
        oldest == Oldest(keys, order)
    IN  IF Cardinality(keys) > MaxEntries
        THEN /\ cache' = [c EXCEPT ![k] = entry, ![oldest] = NoEntry]
             /\ older' = Among(keys \ {oldest}, order)
        ELSE /\ cache' = [c EXCEPT ![k] = entry]
             /\ older' = order

Forget(ks) ==
    /\ cache' = [k \in Keys |-> IF k \in ks THEN NoEntry ELSE cache[k]]
    /\ older' = Among(Entries(cache'), older)

\* sweepCapabilityCache.
SweepAt(t) == Forget({k \in Keys : ~Fresh(k, t)})

\* Mutant: the life of an entry is counted from the end of the discovery.
ExpiryFromEnd(r) == now + Ttl

\* `expiresAt: now + ttl`, with the clock as the discovery began.
Expiry(r) == req[r].start + Ttl

\* Mutant: nothing makes room for a new entry.
RememberAll(r) ==
    /\ cache' = [Swept(req[r].start) EXCEPT
                    ![req[r].key] = [asOf |-> req[r].asOf, expires |-> Expiry(r)]]
    /\ older' = MovedLast(req[r].key, Entries(cache'), older)

\* rememberCapabilities.
Remember(r) ==
    Store(req[r].key, [asOf |-> req[r].asOf, expires |-> Expiry(r)], Swept(req[r].start))

-----------------------------------------------------------------------------
(* Requests. *)

Leading(r) == req[r].pc \in {"asking", "answered"}
Leaders(k) == {r \in Requests : Leading(r) /\ req[r].key = k}
Permits == {r \in Requests : req[r].permit = "held"}

\* Mutant: an entry that is there is taken for a fresh one.
NeedsUnlessHeld(k) == ~Held(k) /\ inflight[k] = None

\* requiresCapabilityDiscovery, read first.
NeedsDiscovery(k) == ~Fresh(k, now) /\ inflight[k] = None

\* The permit of a request; a header credential that gets none is refused.
PermitOf(k, header) ==
    IF ~header THEN "exempt" ELSE IF NeedsDiscovery(k) THEN "held" ELSE "spared"

PermitGranted(k, header) ==
    PermitOf(k, header) = "held" => Cardinality(Permits) < VerificationCap

\* Mutant: every request begins a discovery of its own.
LeadAlways(r, k, permit, t) ==
    /\ req' = [req EXCEPT ![r] = [pc |-> "asking", key |-> k, start |-> t, asOf |-> 0,
                                  permit |-> permit, of |-> None]]
    /\ inflight' = [inflight EXCEPT ![k] = r]

\* Await the discovery under way, or begin one.
JoinOrLead(r, k, permit, t) ==
    \/ /\ inflight[k] # None
       /\ req' = [req EXCEPT ![r] = [pc |-> "joined", key |-> k, start |-> t, asOf |-> 0,
                                     permit |-> permit, of |-> inflight[k]]]
       /\ UNCHANGED inflight
    \/ /\ inflight[k] = None
       /\ req' = [req EXCEPT ![r] = [pc |-> "asking", key |-> k, start |-> t, asOf |-> 0,
                                     permit |-> permit, of |-> None]]
       /\ inflight' = [inflight EXCEPT ![k] = r]

\* A request that finds its answer ends at once; its key becomes the youngest.
Hit(k, header, t) ==
    /\ PermitGranted(k, header)
    /\ Fresh(k, t)
    /\ now' = t
    /\ cache' = Swept(t)
    /\ older' = MovedLast(k, Entries(cache'), older)
    /\ UNCHANGED <<inflight, req, invalidated>>

\* A request that has to wait.  t is the second reading of the clock.
Wait(r, k, header, t) ==
    /\ req[r].pc = "idle"
    /\ PermitGranted(k, header)
    /\ ~Fresh(k, t)
    /\ now' = t
    /\ JoinOrLead(r, k, PermitOf(k, header), t)
    /\ SweepAt(t)
    /\ UNCHANGED invalidated

\* A request over a header credential that a limit refuses has dropped the
\* ended entry it saw.
Refused(k) ==
    /\ Held(k) /\ ~Fresh(k, now)
    /\ Forget({k})
    /\ UNCHANGED <<now, inflight, req, invalidated>>

\* B2 answers the authorization of a discovery.
Answered(r) ==
    /\ req[r].pc = "asking"
    /\ req' = [req EXCEPT ![r].pc = "answered", ![r].asOf = now]
    /\ UNCHANGED <<now, cache, older, inflight, invalidated>>

\* The request and all that await its discovery go on.
Resumed(r) ==
    [q \in Requests |-> IF q = r \/ (req[q].pc = "joined" /\ req[q].of = r) THEN Idle ELSE req[q]]

\* Mutant: a discovery that ended stays registered.
RegisteredAfter(r) == inflight

\* The `finally` of a discovery: it deletes whatever is registered for its key.
UnregisteredAfter(r) == [inflight EXCEPT ![req[r].key] = None]

\* A discovery ends with capabilities.
Found(r) ==
    /\ req[r].pc = "answered"
    /\ Remember(r)
    /\ req' = Resumed(r)
    /\ inflight' = UnregisteredAfter(r)
    /\ UNCHANGED <<now, invalidated>>

\* A discovery ends with none, which is not kept, or fails.
NotFound(r) ==
    /\ Leading(r)
    /\ req' = Resumed(r)
    /\ inflight' = UnregisteredAfter(r)
    /\ UNCHANGED <<now, cache, older, invalidated>>

\* invalidateCapabilityCache of one key, or of all.
Invalidate(ks) ==
    /\ \A k \in ks : invalidated[k] < MaxInvalidations
    /\ Forget(ks)
    /\ inflight' = [k \in Keys |-> IF k \in ks THEN None ELSE inflight[k]]
    /\ invalidated' = [k \in Keys |-> IF k \in ks THEN invalidated[k] + 1 ELSE invalidated[k]]
    /\ UNCHANGED <<now, req>>

\* runIdleSweep, on a timer or with a request.
Sweep ==
    /\ SweepAt(now)
    /\ UNCHANGED <<now, inflight, req, invalidated>>

Tick ==
    /\ now < Horizon
    /\ now' = now + 1
    /\ UNCHANGED <<cache, older, inflight, req, invalidated>>

\* The clock may move between two readings of one request.
Readings == {t \in {now, now + 1} : t <= Horizon}

Next ==
    \/ \E k \in Keys, header \in BOOLEAN, t \in Readings : Hit(k, header, t)
    \/ \E r \in Requests, k \in Keys, header \in BOOLEAN, t \in Readings : Wait(r, k, header, t)
    \/ \E k \in Keys : Refused(k)
    \/ \E r \in Requests : Answered(r) \/ Found(r) \/ NotFound(r)
    \/ \E k \in Keys : Invalidate({k})
    \/ Invalidate(Keys)
    \/ Sweep
    \/ Tick

Spec == Init /\ [][Next]_vars

-----------------------------------------------------------------------------
(* Properties. *)

\* An entry dies within Ttl of the moment B2 gave its answer, so no request is
\* served from the cache what B2 said Ttl ago or earlier -- also when the
\* discovery was slow, or its key was invalidated while it ran.
AnswersAgeOut == \A k \in Keys : Held(k) => cache[k].expires <= cache[k].asOf + Ttl

\* A key has one discovery at a time, and at most one more for each time it was
\* invalidated: the `finally` of a discovery that was invalidated unregisters
\* the one that came after it, so an invalidation costs one more at most.
DiscoveriesAreShared ==
    \A k \in Keys : Cardinality(Leaders(k)) <= 1 + invalidated[k]

\* What is registered for a key, and what a request waits for, is a discovery
\* of that key which is still under way: nobody joins one that ended.
SharedIsRunning ==
    /\ \A k \in Keys : inflight[k] # None => inflight[k] \in Leaders(k)
    /\ \A r \in Requests : req[r].pc = "joined" => req[r].of \in Leaders(req[r].key)

\* A request over a header credential discovers without a permit only if the
\* answer it was to be served from ended between two readings of the clock.
VerificationIsLimited ==
    [][\A r \in Requests :
           req[r].pc = "idle" /\ req'[r].pc = "asking" /\ req'[r].permit = "spared"
           => /\ cache[req'[r].key].expires > now
              /\ cache[req'[r].key].expires <= req'[r].start]_vars

\* o ranks the keys S and nothing else: among any of them one is the oldest.
Ranks(o, S) ==
    /\ o \subseteq S \X S
    /\ \A j, k \in S : ~(<<j, k>> \in o /\ <<k, j>> \in o)
    /\ \A T \in (SUBSET S) \ {{}} : \E k \in T : \A j \in T \ {k} : <<k, j>> \in o

\* The cache never holds more than MaxEntries, and its order ranks just what it
\* holds: an entry that the order had lost could never be evicted.
CacheIsBounded ==
    /\ Cardinality(Entries(cache)) <= MaxEntries
    /\ Ranks(older, Entries(cache))
====
