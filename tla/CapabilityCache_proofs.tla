---- MODULE CapabilityCache_proofs ----
(***************************************************************************)
(* CapabilityCache for any requests, keys, lifetimes and invalidations:    *)
(* how old an answer gets, that a discovery which is waited for is under   *)
(* way, how many of them a key has, and who discovers without a permit.    *)
(***************************************************************************)
EXTENDS CapabilityCache, FiniteSetTheorems, TLAPS

LEMMA Constants ==
    Ttl \in Nat /\ Ttl > 0 /\ MaxEntries \in Nat /\ Horizon \in Nat /\ MaxInvalidations \in Nat
BY Positive, BoundsAreNatural

LEMMA IdleType == Idle \in ReqType
BY SomeKey DEF Idle, ReqType

LEMMA IdleFields == Idle.pc = "idle" /\ Idle.permit = "exempt"
BY DEF Idle

LEMMA NoEntryType == NoEntry \in EntryType
BY DEF NoEntry, EntryType

\* An order never ranks keys that are not there.
LEMMA OrderType ==
    /\ \A c : Entries(c) \subseteq Keys
    /\ \A S, o : Among(S, o) \subseteq S \X S
    /\ \A o : \A S \in SUBSET Keys, k \in Keys : MovedLast(k, S, o) \subseteq Keys \X Keys
<1>1. ASSUME NEW S \in SUBSET Keys, NEW o, NEW k \in Keys
      PROVE  MovedLast(k, S, o) \subseteq Keys \X Keys
  BY DEF MovedLast, Among
<1> QED
  BY <1>1 DEF Entries, Among

\* What every action that touches the cache does to it: entries go.
LEMMA ForgetType ==
    ASSUME cache \in [Keys -> EntryType], NEW ks, Forget(ks)
    PROVE  /\ cache' \in [Keys -> EntryType] /\ older' \subseteq Keys \X Keys
           /\ \A k \in Keys : cache'[k] = NoEntry \/ cache'[k] = cache[k]
<1>1. older' \subseteq Keys \X Keys
  BY OrderType DEF Forget
<1> QED
  BY <1>1, NoEntryType DEF Forget

LEMMA SweptType ==
    ASSUME cache \in [Keys -> EntryType], NEW t
    PROVE  /\ Swept(t) \in [Keys -> EntryType]
           /\ \A k \in Keys : Swept(t)[k] = NoEntry \/ Swept(t)[k] = cache[k]
BY NoEntryType DEF Swept

LEMMA StoreType ==
    ASSUME NEW c \in [Keys -> EntryType], NEW k \in Keys, NEW entry \in EntryType,
           Store(k, entry, c)
    PROVE  /\ cache' \in [Keys -> EntryType] /\ older' \subseteq Keys \X Keys
           /\ \A j \in Keys : \/ cache'[j] = NoEntry \/ cache'[j] = c[j]
                              \/ j = k /\ cache'[j] = entry
<1> DEFINE keys == Entries(c) \cup {k}
           order == IF k \in Entries(c) THEN Among(keys, older) ELSE MovedLast(k, keys, older)
           oldest == Oldest(keys, order)
<1>1. keys \in SUBSET Keys /\ order \subseteq Keys \X Keys
  <2>1. keys \in SUBSET Keys
    BY OrderType
  <2> HIDE DEF keys
  <2>2. Among(keys, older) \subseteq keys \X keys
    BY OrderType
  <2>3. MovedLast(k, keys, older) \subseteq Keys \X Keys
    BY <2>1, OrderType
  <2> QED
    BY <2>1, <2>2, <2>3
<1>2. \/ /\ cache' = [c EXCEPT ![k] = entry, ![oldest] = NoEntry]
         /\ older' = Among(keys \ {oldest}, order)
      \/ cache' = [c EXCEPT ![k] = entry] /\ older' = order
  BY DEF Store
<1> HIDE DEF keys, order, oldest
<1>3. older' \subseteq Keys \X Keys
  BY <1>1, <1>2, OrderType
<1>4. /\ cache' \in [Keys -> EntryType]
      /\ \A j \in Keys : \/ cache'[j] = NoEntry \/ cache'[j] = c[j]
                         \/ j = k /\ cache'[j] = entry
  BY <1>2, NoEntryType
<1> QED
  BY <1>3, <1>4

\* The entry a discovery leaves.
EntryOf(r) == [asOf |-> req[r].asOf, expires |-> Expiry(r)]

LEMMA RememberType ==
    ASSUME TypeOK, NEW r \in Requests, Remember(r)
    PROVE  /\ cache' \in [Keys -> EntryType] /\ older' \subseteq Keys \X Keys
           /\ \A j \in Keys : \/ cache'[j] = NoEntry \/ cache'[j] = cache[j]
                              \/ cache'[j] = EntryOf(r)
<1>1. req[r] \in ReqType
  BY DEF TypeOK
<1>2. req[r].key \in Keys /\ EntryOf(r) \in EntryType
  BY <1>1, Constants DEF ReqType, EntryOf, Expiry, EntryType
<1>3. cache \in [Keys -> EntryType]
  BY DEF TypeOK
<1> DEFINE kept == Swept(req[r].start)
<1>4. /\ kept \in [Keys -> EntryType]
      /\ \A k \in Keys : kept[k] = NoEntry \/ kept[k] = cache[k]
  BY <1>3, SweptType
<1>5. Store(req[r].key, EntryOf(r), kept)
  BY DEF Remember, EntryOf
<1> HIDE DEF kept
<1>6. /\ cache' \in [Keys -> EntryType] /\ older' \subseteq Keys \X Keys
      /\ \A j \in Keys : \/ cache'[j] = NoEntry \/ cache'[j] = kept[j]
                         \/ j = req[r].key /\ cache'[j] = EntryOf(r)
  BY <1>2, <1>4, <1>5, StoreType
<1> QED
  BY <1>4, <1>6

LEMMA ResumedType ==
    ASSUME TypeOK, NEW r \in Requests PROVE Resumed(r) \in [Requests -> ReqType]
BY IdleType DEF TypeOK, Resumed

LEMMA UnregisteredType ==
    ASSUME TypeOK, NEW r \in Requests PROVE UnregisteredAfter(r) \in [Keys -> Requests \cup {None}]
BY DEF TypeOK, UnregisteredAfter

LEMMA JoinOrLeadType ==
    ASSUME TypeOK, NEW r \in Requests, NEW k \in Keys, NEW h \in BOOLEAN, NEW t \in Nat,
           JoinOrLead(r, k, PermitOf(k, h), t)
    PROVE  req' \in [Requests -> ReqType] /\ inflight' \in [Keys -> Requests \cup {None}]
<1>1. PermitOf(k, h) \in {"exempt", "held", "spared"}
  BY DEF PermitOf
<1> DEFINE p == PermitOf(k, h)
<1> HIDE DEF p
<1>2. inflight[k] \in Requests \cup {None}
  BY DEF TypeOK
<1>3. \A pc \in {"asking", "joined"}, of \in Requests \cup {None} :
          [pc |-> pc, key |-> k, start |-> t, asOf |-> 0, permit |-> p, of |-> of] \in ReqType
  BY <1>1 DEF ReqType, p
<1>4. req \in [Requests -> ReqType] /\ inflight \in [Keys -> Requests \cup {None}]
  BY DEF TypeOK
<1>5. CASE inflight[k] # None
  BY <1>2, <1>3, <1>4, <1>5 DEF JoinOrLead, p
<1>6. CASE inflight[k] = None
  <2>1. [pc |-> "asking", key |-> k, start |-> t, asOf |-> 0, permit |-> p, of |-> None] \in ReqType
    BY <1>3
  <2>2. /\ req' = [req EXCEPT ![r] = [pc |-> "asking", key |-> k, start |-> t, asOf |-> 0,
                                      permit |-> p, of |-> None]]
        /\ inflight' = [inflight EXCEPT ![k] = r]
    BY <1>6 DEF JoinOrLead, p
  <2> QED
    BY <1>4, <2>1, <2>2
<1> QED
  BY <1>5, <1>6

LEMMA ReadingsAreNatural == ASSUME now \in Nat, NEW t \in Readings PROVE t \in Nat /\ t >= now
BY DEF Readings

LEMMA TypeStep == ASSUME TypeOK, [Next]_vars PROVE TypeOK'
<1>0. /\ now \in Nat /\ cache \in [Keys -> EntryType] /\ older \subseteq Keys \X Keys
      /\ inflight \in [Keys -> Requests \cup {None}]
      /\ req \in [Requests -> ReqType] /\ invalidated \in [Keys -> Nat]
  BY DEF TypeOK
<1>1. ASSUME NEW k \in Keys, NEW h \in BOOLEAN, NEW t \in Readings, Hit(k, h, t) PROVE TypeOK'
  <2>1. older' \subseteq Keys \X Keys
    <3>1. Entries(cache') \in SUBSET Keys
      BY OrderType
    <3>2. MovedLast(k, Entries(cache'), older) \subseteq Keys \X Keys
      BY <3>1, OrderType
    <3> QED
      BY <1>1, <3>2 DEF Hit
  <2>2. cache' \in [Keys -> EntryType] /\ now' \in Nat
    BY <1>0, <1>1, SweptType, ReadingsAreNatural DEF Hit
  <2> QED
    BY <1>0, <1>1, <2>1, <2>2 DEF Hit, TypeOK
<1>2. ASSUME NEW r \in Requests, NEW k \in Keys, NEW h \in BOOLEAN, NEW t \in Readings,
             Wait(r, k, h, t) PROVE TypeOK'
  <2>1. t \in Nat
    BY <1>0, ReadingsAreNatural
  <2>2. req' \in [Requests -> ReqType] /\ inflight' \in [Keys -> Requests \cup {None}]
    BY <1>2, <2>1, JoinOrLeadType DEF Wait
  <2>3. cache' \in [Keys -> EntryType] /\ older' \subseteq Keys \X Keys
    BY <1>0, <1>2, ForgetType DEF Wait, SweepAt
  <2> QED
    BY <1>0, <1>2, <2>1, <2>2, <2>3 DEF Wait, TypeOK
<1>3. ASSUME NEW k \in Keys, Refused(k) PROVE TypeOK'
  BY <1>0, <1>3, ForgetType DEF Refused, TypeOK
<1>4. ASSUME NEW r \in Requests, Answered(r) PROVE TypeOK'
  <2>1. req[r] \in ReqType
    BY <1>0
  <2>2. [req[r] EXCEPT !.pc = "answered", !.asOf = now] \in ReqType
    BY <1>0, <2>1 DEF ReqType
  <2>3. req' = [req EXCEPT ![r] = [req[r] EXCEPT !.pc = "answered", !.asOf = now]]
    BY <1>0, <1>4 DEF Answered
  <2> QED
    BY <1>0, <1>4, <2>2, <2>3 DEF Answered, TypeOK
<1>5. ASSUME NEW r \in Requests, Found(r) PROVE TypeOK'
  BY <1>0, <1>5, RememberType, ResumedType, UnregisteredType DEF Found, TypeOK
<1>6. ASSUME NEW r \in Requests, NotFound(r) PROVE TypeOK'
  BY <1>0, <1>6, ResumedType, UnregisteredType DEF NotFound, TypeOK
<1>7. ASSUME NEW ks, Invalidate(ks) PROVE TypeOK'
  <2>1. cache' \in [Keys -> EntryType] /\ older' \subseteq Keys \X Keys
    BY <1>0, <1>7, ForgetType DEF Invalidate
  <2>2. inflight' \in [Keys -> Requests \cup {None}]
    BY <1>0, <1>7 DEF Invalidate
  <2>3. invalidated' \in [Keys -> Nat]
    BY <1>0, <1>7 DEF Invalidate
  <2> QED
    BY <1>0, <1>7, <2>1, <2>2, <2>3 DEF Invalidate, TypeOK
<1>8. CASE Sweep
  BY <1>0, <1>8, ForgetType DEF Sweep, SweepAt, TypeOK
<1>9. CASE Tick
  BY <1>0, <1>9 DEF Tick, TypeOK
<1>10. CASE UNCHANGED vars
  BY <1>0, <1>10 DEF vars, TypeOK
<1> QED
  BY <1>1, <1>2, <1>3, <1>4, <1>5, <1>6, <1>7, <1>8, <1>9, <1>10 DEF Next

LEMMA TypeInit == Init => TypeOK
BY IdleType, NoEntryType DEF Init, TypeOK

\* Every variable keeps its type: an expiry is a natural number, a request
\* waits for a request, whatever the order of arrivals and invalidations.
THEOREM TypeCorrect == Spec => []TypeOK
BY TypeInit, TypeStep, PTL DEF Spec

-----------------------------------------------------------------------------
(* How old an answer gets. *)

\* A discovery began before B2 answered it, and before now.
StartsFirst ==
    \A r \in Requests : Leading(r) => /\ req[r].start <= now
                                      /\ req[r].pc = "answered" => req[r].start <= req[r].asOf

LEMMA StartsStep == ASSUME TypeOK, StartsFirst, [Next]_vars PROVE StartsFirst'
<1>0. now \in Nat /\ req \in [Requests -> ReqType]
  BY DEF TypeOK
<1>1. \A r \in Requests : req[r].start \in Nat /\ req[r].asOf \in Nat
  BY <1>0 DEF ReqType
<1>2. ASSUME req' = req, now' \in Nat, now' >= now PROVE StartsFirst'
  BY <1>0, <1>1, <1>2 DEF StartsFirst, Leading
<1>3. ASSUME NEW r \in Requests, req' = Resumed(r), now' = now PROVE StartsFirst'
  BY <1>0, <1>1, <1>3, IdleFields DEF StartsFirst, Leading, Resumed
<1>4. ASSUME NEW k \in Keys, NEW h \in BOOLEAN, NEW t \in Readings, Hit(k, h, t) PROVE StartsFirst'
  BY <1>0, <1>2, <1>4, ReadingsAreNatural DEF Hit
<1>5. ASSUME NEW r \in Requests, NEW k \in Keys, NEW h \in BOOLEAN, NEW t \in Readings,
             Wait(r, k, h, t) PROVE StartsFirst'
  <2>1. t \in Nat /\ t >= now /\ now' = t
    BY <1>0, <1>5, ReadingsAreNatural DEF Wait
  <2>2. \A q \in Requests : q # r => req'[q] = req[q]
    BY <1>0, <1>5 DEF Wait, JoinOrLead
  <2>3. req'[r].start = t /\ req'[r].pc \in {"asking", "joined"}
    BY <1>0, <1>5 DEF Wait, JoinOrLead
  <2> QED
    BY <1>0, <1>1, <2>1, <2>2, <2>3 DEF StartsFirst, Leading
<1>6. ASSUME NEW r \in Requests, Answered(r) PROVE StartsFirst'
  BY <1>0, <1>1, <1>6 DEF Answered, StartsFirst, Leading
<1>7. CASE Tick
  BY <1>0, <1>2, <1>7 DEF Tick
<1>8. CASE Sweep \/ (\E k \in Keys : Refused(k)) \/ (\E ks : Invalidate(ks)) \/ UNCHANGED vars
  <2>1. req' = req /\ now' = now
    BY <1>8 DEF Sweep, Refused, Invalidate, vars
  <2> QED
    BY <1>0, <1>2, <2>1
<1>9. ASSUME NEW r \in Requests, Found(r) \/ NotFound(r) PROVE StartsFirst'
  BY <1>3, <1>9 DEF Found, NotFound
<1> QED
  BY <1>4, <1>5, <1>6, <1>7, <1>8, <1>9 DEF Next

LEMMA AgeStep == ASSUME TypeOK, StartsFirst, AnswersAgeOut, [Next]_vars PROVE AnswersAgeOut'
<1>0. now \in Nat /\ cache \in [Keys -> EntryType] /\ req \in [Requests -> ReqType]
  BY DEF TypeOK
<1>1. ASSUME \A k \in Keys : cache'[k] = NoEntry \/ cache'[k] = cache[k] PROVE AnswersAgeOut'
  BY <1>1 DEF AnswersAgeOut, Held
<1>2. ASSUME NEW ks, Forget(ks) PROVE AnswersAgeOut'
  BY <1>0, <1>1, <1>2, ForgetType
<1>3. ASSUME NEW k \in Keys, NEW h \in BOOLEAN, NEW t \in Readings, Hit(k, h, t)
      PROVE  AnswersAgeOut'
  BY <1>0, <1>1, <1>3, SweptType DEF Hit
<1>4. ASSUME NEW r \in Requests, Found(r) PROVE AnswersAgeOut'
  <2>1. \A j \in Keys : cache'[j] = NoEntry \/ cache'[j] = cache[j] \/ cache'[j] = EntryOf(r)
    BY <1>4, RememberType DEF Found
  <2>2. req[r].start \in Nat /\ req[r].asOf \in Nat /\ req[r].start <= req[r].asOf
    BY <1>0, <1>4 DEF Found, StartsFirst, Leading, ReqType
  <2>3. EntryOf(r).expires <= EntryOf(r).asOf + Ttl
    BY <2>2, Constants DEF EntryOf, Expiry
  <2> QED
    BY <2>1, <2>3 DEF AnswersAgeOut, Held
<1> QED
  BY <1>1, <1>2, <1>3, <1>4
     DEF Next, Wait, SweepAt, Refused, Answered, NotFound, Invalidate, Sweep, Tick, vars

\* No answer is kept for longer than Ttl after B2 gave it, however slow its
\* discovery was: the clock is read before B2 is asked.
THEOREM AgesOut == Spec => []AnswersAgeOut
<1> DEFINE IInv == TypeOK /\ StartsFirst /\ AnswersAgeOut
<1>1. Init => IInv
  BY TypeInit, IdleFields DEF Init, StartsFirst, Leading, AnswersAgeOut, Held
<1>2. IInv /\ [Next]_vars => IInv'
  BY TypeStep, StartsStep, AgeStep
<1> QED
  BY <1>1, <1>2, PTL DEF Spec

-----------------------------------------------------------------------------
(* Who discovers without a permit. *)

LEMMA SparedStep ==
    ASSUME TypeOK, [Next]_vars, NEW q \in Requests,
           req[q].pc = "idle", req'[q].pc = "asking", req'[q].permit = "spared"
    PROVE  /\ cache[req'[q].key].expires > now
           /\ cache[req'[q].key].expires <= req'[q].start
<1>0. /\ now \in Nat /\ req \in [Requests -> ReqType]
      /\ \A k \in Keys : cache[k].expires \in Nat
  BY DEF TypeOK, EntryType
<1>1. ASSUME NEW r \in Requests, req' = Resumed(r) PROVE FALSE
  BY <1>0, <1>1, IdleFields DEF Resumed
<1>2. ASSUME NEW r \in Requests, Answered(r) PROVE FALSE
  BY <1>0, <1>2 DEF Answered
<1>3. req' # req
  OBVIOUS
<1>4. PICK r \in Requests, k \in Keys, h \in BOOLEAN, t \in Readings : Wait(r, k, h, t)
  BY <1>1, <1>2, <1>3 DEF Next, Hit, Refused, Found, NotFound, Invalidate, Sweep, Tick, vars
<1>5. q = r
  BY <1>0, <1>4 DEF Wait, JoinOrLead
<1>6. /\ inflight[k] = None
      /\ req'[r].key = k /\ req'[r].start = t /\ req'[r].permit = PermitOf(k, h)
  BY <1>0, <1>4, <1>5 DEF Wait, JoinOrLead
<1>7. ~NeedsDiscovery(k)
  BY <1>5, <1>6 DEF PermitOf
<1>8. Fresh(k, now) /\ ~Fresh(k, t)
  BY <1>4, <1>6, <1>7 DEF NeedsDiscovery, Wait
<1>9. t \in Nat
  BY <1>0, ReadingsAreNatural
<1> QED
  BY <1>0, <1>5, <1>6, <1>8, <1>9 DEF Fresh

\* A header credential is discovered without a permit only when the answer it
\* was to be served from ended between two readings of the clock.
THEOREM LimitsVerification == Spec => VerificationIsLimited
<1> DEFINE Limited ==
        \A r \in Requests :
            req[r].pc = "idle" /\ req'[r].pc = "asking" /\ req'[r].permit = "spared"
            => /\ cache[req'[r].key].expires > now
               /\ cache[req'[r].key].expires <= req'[r].start
<1>1. TypeOK /\ [Next]_vars => Limited
  BY SparedStep
<1>2. VerificationIsLimited <=> [][Limited]_vars
  BY DEF VerificationIsLimited
<1> HIDE DEF Limited
<1> QED
  BY <1>1, <1>2, TypeCorrect, PTL DEF Spec

-----------------------------------------------------------------------------
(* The discovery that is waited for, and how many a key has. *)

\* What a step does to the discoveries under way and to who waits for them.
LEMMA ResumedFields ==
    ASSUME TypeOK, NEW r \in Requests, Leading(r), req' = Resumed(r)
    PROVE  /\ \A k \in Keys : Leaders(k)' = Leaders(k) \ {r}
           /\ \A q \in Requests : req'[q].pc = "joined" => req'[q] = req[q] /\ req[q].of # r
<1>1. req \in [Requests -> ReqType]
  BY DEF TypeOK
<1>2. \A q \in Requests : /\ req'[q].pc = "joined" => req'[q] = req[q] /\ req[q].of # r
                          /\ Leading(q)' => q # r /\ Leading(q) /\ req'[q] = req[q]
                          /\ Leading(q) /\ q # r => Leading(q)' /\ req'[q] = req[q]
  BY <1>1, IdleFields DEF Resumed, Leading
<1> QED
  BY <1>2 DEF Leaders

LEMMA WaitFields ==
    ASSUME TypeOK, NEW r \in Requests, NEW k \in Keys, NEW h \in BOOLEAN, NEW t \in Readings,
           Wait(r, k, h, t)
    PROVE  \/ /\ inflight[k] # None /\ inflight' = inflight
              /\ \A j \in Keys : Leaders(j)' = Leaders(j)
              /\ req'[r].of = inflight[k] /\ req'[r].key = k
              /\ \A q \in Requests : q # r => req'[q] = req[q]
           \/ /\ inflight[k] = None /\ inflight' = [inflight EXCEPT ![k] = r]
              /\ \A j \in Keys : Leaders(j)' = IF j = k THEN Leaders(j) \cup {r} ELSE Leaders(j)
              /\ req'[r].pc = "asking"
              /\ \A q \in Requests : q # r => req'[q] = req[q]
<1>1. req \in [Requests -> ReqType] /\ req[r].pc = "idle"
  BY DEF TypeOK, Wait
<1>2. \A q \in Requests : q # r => req'[q] = req[q]
  BY <1>1 DEF Wait, JoinOrLead
<1>3. CASE inflight[k] # None
  <2>1. req'[r].pc = "joined" /\ req'[r].of = inflight[k] /\ req'[r].key = k /\ inflight' = inflight
    BY <1>1, <1>3 DEF Wait, JoinOrLead
  <2>2. \A j \in Keys : Leaders(j)' = Leaders(j)
    BY <1>1, <1>2, <2>1 DEF Leaders, Leading
  <2> QED
    BY <1>2, <1>3, <2>1, <2>2
<1>4. CASE inflight[k] = None
  <2>1. /\ req'[r].pc = "asking" /\ req'[r].key = k
        /\ inflight' = [inflight EXCEPT ![k] = r]
    BY <1>1, <1>4 DEF Wait, JoinOrLead
  <2>2. \A j \in Keys : Leaders(j)' = IF j = k THEN Leaders(j) \cup {r} ELSE Leaders(j)
    BY <1>1, <1>2, <2>1 DEF Leaders, Leading
  <2> QED
    BY <1>2, <1>4, <2>1, <2>2
<1> QED
  BY <1>3, <1>4

LEMMA SharedStep == ASSUME TypeOK, SharedIsRunning, [Next]_vars PROVE SharedIsRunning'
<1>0. /\ req \in [Requests -> ReqType] /\ inflight \in [Keys -> Requests \cup {None}]
      /\ \A r \in Requests : req[r].key \in Keys
  BY DEF TypeOK, ReqType
<1>1. ASSUME \A k \in Keys : Leaders(k)' = Leaders(k),
             \A k \in Keys : inflight'[k] = None \/ inflight'[k] = inflight[k],
             \A q \in Requests : req'[q].pc = "joined" => req'[q] = req[q]
      PROVE  SharedIsRunning'
  BY <1>0, <1>1 DEF SharedIsRunning
<1>2. ASSUME NEW r \in Requests, NEW k \in Keys, NEW h \in BOOLEAN, NEW t \in Readings,
             Wait(r, k, h, t) PROVE SharedIsRunning'
  <2>1. CASE inflight[k] # None
    <3>1. /\ inflight' = inflight /\ \A j \in Keys : Leaders(j)' = Leaders(j)
          /\ req'[r].of = inflight[k] /\ req'[r].key = k
          /\ \A q \in Requests : q # r => req'[q] = req[q]
      BY <1>2, <2>1, WaitFields
    <3> QED
      BY <1>0, <2>1, <3>1 DEF SharedIsRunning
  <2>2. CASE inflight[k] = None
    <3>1. /\ inflight' = [inflight EXCEPT ![k] = r]
          /\ \A j \in Keys : Leaders(j)' = IF j = k THEN Leaders(j) \cup {r} ELSE Leaders(j)
          /\ req'[r].pc = "asking"
          /\ \A q \in Requests : q # r => req'[q] = req[q]
      BY <1>2, <2>2, WaitFields
    <3>2. \A j \in Keys : inflight'[j] # None => inflight'[j] \in Leaders(j)'
      BY <1>0, <3>1 DEF SharedIsRunning
    <3>3. \A q \in Requests : req'[q].pc = "joined" => req'[q].of \in Leaders(req[q].key)'
      BY <1>0, <3>1 DEF SharedIsRunning
    <3>4. \A q \in Requests : req'[q].pc = "joined" => req'[q] = req[q]
      BY <3>1
    <3> QED
      BY <3>2, <3>3, <3>4 DEF SharedIsRunning
  <2> QED
    BY <2>1, <2>2
<1>3. ASSUME NEW r \in Requests, Found(r) \/ NotFound(r) PROVE SharedIsRunning'
  <2>1. Leading(r) /\ req' = Resumed(r) /\ inflight' = [inflight EXCEPT ![req[r].key] = None]
    BY <1>3 DEF Found, NotFound, UnregisteredAfter, Leading
  <2>2. /\ \A k \in Keys : Leaders(k)' = Leaders(k) \ {r}
        /\ \A q \in Requests : req'[q].pc = "joined" => req'[q] = req[q] /\ req[q].of # r
    BY <2>1, ResumedFields
  <2>3. \A k \in Keys : inflight'[k] # None => inflight'[k] \in Leaders(k)'
    <3> SUFFICES ASSUME NEW k \in Keys, inflight'[k] # None PROVE inflight'[k] \in Leaders(k)'
      OBVIOUS
    <3>1. k # req[r].key /\ inflight'[k] = inflight[k]
      BY <1>0, <2>1
    <3>2. inflight[k] \in Leaders(k) /\ r \notin Leaders(k)
      BY <3>1 DEF SharedIsRunning, Leaders
    <3> QED
      BY <2>2, <3>1, <3>2
  <2>4. \A q \in Requests : req'[q].pc = "joined" => req'[q].of \in Leaders(req[q].key)'
    BY <1>0, <2>2 DEF SharedIsRunning
  <2> QED
    BY <2>2, <2>3, <2>4 DEF SharedIsRunning
<1>4. ASSUME NEW r \in Requests, Answered(r) PROVE SharedIsRunning'
  <2>1. \A k \in Keys : Leaders(k)' = Leaders(k)
    BY <1>0, <1>4 DEF Answered, Leaders, Leading
  <2>2. \A q \in Requests : req'[q].pc = "joined" => req'[q] = req[q]
    BY <1>0, <1>4 DEF Answered
  <2> QED
    BY <1>1, <1>4, <2>1, <2>2 DEF Answered
<1>5. ASSUME NEW ks, Invalidate(ks) PROVE SharedIsRunning'
  BY <1>1, <1>5 DEF Invalidate, Leaders, Leading
<1>6. CASE req' = req /\ inflight' = inflight
  BY <1>1, <1>6 DEF Leaders, Leading
<1> QED
  BY <1>2, <1>3, <1>4, <1>5, <1>6 DEF Next, Hit, Refused, Sweep, Tick, vars

\* Nobody joins, or is left waiting for, a discovery that ended: what is
\* registered for a key always runs, also after invalidations.
THEOREM SharedRuns == Spec => []SharedIsRunning
<1>1. Init => SharedIsRunning
  BY IdleFields DEF Init, SharedIsRunning
<1>2. (TypeOK /\ SharedIsRunning) /\ [Next]_vars => (TypeOK /\ SharedIsRunning)'
  BY TypeStep, SharedStep
<1> QED
  BY <1>1, <1>2, TypeInit, PTL DEF Spec

\* The discoveries of a key that no request can join any more.
Unshared(k) == {r \in Leaders(k) : inflight[k] # r}

UnsharedAreFew == \A k \in Keys : Cardinality(Unshared(k)) <= invalidated[k]

LEMMA LeadersAreFinite ==
    ASSUME NEW k PROVE IsFiniteSet(Leaders(k)) /\ IsFiniteSet(Unshared(k))
<1>1. Leaders(k) \in SUBSET Requests /\ Unshared(k) \in SUBSET Requests
  BY DEF Leaders, Unshared
<1> QED
  BY <1>1, FiniteRequests, FS_Subset

LEMMA OneMore ==
    ASSUME NEW S, IsFiniteSet(S), NEW x
    PROVE  IsFiniteSet(S \cup {x}) /\ Cardinality(S \cup {x}) <= Cardinality(S) + 1
<1>1. Cardinality(S) \in Nat
  BY FS_CardinalityType
<1>2. Cardinality(S \cup {x}) = IF x \in S THEN Cardinality(S) ELSE Cardinality(S) + 1
  BY FS_AddElement
<1> QED
  BY <1>1, <1>2, FS_AddElement

\* Unregistering one discovery while another of the key ends costs nothing.
LEMMA EndUnshared ==
    ASSUME TypeOK, SharedIsRunning, UnsharedAreFew, NEW r \in Requests, Leading(r),
           req' = Resumed(r), inflight' = UnregisteredAfter(r), invalidated' = invalidated
    PROVE  UnsharedAreFew'
<1> SUFFICES ASSUME NEW k \in Keys PROVE Cardinality(Unshared(k)') <= invalidated[k]
  BY DEF UnsharedAreFew
<1>0. /\ req \in [Requests -> ReqType] /\ inflight \in [Keys -> Requests \cup {None}]
      /\ invalidated[k] \in Nat
  BY DEF TypeOK
<1>1. Leaders(k)' = Leaders(k) \ {r}
  BY ResumedFields
<1>2. Cardinality(Unshared(k)) <= invalidated[k] /\ Cardinality(Unshared(k)) \in Nat
  BY LeadersAreFinite, FS_CardinalityType DEF UnsharedAreFew
<1>3. CASE req[r].key # k
  <2>1. inflight'[k] = inflight[k] /\ Leaders(k)' = Leaders(k)
    BY <1>0, <1>1, <1>3 DEF UnregisteredAfter, Leaders
  <2>2. Unshared(k)' = Unshared(k)
    BY <2>1 DEF Unshared
  <2> QED
    BY <1>2, <2>2
<1>4. CASE req[r].key = k
  <2>1. inflight'[k] = None /\ None \notin Leaders(k)
    BY <1>0, <1>4, NoneIsNoRequest DEF UnregisteredAfter, Leaders
  <2>2. Unshared(k)' = Leaders(k) \ {r}
    BY <1>1, <2>1 DEF Unshared
  <2>3. r \in Leaders(k)
    BY <1>4 DEF Leaders
  <2>4. CASE inflight[k] = r
    <3>1. Unshared(k)' = Unshared(k)
      BY <2>2, <2>4 DEF Unshared
    <3> QED
      BY <1>2, <3>1
  <2>5. CASE inflight[k] # r
    <3>1. r \in Unshared(k)
      BY <2>3, <2>5 DEF Unshared
    <3>2. /\ IsFiniteSet(Unshared(k) \ {r})
          /\ Cardinality(Unshared(k) \ {r}) = Cardinality(Unshared(k)) - 1
      BY <3>1, LeadersAreFinite, FS_RemoveElement
    <3>3. Leaders(k) \ {r} \subseteq (Unshared(k) \ {r}) \cup {inflight[k]}
      BY DEF Unshared
    <3>4. /\ IsFiniteSet((Unshared(k) \ {r}) \cup {inflight[k]})
          /\ Cardinality((Unshared(k) \ {r}) \cup {inflight[k]}) <= Cardinality(Unshared(k))
      BY <1>2, <3>2, FS_AddElement
    <3>5. Cardinality(Leaders(k) \ {r}) <= Cardinality((Unshared(k) \ {r}) \cup {inflight[k]})
      BY <3>3, <3>4, FS_Subset
    <3>6. /\ Cardinality(Leaders(k) \ {r}) \in Nat
          /\ Cardinality((Unshared(k) \ {r}) \cup {inflight[k]}) \in Nat
      BY <3>4, LeadersAreFinite, FS_RemoveElement, FS_CardinalityType
    <3> QED
      BY <1>0, <1>2, <2>2, <3>4, <3>5, <3>6
  <2> QED
    BY <2>4, <2>5
<1> QED
  BY <1>3, <1>4

LEMMA WaitUnshared ==
    ASSUME TypeOK, SharedIsRunning, UnsharedAreFew, NEW r \in Requests, NEW k \in Keys,
           NEW h \in BOOLEAN, NEW t \in Readings, Wait(r, k, h, t)
    PROVE  UnsharedAreFew'
<1>1. \A j \in Keys : Unshared(j)' = Unshared(j)
  <2> SUFFICES ASSUME NEW j \in Keys PROVE Unshared(j)' = Unshared(j)
    OBVIOUS
  <2>1. CASE inflight[k] # None
    <3>1. inflight' = inflight /\ Leaders(j)' = Leaders(j)
      BY <2>1, WaitFields
    <3> QED
      BY <3>1 DEF Unshared
  <2>2. CASE inflight[k] = None
    <3>1. /\ inflight' = [inflight EXCEPT ![k] = r]
          /\ Leaders(j)' = IF j = k THEN Leaders(j) \cup {r} ELSE Leaders(j)
      BY <2>2, WaitFields
    <3>2. r \notin Leaders(j) /\ None \notin Leaders(j)
      BY NoneIsNoRequest DEF Leaders, Leading, Wait
    <3>3. inflight \in [Keys -> Requests \cup {None}]
      BY DEF TypeOK
    <3>4. CASE j = k
      <4>1. Unshared(j)' = {q \in Leaders(j) \cup {r} : r # q}
        BY <3>1, <3>3, <3>4 DEF Unshared
      <4>2. Unshared(j) = Leaders(j)
        BY <2>2, <3>2, <3>4 DEF Unshared
      <4> QED
        BY <3>2, <4>1, <4>2
    <3>5. CASE j # k
      BY <3>1, <3>3, <3>5 DEF Unshared
    <3> QED
      BY <3>4, <3>5
  <2> QED
    BY <2>1, <2>2
<1> QED
  BY <1>1 DEF UnsharedAreFew, Wait

LEMMA InvalidateUnshared ==
    ASSUME TypeOK, UnsharedAreFew, NEW ks, Invalidate(ks) PROVE UnsharedAreFew'
<1> SUFFICES ASSUME NEW k \in Keys PROVE Cardinality(Unshared(k)') <= invalidated'[k]
  BY DEF UnsharedAreFew
<1>0. invalidated[k] \in Nat
  BY DEF TypeOK
<1>1. Leaders(k)' = Leaders(k)
  BY DEF Invalidate, Leaders, Leading
<1>2. Cardinality(Unshared(k)) <= invalidated[k] /\ Cardinality(Unshared(k)) \in Nat
  BY LeadersAreFinite, FS_CardinalityType DEF UnsharedAreFew
<1>3. CASE k \notin ks
  <2>1. Unshared(k)' = Unshared(k) /\ invalidated'[k] = invalidated[k]
    BY <1>1, <1>3 DEF Invalidate, Unshared
  <2> QED
    BY <1>2, <2>1
<1>4. CASE k \in ks
  <2>1. invalidated'[k] = invalidated[k] + 1
    BY <1>4 DEF Invalidate
  <2>2. Unshared(k)' \subseteq Unshared(k) \cup {inflight[k]}
    BY <1>1 DEF Unshared
  <2>3. /\ IsFiniteSet(Unshared(k) \cup {inflight[k]})
        /\ Cardinality(Unshared(k) \cup {inflight[k]}) <= Cardinality(Unshared(k)) + 1
    BY LeadersAreFinite, OneMore
  <2>4. /\ Cardinality(Unshared(k)') <= Cardinality(Unshared(k) \cup {inflight[k]})
        /\ Cardinality(Unshared(k)') \in Nat
        /\ Cardinality(Unshared(k) \cup {inflight[k]}) \in Nat
    BY <2>2, <2>3, FS_Subset, FS_CardinalityType
  <2> QED
    BY <1>0, <1>2, <2>1, <2>3, <2>4
<1> QED
  BY <1>3, <1>4

LEMMA UnsharedStep ==
    ASSUME TypeOK, SharedIsRunning, UnsharedAreFew, [Next]_vars PROVE UnsharedAreFew'
<1>1. ASSUME NEW r \in Requests, Found(r) \/ NotFound(r) PROVE UnsharedAreFew'
  <2>1. /\ Leading(r) /\ req' = Resumed(r) /\ inflight' = UnregisteredAfter(r)
        /\ invalidated' = invalidated
    BY <1>1 DEF Found, NotFound, Leading
  <2> QED
    BY <2>1, EndUnshared
<1>2. ASSUME NEW r \in Requests, Answered(r) PROVE UnsharedAreFew'
  <2>1. \A k \in Keys : Leaders(k)' = Leaders(k)
    BY <1>2 DEF Answered, Leaders, Leading, TypeOK
  <2> QED
    BY <1>2, <2>1 DEF Answered, UnsharedAreFew, Unshared
<1>3. CASE req' = req /\ inflight' = inflight /\ invalidated' = invalidated
  <2>1. \A k \in Keys : Unshared(k)' = Unshared(k)
    BY <1>3 DEF Unshared, Leaders, Leading
  <2> QED
    BY <1>3, <2>1 DEF UnsharedAreFew
<1> QED
  BY <1>1, <1>2, <1>3, WaitUnshared, InvalidateUnshared
     DEF Next, Hit, Refused, Sweep, Tick, vars

\* However requests, ends and invalidations interleave, a key never has more
\* discoveries under way than one and the number of its invalidations.
THEOREM SharesDiscoveries == Spec => []DiscoveriesAreShared
<1> DEFINE IInv == TypeOK /\ SharedIsRunning /\ UnsharedAreFew
<1>1. Init => IInv
  <2>1. Init => SharedIsRunning
    BY IdleFields DEF Init, SharedIsRunning
  <2>2. ASSUME Init PROVE UnsharedAreFew
    <3>1. \A k \in Keys : Unshared(k) = {} /\ invalidated[k] = 0
      BY <2>2, IdleFields DEF Init, Unshared, Leaders, Leading
    <3> QED
      BY <3>1, FS_EmptySet DEF UnsharedAreFew
  <2> QED
    BY <2>1, <2>2, TypeInit
<1>2. IInv /\ [Next]_vars => IInv'
  BY TypeStep, SharedStep, UnsharedStep
<1>3. IInv => DiscoveriesAreShared
  <2> SUFFICES ASSUME IInv, NEW k \in Keys PROVE Cardinality(Leaders(k)) <= 1 + invalidated[k]
    BY DEF DiscoveriesAreShared
  <2>1. Leaders(k) \subseteq Unshared(k) \cup {inflight[k]}
    BY DEF Unshared
  <2>2. /\ Cardinality(Unshared(k)) <= invalidated[k] /\ Cardinality(Unshared(k)) \in Nat
        /\ invalidated[k] \in Nat
    BY LeadersAreFinite, FS_CardinalityType DEF UnsharedAreFew, TypeOK
  <2>3. /\ IsFiniteSet(Unshared(k) \cup {inflight[k]})
        /\ Cardinality(Unshared(k) \cup {inflight[k]}) <= Cardinality(Unshared(k)) + 1
    BY LeadersAreFinite, OneMore
  <2>4. /\ Cardinality(Leaders(k)) <= Cardinality(Unshared(k) \cup {inflight[k]})
        /\ Cardinality(Leaders(k)) \in Nat /\ Cardinality(Unshared(k) \cup {inflight[k]}) \in Nat
    BY <2>1, <2>3, LeadersAreFinite, FS_Subset, FS_CardinalityType
  <2> QED
    BY <2>2, <2>3, <2>4
<1> QED
  BY <1>1, <1>2, <1>3, PTL DEF Spec

-----------------------------------------------------------------------------
(* How much is kept. *)

\* Deleting keys leaves the order of the others.
LEMMA AmongRanks ==
    ASSUME NEW S, NEW T \in SUBSET S, NEW o, Ranks(o, S) PROVE Ranks(Among(T, o), T)
<1>1. \A U \in (SUBSET T) \ {{}} : \E k \in U : \A j \in U \ {k} : <<k, j>> \in Among(T, o)
  <2> SUFFICES ASSUME NEW U \in (SUBSET T) \ {{}}
               PROVE  \E k \in U : \A j \in U \ {k} : <<k, j>> \in Among(T, o)
    OBVIOUS
  <2>1. PICK k \in U : \A j \in U \ {k} : <<k, j>> \in o
    BY DEF Ranks
  <2> QED
    BY <2>1 DEF Among
<1>2. Among(T, o) \subseteq T \X T /\ Among(T, o) \subseteq o
  BY DEF Among
<1>3. \A j, k \in T : ~(<<j, k>> \in Among(T, o) /\ <<k, j>> \in Among(T, o))
  BY <1>2 DEF Ranks
<1> QED
  BY <1>1, <1>2, <1>3 DEF Ranks

\* A key that is moved comes after all the others.
LEMMA MovedRanks ==
    ASSUME NEW S, NEW T, NEW k \in T, T \ {k} \subseteq S, NEW o, Ranks(o, S)
    PROVE  Ranks(MovedLast(k, T, o), T)
<1> DEFINE R == T \ {k}
           a == Among(R, o)
           m == MovedLast(k, T, o)
<1>1. Ranks(a, R) /\ a \subseteq R \X R
  <2>1. R \in SUBSET S
    OBVIOUS
  <2> HIDE DEF R
  <2> QED
    BY <2>1, AmongRanks DEF Among
<1>2. m = a \cup (R \X {k}) /\ T = R \cup {k} /\ k \notin R
  BY DEF MovedLast
<1> HIDE DEF R, a, m
<1>3. m \subseteq T \X T
  BY <1>1, <1>2
<1>4. \A i, j \in T : ~(<<i, j>> \in m /\ <<j, i>> \in m)
  <2> SUFFICES ASSUME NEW i \in T, NEW j \in T, <<i, j>> \in m, <<j, i>> \in m PROVE FALSE
    OBVIOUS
  <2>1. i \in R /\ j \in R
    BY <1>1, <1>2
  <2>2. <<i, j>> \in a /\ <<j, i>> \in a
    BY <1>2, <2>1
  <2> QED
    BY <1>1, <2>1, <2>2 DEF Ranks
<1>5. \A U \in (SUBSET T) \ {{}} : \E i \in U : \A j \in U \ {i} : <<i, j>> \in m
  <2> SUFFICES ASSUME NEW U \in (SUBSET T) \ {{}}
               PROVE  \E i \in U : \A j \in U \ {i} : <<i, j>> \in m
    OBVIOUS
  <2>1. CASE U \ {k} = {}
    BY <2>1
  <2>2. CASE U \ {k} # {}
    <3>1. U \ {k} \in (SUBSET R) \ {{}}
      BY <1>2, <2>2
    <3>2. PICK i \in U \ {k} : \A j \in (U \ {k}) \ {i} : <<i, j>> \in a
      BY <1>1, <3>1 DEF Ranks
    <3>3. <<i, k>> \in m
      BY <1>2, <3>1, <3>2
    <3> QED
      BY <1>2, <3>2, <3>3
  <2> QED
    BY <2>1, <2>2
<1> QED
  BY <1>3, <1>4, <1>5 DEF Ranks, m

LEMMA OldestIs ==
    ASSUME NEW S, S # {}, NEW o, Ranks(o, S) PROVE Oldest(S, o) \in S
<1>1. \E k \in S : \A j \in S \ {k} : <<k, j>> \in o
  BY DEF Ranks
<1> QED
  BY <1>1 DEF Oldest

\* The inductive invariant: the order ranks what the Map holds.
Bounded == IsFiniteSet(Entries(cache)) /\ CacheIsBounded

\* A Map that lost entries, its order among the rest or with one of them moved.
LEMMA FewerBounded ==
    ASSUME Bounded, Entries(cache') \subseteq Entries(cache),
           \/ older' = Among(Entries(cache'), older)
           \/ \E k \in Entries(cache') : older' = MovedLast(k, Entries(cache'), older)
    PROVE  Bounded'
<1> DEFINE S == Entries(cache)
           T == Entries(cache')
<1>1. IsFiniteSet(S) /\ Cardinality(S) <= MaxEntries /\ Ranks(older, S) /\ T \subseteq S
  BY DEF Bounded, CacheIsBounded
<1>2. Ranks(older', T)
  <2> HIDE DEF S, T
  <2>1. CASE older' = Among(T, older)
    BY <1>1, <2>1, AmongRanks
  <2>2. ASSUME NEW k \in T, older' = MovedLast(k, T, older) PROVE Ranks(older', T)
    BY <1>1, <2>2, MovedRanks
  <2> QED
    BY <2>1, <2>2 DEF T
<1>3. IsFiniteSet(T) /\ Cardinality(T) <= MaxEntries
  <2> HIDE DEF S, T
  <2>1. IsFiniteSet(T) /\ Cardinality(T) <= Cardinality(S)
    BY <1>1, FS_Subset
  <2>2. Cardinality(T) \in Nat /\ Cardinality(S) \in Nat
    BY <1>1, <2>1, FS_CardinalityType
  <2> QED
    BY <1>1, <2>1, <2>2, Constants
<1> QED
  BY <1>2, <1>3 DEF Bounded, CacheIsBounded

LEMMA ForgetBounded == ASSUME Bounded, NEW ks, Forget(ks) PROVE Bounded'
<1>1. Entries(cache') \subseteq Entries(cache)
  BY DEF Forget, Entries
<1> QED
  BY <1>1, FewerBounded DEF Forget

\* A Map that took one entry more gives up the oldest when it is full.
LEMMA StoreBounded ==
    ASSUME Bounded, NEW c \in [Keys -> EntryType], Entries(c) \subseteq Entries(cache),
           NEW k \in Keys, NEW entry, entry # NoEntry, Store(k, entry, c)
    PROVE  Bounded'
<1> DEFINE held == Entries(c)
           keys == held \cup {k}
           order == IF k \in held THEN Among(keys, older) ELSE MovedLast(k, keys, older)
           oldest == Oldest(keys, order)
<1>1. /\ Ranks(older, Entries(cache)) /\ IsFiniteSet(Entries(cache))
      /\ Cardinality(Entries(cache)) <= MaxEntries
  BY DEF Bounded, CacheIsBounded
<1>2. IsFiniteSet(held) /\ Cardinality(held) \in Nat /\ Cardinality(held) <= MaxEntries
  <2> HIDE DEF held
  <2>1. IsFiniteSet(held) /\ Cardinality(held) <= Cardinality(Entries(cache))
    BY <1>1, FS_Subset DEF held
  <2>2. Cardinality(held) \in Nat /\ Cardinality(Entries(cache)) \in Nat
    BY <1>1, <2>1, FS_CardinalityType
  <2> QED
    BY <1>1, <2>1, <2>2, Constants
<1>3. /\ IsFiniteSet(keys) /\ Cardinality(keys) \in Nat
      /\ Cardinality(keys) <= MaxEntries + 1
  <2> HIDE DEF held
  <2>1. IsFiniteSet(keys) /\ Cardinality(keys) <= Cardinality(held) + 1
    BY <1>2, OneMore
  <2>2. Cardinality(keys) \in Nat
    BY <2>1, FS_CardinalityType
  <2> QED
    BY <1>2, <2>1, <2>2, Constants
<1>4. Ranks(order, keys)
  <2>1. CASE k \in held
    <3>1. keys \subseteq Entries(cache)
      BY <2>1
    <3> QED
      BY <1>1, <2>1, <3>1, AmongRanks
  <2>2. CASE k \notin held
    <3>1. keys \ {k} \subseteq Entries(cache) /\ k \in keys
      OBVIOUS
    <3>2. Ranks(MovedLast(k, keys, older), keys)
      BY <1>1, <3>1, MovedRanks
    <3> QED
      BY <2>2, <3>2
  <2> QED
    BY <2>1, <2>2
<1>5. \/ /\ Cardinality(keys) > MaxEntries
         /\ cache' = [c EXCEPT ![k] = entry, ![oldest] = NoEntry]
         /\ older' = Among(keys \ {oldest}, order)
      \/ /\ ~(Cardinality(keys) > MaxEntries)
         /\ cache' = [c EXCEPT ![k] = entry] /\ older' = order
  BY DEF Store
<1>6. oldest \in keys
  <2> HIDE DEF held, order
  <2> QED
    BY <1>4, OldestIs
<1>7. CASE Cardinality(keys) > MaxEntries
  <2>1. Entries(cache') = keys \ {oldest}
    <3> HIDE DEF oldest
    <3> QED
      BY <1>5, <1>6, <1>7 DEF Entries
  <2> HIDE DEF held, keys, order, oldest
  <2>2. Ranks(older', Entries(cache'))
    BY <1>4, <1>5, <1>7, <2>1, AmongRanks
  <2>3. IsFiniteSet(keys \ {oldest}) /\ Cardinality(keys \ {oldest}) = Cardinality(keys) - 1
    BY <1>3, <1>6, FS_RemoveElement
  <2>4. Cardinality(keys \ {oldest}) <= MaxEntries
    BY <1>3, <2>3, Constants
  <2> QED
    BY <2>1, <2>2, <2>3, <2>4 DEF Bounded, CacheIsBounded
<1>8. CASE ~(Cardinality(keys) > MaxEntries)
  <2>1. Entries(cache') = keys
    BY <1>5, <1>8 DEF Entries
  <2> HIDE DEF held, keys, order
  <2>2. Cardinality(keys) <= MaxEntries
    BY <1>3, <1>8, Constants
  <2> QED
    BY <1>3, <1>4, <1>5, <1>8, <2>1, <2>2 DEF Bounded, CacheIsBounded
<1> QED
  BY <1>7, <1>8

LEMMA BoundedStep == ASSUME TypeOK, Bounded, [Next]_vars PROVE Bounded'
<1>0. /\ now \in Nat /\ cache \in [Keys -> EntryType] /\ req \in [Requests -> ReqType]
      /\ \A k \in Keys : cache[k].expires \in Nat
  BY DEF TypeOK, EntryType
<1>1. \A t : Entries(Swept(t)) \subseteq Entries(cache)
  BY DEF Entries, Swept
<1>2. ASSUME NEW k \in Keys, NEW h \in BOOLEAN, NEW t \in Readings, Hit(k, h, t) PROVE Bounded'
  <2>1. cache' = Swept(t) /\ older' = MovedLast(k, Entries(cache'), older)
    BY <1>2 DEF Hit
  <2>2. k \in Entries(cache')
    <3>1. t \in Nat /\ cache[k].expires > t
      BY <1>0, <1>2, ReadingsAreNatural DEF Hit, Fresh
    <3>2. cache[k] # NoEntry
      BY <3>1 DEF NoEntry
    <3> QED
      BY <2>1, <3>1, <3>2 DEF Entries, Swept, Fresh
  <2> QED
    BY <1>1, <2>1, <2>2, FewerBounded
<1>3. ASSUME NEW r \in Requests, Found(r) PROVE Bounded'
  <2>1. /\ Store(req[r].key, EntryOf(r), Swept(req[r].start))
        /\ Swept(req[r].start) \in [Keys -> EntryType]
    BY <1>0, <1>3, SweptType DEF Found, Remember, EntryOf
  <2>2. req[r].key \in Keys /\ req[r].start \in Nat
    BY <1>0 DEF ReqType
  <2>3. EntryOf(r) # NoEntry
    BY <2>2, Constants DEF EntryOf, Expiry, NoEntry
  <2> QED
    BY <1>1, <2>1, <2>2, <2>3, StoreBounded
<1>4. CASE UNCHANGED <<cache, older>>
  BY <1>4 DEF Bounded, CacheIsBounded
<1> QED
  BY <1>2, <1>3, <1>4, ForgetBounded
     DEF Next, Wait, SweepAt, Refused, Answered, NotFound, Invalidate, Sweep, Tick, vars

\* The cache holds at most MaxEntries, for any keys and bounds and however its
\* five writers interleave, and always knows which of its entries is the oldest.
THEOREM StaysBounded == Spec => []CacheIsBounded
<1>1. Init => Bounded
  <2>1. ASSUME Init PROVE Entries(cache) = {} /\ older = {}
    BY <2>1 DEF Init, Entries
  <2> QED
    BY <2>1, Constants, FS_EmptySet DEF Bounded, CacheIsBounded, Ranks
<1>2. (TypeOK /\ Bounded) /\ [Next]_vars => (TypeOK /\ Bounded)'
  BY TypeStep, BoundedStep
<1>3. Bounded => CacheIsBounded
  BY DEF Bounded
<1> QED
  BY <1>1, <1>2, <1>3, TypeInit, PTL DEF Spec
====
