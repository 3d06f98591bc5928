---- MODULE HttpPipeline_proofs ----
(***************************************************************************)
(* Proofs about the request pipeline for any number of connections, keys   *)
(* and any caps.                                                           *)
(*                                                                         *)
(* The bookkeeping of the limiter is reduced to one relation between a     *)
(* limiter value and the assignment of slots to requests, Accounts, which  *)
(* acquire, rekey and release preserve; the invariant of the pipeline then *)
(* says that limitKey is that assignment.  The last part is about the rate *)
(* limiter, TokenBuckets, that the pipeline asks.                          *)
(***************************************************************************)
EXTENDS HttpPipeline, TokenBuckets, FiniteSetTheorems, TLAPS

Slots == [Requests -> Keys \cup {NoKey}]

HoldingIn(assigned) == {r \in Requests : assigned[r] # NoKey}
HoldingKey(assigned, key) == {r \in Requests : assigned[r] = key}

Accounts(lim, assigned) ==
    /\ lim.active = Cardinality(HoldingIn(assigned))
    /\ \A key \in Keys : lim.byKey[key] = Cardinality(HoldingKey(assigned, key))

-----------------------------------------------------------------------------
(* A set that gains or loses one element. *)

\* Adding a new element to a finite set adds one to its size.
LEMMA OneMore ==
    ASSUME NEW S, IsFiniteSet(S), NEW x, x \notin S
    PROVE  Cardinality(S \cup {x}) = Cardinality(S) + 1
BY FS_AddElement

\* A nonempty finite set loses one when an element is taken out, as OneLess says.
LEMMA OneFewer ==
    ASSUME NEW S, IsFiniteSet(S), NEW x \in S
    PROVE  Cardinality(S \ {x}) = OneLess(Cardinality(S))
<1>1. Cardinality(S \ {x}) = Cardinality(S) - 1
  BY FS_RemoveElement
<1>2. Cardinality(S) \in Nat /\ Cardinality(S \ {x}) \in Nat
  BY FS_CardinalityType, FS_Subset
<1> QED BY <1>1, <1>2 DEF OneLess

\* The sets the limiter counts are finite.
LEMMA HoldingFinite ==
    ASSUME NEW assigned
    PROVE  /\ IsFiniteSet(HoldingIn(assigned))
           /\ \A key : IsFiniteSet(HoldingKey(assigned, key))
BY RequestsAreFinite, FS_Subset DEF HoldingIn, HoldingKey

-----------------------------------------------------------------------------
(* The three limiter operations preserve Accounts. *)

\* acquire for a request without a slot (http-fetch-handler.ts, acquire).
LEMMA AcquireAccounts ==
    ASSUME NEW lim \in Limiter, NEW assigned \in Slots, Accounts(lim, assigned),
           NEW r \in Requests, assigned[r] = NoKey, NEW key \in Keys
    PROVE  Accounts(Acquired(lim, key), [assigned EXCEPT ![r] = key])
<1> DEFINE after == [assigned EXCEPT ![r] = key]
<1>0. key # NoKey
  BY KeysCoverEveryUse
<1>1. Acquired(lim, key).active = Cardinality(HoldingIn(after))
  <2>1. HoldingIn(after) = HoldingIn(assigned) \cup {r} /\ r \notin HoldingIn(assigned)
    BY <1>0 DEF HoldingIn, Slots
  <2> QED BY <2>1, OneMore, HoldingFinite DEF Accounts, Acquired
<1>2. ASSUME NEW k \in Keys
      PROVE  Acquired(lim, key).byKey[k] = Cardinality(HoldingKey(after, k))
  <2>1. CASE k = key
    <3>1. HoldingKey(after, k) = HoldingKey(assigned, k) \cup {r}
          /\ r \notin HoldingKey(assigned, k)
      BY <2>1, <1>0 DEF HoldingKey, Slots
    <3>2. Acquired(lim, key).byKey[k] = lim.byKey[k] + 1
      BY <2>1 DEF Acquired, Limiter
    <3> QED BY <3>1, <3>2, OneMore, HoldingFinite DEF Accounts
  <2>2. CASE k # key
    <3>1. HoldingKey(after, k) = HoldingKey(assigned, k)
      BY <2>2, KeysCoverEveryUse DEF HoldingKey, Slots
    <3>2. Acquired(lim, key).byKey[k] = lim.byKey[k]
      BY <2>2 DEF Acquired, Limiter
    <3> QED BY <3>1, <3>2 DEF Accounts
  <2> QED BY <2>1, <2>2
<1> QED BY <1>1, <1>2 DEF Accounts

\* release of the key a request holds (http-fetch-handler.ts, release).
LEMMA ReleaseAccounts ==
    ASSUME NEW lim \in Limiter, NEW assigned \in Slots, Accounts(lim, assigned),
           NEW r \in Requests, assigned[r] # NoKey
    PROVE  Accounts(Released(lim, assigned[r]), [assigned EXCEPT ![r] = NoKey])
<1> DEFINE after == [assigned EXCEPT ![r] = NoKey]
<1>0. assigned[r] \in Keys /\ NoKey \notin Keys
  BY KeysCoverEveryUse DEF Slots
<1>1. Released(lim, assigned[r]).active = Cardinality(HoldingIn(after))
  <2>1. HoldingIn(after) = HoldingIn(assigned) \ {r} /\ r \in HoldingIn(assigned)
    BY DEF HoldingIn, Slots
  <2> QED BY <2>1, OneFewer, HoldingFinite DEF Accounts, Released
<1>2. ASSUME NEW k \in Keys
      PROVE  Released(lim, assigned[r]).byKey[k] = Cardinality(HoldingKey(after, k))
  <2>1. CASE k = assigned[r]
    <3>1. HoldingKey(after, k) = HoldingKey(assigned, k) \ {r}
          /\ r \in HoldingKey(assigned, k)
      BY <2>1, <1>0 DEF HoldingKey, Slots
    <3>2. Released(lim, assigned[r]).byKey[k] = OneLess(lim.byKey[k])
      BY <2>1 DEF Released, Limiter
    <3> QED BY <3>1, <3>2, OneFewer, HoldingFinite DEF Accounts
  <2>2. CASE k # assigned[r]
    <3>1. HoldingKey(after, k) = HoldingKey(assigned, k)
      BY <2>2, <1>0 DEF HoldingKey, Slots
    <3>2. Released(lim, assigned[r]).byKey[k] = lim.byKey[k]
      BY <2>2 DEF Released, Limiter
    <3> QED BY <3>1, <3>2 DEF Accounts
  <2> QED BY <2>1, <2>2
<1> QED BY <1>1, <1>2 DEF Accounts

\* rekey of a held slot (http-fetch-handler.ts, rekey): the total is untouched.
LEMMA RekeyAccounts ==
    ASSUME NEW lim \in Limiter, NEW assigned \in Slots, Accounts(lim, assigned),
           NEW r \in Requests, assigned[r] # NoKey, NEW key \in Keys
    PROVE  Accounts(Rekeyed(lim, assigned[r], key), [assigned EXCEPT ![r] = key])
<1> DEFINE from == assigned[r]
           after == [assigned EXCEPT ![r] = key]
           rekeyed == Rekeyed(lim, from, key)
<1>0. from \in Keys /\ key # NoKey
  BY KeysCoverEveryUse DEF Slots
<1>1. CASE from = key
  <2>1. after = assigned /\ rekeyed = lim
    BY <1>1 DEF Slots, Rekeyed
  <2> QED BY <2>1
<1>2. CASE from # key
  <2>1. rekeyed.active = Cardinality(HoldingIn(after))
    <3>1. HoldingIn(after) = HoldingIn(assigned)
      BY <1>0 DEF HoldingIn, Slots
    <3>2. rekeyed.active = lim.active
      BY <1>2 DEF Rekeyed, Limiter
    <3> QED BY <3>1, <3>2 DEF Accounts
  <2>2. ASSUME NEW k \in Keys
        PROVE  rekeyed.byKey[k] = Cardinality(HoldingKey(after, k))
    <3>1. CASE k = key
      <4>1. HoldingKey(after, k) = HoldingKey(assigned, k) \cup {r}
            /\ r \notin HoldingKey(assigned, k)
        BY <3>1, <1>2 DEF HoldingKey, Slots
      <4>2. rekeyed.byKey[k] = lim.byKey[k] + 1
        BY <3>1, <1>0, <1>2 DEF Rekeyed, Limiter
      <4> QED BY <4>1, <4>2, OneMore, HoldingFinite DEF Accounts
    <3>2. CASE k = from
      <4>1. HoldingKey(after, k) = HoldingKey(assigned, k) \ {r}
            /\ r \in HoldingKey(assigned, k)
        BY <3>2, <1>2 DEF HoldingKey, Slots
      <4>2. rekeyed.byKey[k] = OneLess(lim.byKey[k])
        BY <3>2, <1>0, <1>2 DEF Rekeyed, Limiter
      <4> QED BY <4>1, <4>2, OneFewer, HoldingFinite DEF Accounts
    <3>3. CASE k # key /\ k # from
      <4>1. HoldingKey(after, k) = HoldingKey(assigned, k)
        BY <3>3 DEF HoldingKey, Slots
      <4>2. rekeyed.byKey[k] = lim.byKey[k]
        BY <3>3, <1>0, <1>2 DEF Rekeyed, Limiter
      <4> QED BY <4>1, <4>2 DEF Accounts
    <3> QED BY <3>1, <3>2, <3>3
  <2> QED BY <2>1, <2>2 DEF Accounts
<1> QED BY <1>1, <1>2

-----------------------------------------------------------------------------
(* Type correctness. *)

\* The limiter operators return limiter values.
LEMMA LimiterTypes ==
    /\ EmptyLimiter \in Limiter
    /\ \A lim \in Limiter, key \in Keys :
          /\ Acquired(lim, key) \in Limiter
          /\ Released(lim, key) \in Limiter
          /\ \A from \in Keys : Rekeyed(lim, from, key) \in Limiter
<1>1. EmptyLimiter \in Limiter
  BY DEF EmptyLimiter, Limiter
<1>2. \A n \in Nat : OneLess(n) \in Nat
  BY DEF OneLess
<1>3. ASSUME NEW lim \in Limiter, NEW key \in Keys
      PROVE  /\ Acquired(lim, key) \in Limiter
             /\ Released(lim, key) \in Limiter
             /\ \A from \in Keys : Rekeyed(lim, from, key) \in Limiter
  BY <1>2 DEF Limiter, Acquired, Released, Rekeyed
<1> QED BY <1>1, <1>3

\* Which keys a request may be accounted under, as the type of its place says.
SlotOfPlace == \A r \in Requests : limitKey[r] = NoKey <=> pc[r] = "idle"

TypeInv == TypeOK /\ SlotOfPlace

\* The part of the state that dispatchDiscoveryMode may change stays well typed.
LEMMA DiscoverTypes ==
    ASSUME TypeInv, NEW r \in Requests, pc[r] # "idle", Discover(r)
    PROVE  /\ inFlight' \in Limiter
           /\ pc' \in [Requests -> Places]
           /\ limitKey' \in Slots
           /\ prepared' \in [Requests -> BOOLEAN]
           /\ status' \in [Requests -> Statuses]
           /\ SlotOfPlace'
<1> USE DEF TypeInv, TypeOK, SlotOfPlace, Places, Statuses, Slots
<1>1. /\ DiscoveryKey \in Keys /\ DiscoveryKey # NoKey
      /\ limitKey[r] \in Keys
  BY KeysCoverEveryUse
<1>2. Rekeyed(inFlight, limitKey[r], DiscoveryKey) \in Limiter
  BY <1>1, LimiterTypes
<1>3. CASE UNCHANGED <<inFlight, limitKey, prepared>> /\ Answer(r, "keyLimit")
  BY <1>1, <1>3 DEF Answer
<1>4. CASE /\ inFlight' = Rekeyed(inFlight, limitKey[r], DiscoveryKey)
           /\ limitKey' = [limitKey EXCEPT ![r] = DiscoveryKey]
           /\ Answer(r, "other") /\ UNCHANGED prepared
  BY <1>1, <1>2, <1>4 DEF Answer
<1>5. CASE /\ inFlight' = Rekeyed(inFlight, limitKey[r], DiscoveryKey)
           /\ limitKey' = [limitKey EXCEPT ![r] = DiscoveryKey]
           /\ pc' = [pc EXCEPT ![r] = "dispatching"]
           /\ prepared' = [prepared EXCEPT ![r] = TRUE] /\ UNCHANGED status
  BY <1>1, <1>2, <1>5
<1>6. CASE /\ inFlight' = Rekeyed(inFlight, limitKey[r], DiscoveryKey)
           /\ limitKey' = [limitKey EXCEPT ![r] = NoKey]
           /\ pc' = [pc EXCEPT ![r] = "idle"]
           /\ status' = [status EXCEPT ![r] = "other"] /\ UNCHANGED prepared
  BY <1>1, <1>2, <1>6
<1> QED BY <1>3, <1>4, <1>5, <1>6 DEF Discover

\* No handler of the pipeline takes a variable out of its type, and every step
\* keeps the slot key in agreement with where the request is.
LEMMA TypeInvStep == TypeInv /\ [Next]_vars => TypeInv'
<1> SUFFICES ASSUME TypeInv, [Next]_vars PROVE TypeInv'
  OBVIOUS
<1> USE DEF TypeInv, TypeOK, SlotOfPlace, Places, Statuses
<1>k. /\ ClientKeys \subseteq Keys /\ CredentialKeys \subseteq Keys
      /\ DiscoveryKey \in Keys /\ VerificationKey \in Keys /\ NoKey \notin Keys
  BY KeysCoverEveryUse
<1>1. ASSUME NEW r \in Requests, RefuseWhileShuttingDown(r) PROVE TypeInv'
  BY <1>1 DEF RefuseWhileShuttingDown, Refuse, lifecycleVars
<1>2. ASSUME NEW r \in Requests, NEW key \in ClientKeys, RefuseAtCap(r, key) PROVE TypeInv'
  BY <1>2 DEF RefuseAtCap, Refuse, lifecycleVars
<1>3. ASSUME NEW r \in Requests, NEW key \in ClientKeys, Admit(r, key) PROVE TypeInv'
  BY <1>3, <1>k, LimiterTypes DEF Admit, Arrives, Answer, lifecycleVars
<1>4. ASSUME NEW r \in Requests, RejectAfterBody(r) PROVE TypeInv'
  BY <1>4 DEF RejectAfterBody, Answer, lifecycleVars
<1>5. ASSUME NEW r \in Requests, DispatchProtocolOnly(r) PROVE TypeInv'
  BY <1>5 DEF DispatchProtocolOnly, lifecycleVars
<1>6. ASSUME NEW r \in Requests, EnterDiscovery(r) PROVE TypeInv'
  <2>1. pc[r] # "idle" /\ Discover(r)
    BY <1>6 DEF EnterDiscovery
  <2> QED BY <1>6, <2>1, DiscoverTypes DEF EnterDiscovery, Slots, lifecycleVars
<1>7. ASSUME NEW r \in Requests, NEW key \in CredentialKeys, NEW fresh \in BOOLEAN,
             ResolveCredential(r, key, fresh)
      PROVE  TypeInv'
  <2> DEFINE taken == Acquired(verification, VerificationKey)
  <2>1. /\ limitKey[r] \in Keys /\ pc[r] = "reading"
        /\ key \in Keys /\ key # NoKey
    BY <1>7, <1>k DEF ResolveCredential
  <2>2. /\ Rekeyed(inFlight, limitKey[r], key) \in Limiter
        /\ taken \in Limiter /\ Released(taken, VerificationKey) \in Limiter
    BY <2>1, <1>k, LimiterTypes
  <2>3. /\ verification' \in {verification, taken, Released(taken, VerificationKey)}
        /\ permit' \in {permit, [permit EXCEPT ![r] = TRUE]}
        /\ inFlight' \in {inFlight, Rekeyed(inFlight, limitKey[r], key)}
    BY <1>7 DEF ResolveCredential
  <2>4. limitKey' \in {limitKey, [limitKey EXCEPT ![r] = key]}
    BY <1>7 DEF ResolveCredential
  <2>5. /\ pc' \in {[pc EXCEPT ![r] = "streaming"], [pc EXCEPT ![r] = "verifying"]}
        /\ \/ status' = status
           \/ \E why \in Statuses : status' = [status EXCEPT ![r] = why]
    BY <1>7 DEF ResolveCredential, Answer
  <2>6. UNCHANGED <<prepared, serverOpen>> /\ UNCHANGED lifecycleVars
    BY <1>7 DEF ResolveCredential
  <2>7. SlotOfPlace'
    BY <2>1, <2>4, <2>5
  <2>8. verification' \in Limiter /\ inFlight' \in Limiter
    BY <2>2, <2>3
  <2>9. permit' \in [Requests -> BOOLEAN] /\ limitKey' \in Slots
    BY <2>1, <2>3, <2>4 DEF Slots
  <2>10. pc' \in [Requests -> Places]
    BY <2>5
  <2>11. status' \in [Requests -> Statuses]
    BY <2>5
  <2> HIDE DEF taken
  <2> QED BY <2>6, <2>7, <2>8, <2>9, <2>10, <2>11 DEF lifecycleVars, Slots
<1>8. ASSUME NEW r \in Requests, CapabilitiesKnown(r) PROVE TypeInv'
  BY <1>8, <1>k, LimiterTypes DEF CapabilitiesKnown, FreePermit, Answer, lifecycleVars
<1>9. ASSUME NEW r \in Requests, CapabilitiesFailed(r) PROVE TypeInv'
  <2>1. pc[r] # "idle" /\ FreePermit(r) /\ UNCHANGED serverOpen /\ UNCHANGED lifecycleVars
    BY <1>9 DEF CapabilitiesFailed
  <2>2. verification' \in Limiter /\ permit' \in [Requests -> BOOLEAN]
    BY <2>1, <1>k, LimiterTypes DEF FreePermit
  <2>3. CASE Answer(r, "other") /\ UNCHANGED <<inFlight, limitKey, prepared>>
    BY <2>1, <2>2, <2>3 DEF Answer, lifecycleVars
  <2>4. CASE Discover(r)
    <3>1. /\ inFlight' \in Limiter /\ pc' \in [Requests -> Places]
          /\ limitKey' \in Slots /\ prepared' \in [Requests -> BOOLEAN]
          /\ status' \in [Requests -> Statuses] /\ SlotOfPlace'
      BY <2>1, <2>4, DiscoverTypes
    <3> QED BY <2>1, <2>2, <3>1 DEF Slots, lifecycleVars
  <2> QED BY <1>9, <2>3, <2>4 DEF CapabilitiesFailed
<1>10. ASSUME NEW r \in Requests, OpenServer(r) PROVE TypeInv'
  BY <1>10 DEF OpenServer, lifecycleVars
<1>11. ASSUME NEW r \in Requests, DispatchSettles(r) PROVE TypeInv'
  BY <1>11 DEF DispatchSettles, Answer, lifecycleVars
<1>12. ASSUME NEW r \in Requests, BodyConsumed(r) PROVE TypeInv'
  BY <1>12 DEF BodyConsumed, lifecycleVars
<1>13. ASSUME NEW r \in Requests, Finalize(r) PROVE TypeInv'
  BY <1>13, <1>k, LimiterTypes DEF Finalize, Forget, CloseHandlerIf
<1>14. CASE LifecycleStep
  BY <1>14 DEF LifecycleStep, Drain, Close, ForcedClose, Shutdown, HttpServerClosed,
               DrainTimeout, DrainEffect, requestVars
<1>15. CASE UNCHANGED vars
  BY <1>15 DEF vars
<1> QED
  BY <1>1, <1>2, <1>3, <1>4, <1>5, <1>6, <1>7, <1>8, <1>9, <1>10, <1>11, <1>12, <1>13,
     <1>14, <1>15 DEF Next, RequestStep, BodyRead

\* The state of a pipeline just created is well typed.
LEMMA TypeInvInit == Init => TypeInv
BY LimiterTypes DEF Init, TypeInv, TypeOK, SlotOfPlace, Places, Statuses

\* Every variable keeps its type, and a request holds a key exactly while it is
\* past admission and not yet cleaned up.
THEOREM TypeCorrect == Spec => [](TypeOK /\ SlotOfPlace)
BY TypeInvInit, TypeInvStep, PTL DEF Spec, TypeInv

-----------------------------------------------------------------------------
(* The bookkeeping of the two limiters. *)

\* A verification permit seen as a slot under the shared verification key.
PermitSlots == [r \in Requests |-> IF permit[r] THEN VerificationKey ELSE NoKey]

\* The inductive invariant: limitKey and permit are the assignments the two
\* limiters account for, and a permit is held only while discovery is awaited.
BooksInv ==
    /\ TypeInv
    /\ Accounts(inFlight, limitKey)
    /\ Accounts(verification, PermitSlots)
    /\ \A r \in Requests : permit[r] => pc[r] = "verifying"

\* A pipeline just created holds no slot and no permit.
LEMMA BooksInvInit == Init => BooksInv
<1> SUFFICES ASSUME Init PROVE BooksInv
  OBVIOUS
<1>1. TypeInv
  BY TypeInvInit
<1>2. HoldingIn(limitKey) = {} /\ HoldingIn(PermitSlots) = {}
  BY DEF Init, HoldingIn, PermitSlots
<1>3. \A key \in Keys : HoldingKey(limitKey, key) = {} /\ HoldingKey(PermitSlots, key) = {}
  BY KeysCoverEveryUse DEF Init, HoldingKey, PermitSlots
<1>4. Cardinality({}) = 0
  BY FS_EmptySet
<1> QED BY <1>1, <1>2, <1>3, <1>4 DEF Init, BooksInv, Accounts, EmptyLimiter

\* Entering discovery mode moves one slot to the discovery key or changes none.
LEMMA DiscoverAccounts ==
    ASSUME NamesEncodable, BooksInv, NEW r \in Requests, pc[r] # "idle", Discover(r)
    PROVE  Accounts(inFlight', limitKey')
<1>1. /\ limitKey[r] # NoKey /\ limitKey \in Slots /\ inFlight \in Limiter
      /\ DiscoveryKey \in Keys /\ Accounts(inFlight, limitKey)
  BY KeysCoverEveryUse DEF BooksInv, TypeInv, TypeOK, SlotOfPlace, Slots
<1>2. CASE UNCHANGED <<inFlight, limitKey>>
  BY <1>1, <1>2
<1>3. CASE /\ inFlight' = Rekeyed(inFlight, limitKey[r], DiscoveryKey)
           /\ limitKey' = [limitKey EXCEPT ![r] = DiscoveryKey]
  BY <1>1, <1>3, RekeyAccounts
<1> QED BY <1>2, <1>3 DEF Discover

\* The finally of the verification segment frees exactly the permit held.
LEMMA FreePermitAccounts ==
    ASSUME BooksInv, NEW r \in Requests, FreePermit(r)
    PROVE  Accounts(verification', PermitSlots')
<1>1. /\ PermitSlots \in Slots /\ verification \in Limiter
      /\ Accounts(verification, PermitSlots) /\ VerificationKey # NoKey
  BY KeysCoverEveryUse DEF BooksInv, TypeInv, TypeOK, PermitSlots, Slots
<1>2. PermitSlots' = [PermitSlots EXCEPT ![r] = NoKey]
  BY DEF FreePermit, PermitSlots, BooksInv, TypeInv, TypeOK
<1>3. CASE permit[r]
  <2>1. PermitSlots[r] = VerificationKey /\ verification' = Released(verification, VerificationKey)
    BY <1>3 DEF PermitSlots, FreePermit
  <2> QED BY <1>1, <1>2, <2>1, ReleaseAccounts
<1>4. CASE ~permit[r]
  <2>1. PermitSlots' = PermitSlots /\ verification' = verification
    BY <1>1, <1>2, <1>4 DEF PermitSlots, FreePermit, Slots
  <2> QED BY <1>1, <2>1
<1> QED BY <1>3, <1>4

\* What ResolveCredential does to the two limiters.
LEMMA ResolveAccounts ==
    ASSUME BooksInv, NEW r \in Requests, NEW key \in CredentialKeys, NEW fresh \in BOOLEAN,
           ResolveCredential(r, key, fresh)
    PROVE  /\ Accounts(inFlight', limitKey')
           /\ Accounts(verification', PermitSlots')
           /\ \A q \in Requests : permit'[q] => pc'[q] = "verifying"
<1> DEFINE taken == Acquired(verification, VerificationKey)
           granted == [PermitSlots EXCEPT ![r] = VerificationKey]
<1>1. /\ limitKey[r] # NoKey /\ limitKey \in Slots /\ inFlight \in Limiter
      /\ key \in Keys /\ VerificationKey \in Keys /\ VerificationKey # NoKey
      /\ permit \in [Requests -> BOOLEAN] /\ ~permit[r]
      /\ PermitSlots \in Slots /\ verification \in Limiter /\ PermitSlots[r] = NoKey
      /\ Accounts(inFlight, limitKey) /\ Accounts(verification, PermitSlots)
  BY KeysCoverEveryUse
     DEF BooksInv, TypeInv, TypeOK, SlotOfPlace, Slots, ResolveCredential, PermitSlots
<1>2. Accounts(inFlight', limitKey')
  <2>1. CASE UNCHANGED <<inFlight, limitKey>>
    BY <1>1, <2>1
  <2>2. CASE /\ inFlight' = Rekeyed(inFlight, limitKey[r], key)
             /\ limitKey' = [limitKey EXCEPT ![r] = key]
    BY <1>1, <2>2, RekeyAccounts
  <2> QED BY <2>1, <2>2 DEF ResolveCredential
<1>3. Accounts(taken, granted) /\ taken \in Limiter /\ granted \in Slots
  BY <1>1, AcquireAccounts, LimiterTypes DEF Slots
<1>4. Accounts(Released(taken, VerificationKey), PermitSlots)
  <2>1. granted[r] = VerificationKey /\ [granted EXCEPT ![r] = NoKey] = PermitSlots
    BY <1>1 DEF Slots
  <2>2. Accounts(Released(taken, granted[r]), [granted EXCEPT ![r] = NoKey])
    BY <1>1, <1>3, <2>1, ReleaseAccounts
  <2> QED BY <2>1, <2>2
<1>5. \/ UNCHANGED <<verification, permit>>
      \/ verification' = Released(taken, VerificationKey) /\ UNCHANGED permit
      \/ verification' = taken /\ permit' = [permit EXCEPT ![r] = TRUE]
  BY DEF ResolveCredential
<1>6. Accounts(verification', PermitSlots')
  <2>1. CASE UNCHANGED permit
    BY <1>1, <1>4, <1>5, <2>1 DEF PermitSlots
  <2>2. CASE verification' = taken /\ permit' = [permit EXCEPT ![r] = TRUE]
    <3>1. PermitSlots' = granted
      BY <1>1, <2>2 DEF PermitSlots
    <3> QED BY <1>3, <2>2, <3>1
  <2> QED BY <1>5, <2>1, <2>2
<1>7. ASSUME NEW q \in Requests, permit'[q] PROVE pc'[q] = "verifying"
  <2>1. pc \in [Requests -> Places] /\ (permit[q] => pc[q] = "verifying")
    BY DEF BooksInv, TypeInv, TypeOK
  <2>2. CASE q = r
    <3>1. permit'[r] => pc'[r] = "verifying"
      BY <1>1, <2>1 DEF ResolveCredential, Answer
    <3> QED BY <1>7, <2>2, <3>1
  <2>3. CASE q # r
    <3>1. permit'[q] = permit[q] /\ pc'[q] = pc[q]
      BY <1>1, <2>1, <2>3 DEF ResolveCredential, Answer
    <3> QED BY <1>7, <2>1, <3>1
  <2> QED BY <2>2, <2>3
<1> QED BY <1>2, <1>6, <1>7

\* A step of a request that has its permit, slots and limiters untouched.
LEMMA BooksFrame ==
    ASSUME BooksInv, TypeInv',
           UNCHANGED <<inFlight, verification, limitKey, permit>>,
           \A r \in Requests : permit[r] => pc'[r] = "verifying"
    PROVE  BooksInv'
BY DEF BooksInv, PermitSlots

\* Every handler segment balances acquire, rekey and release (http-fetch-handler.ts,
\* fetch), if no exception escapes dispatchDiscoveryMode.
LEMMA BooksInvStep == NamesEncodable /\ BooksInv /\ [Next]_vars => BooksInv'
<1> SUFFICES ASSUME NamesEncodable, BooksInv, [Next]_vars PROVE BooksInv'
  OBVIOUS
<1>t. TypeInv'
  BY TypeInvStep DEF BooksInv
<1>p. /\ pc \in [Requests -> Places] /\ permit \in [Requests -> BOOLEAN]
      /\ limitKey \in Slots /\ inFlight \in Limiter
      /\ Accounts(inFlight, limitKey) /\ Accounts(verification, PermitSlots)
      /\ \A r \in Requests : limitKey[r] = NoKey <=> pc[r] = "idle"
      /\ \A r \in Requests : permit[r] => pc[r] = "verifying"
  BY DEF BooksInv, TypeInv, TypeOK, SlotOfPlace, Slots
<1>1. ASSUME NEW r \in Requests, RefuseWhileShuttingDown(r) PROVE BooksInv'
  BY <1>1, <1>t, <1>p, BooksFrame DEF RefuseWhileShuttingDown, Refuse
<1>2. ASSUME NEW r \in Requests, NEW key \in ClientKeys, RefuseAtCap(r, key) PROVE BooksInv'
  BY <1>2, <1>t, <1>p, BooksFrame DEF RefuseAtCap, Refuse
<1>3. ASSUME NEW r \in Requests, NEW key \in ClientKeys, Admit(r, key) PROVE BooksInv'
  <2>1. /\ key \in Keys /\ limitKey[r] = NoKey
        /\ inFlight' = Acquired(inFlight, key)
        /\ limitKey' = [limitKey EXCEPT ![r] = key]
    BY <1>3, <1>p, KeysCoverEveryUse DEF Admit, Arrives
  <2>2. Accounts(inFlight', limitKey')
    BY <1>p, <2>1, AcquireAccounts
  <2>3. UNCHANGED <<verification, permit>> /\ PermitSlots' = PermitSlots
    BY <1>3 DEF Admit, PermitSlots
  <2>4. \A q \in Requests : permit'[q] => pc'[q] = "verifying"
    BY <1>3, <1>p, <2>3 DEF Admit, Arrives, Answer
  <2> QED BY <1>t, <1>p, <2>2, <2>3, <2>4 DEF BooksInv
<1>4. ASSUME NEW r \in Requests, RejectAfterBody(r) PROVE BooksInv'
  BY <1>4, <1>t, <1>p, BooksFrame DEF RejectAfterBody, Answer
<1>5. ASSUME NEW r \in Requests, DispatchProtocolOnly(r) PROVE BooksInv'
  BY <1>5, <1>t, <1>p, BooksFrame DEF DispatchProtocolOnly
<1>6. ASSUME NEW r \in Requests, EnterDiscovery(r) PROVE BooksInv'
  <2>1. pc[r] = "reading" /\ Discover(r) /\ UNCHANGED <<verification, permit>>
    BY <1>6 DEF EnterDiscovery
  <2>2. Accounts(inFlight', limitKey')
    BY <2>1, DiscoverAccounts
  <2>3. \A q \in Requests : permit'[q] => pc'[q] = "verifying"
    BY <2>1, <1>p DEF Discover, Answer
  <2>4. PermitSlots' = PermitSlots
    BY <2>1 DEF PermitSlots
  <2> QED BY <1>t, <1>p, <2>1, <2>2, <2>3, <2>4 DEF BooksInv
<1>7. ASSUME NEW r \in Requests, NEW key \in CredentialKeys, NEW fresh \in BOOLEAN,
             ResolveCredential(r, key, fresh)
      PROVE  BooksInv'
  BY <1>7, <1>t, ResolveAccounts DEF BooksInv
<1>8. ASSUME NEW r \in Requests, CapabilitiesKnown(r) PROVE BooksInv'
  <2>1. FreePermit(r) /\ UNCHANGED <<inFlight, limitKey>>
    BY <1>8 DEF CapabilitiesKnown
  <2>2. \A q \in Requests : permit'[q] => pc'[q] = "verifying"
    BY <1>8, <1>p DEF CapabilitiesKnown, FreePermit, Answer
  <2> QED BY <1>t, <1>p, <2>1, <2>2, FreePermitAccounts DEF BooksInv
<1>9. ASSUME NEW r \in Requests, CapabilitiesFailed(r) PROVE BooksInv'
  <2>1. pc[r] = "verifying" /\ FreePermit(r)
    BY <1>9 DEF CapabilitiesFailed
  <2>2. \A q \in Requests : permit'[q] => pc'[q] = "verifying"
    BY <1>9, <1>p DEF CapabilitiesFailed, FreePermit, Discover, Answer
  <2>3. Accounts(inFlight', limitKey')
    BY <1>9, <1>p, <2>1, DiscoverAccounts DEF CapabilitiesFailed
  <2> QED BY <1>t, <2>1, <2>2, <2>3, FreePermitAccounts DEF BooksInv
<1>10. ASSUME NEW r \in Requests, OpenServer(r) PROVE BooksInv'
  BY <1>10, <1>t, <1>p, BooksFrame DEF OpenServer
<1>11. ASSUME NEW r \in Requests, DispatchSettles(r) PROVE BooksInv'
  BY <1>11, <1>t, <1>p, BooksFrame DEF DispatchSettles, Answer
<1>12. ASSUME NEW r \in Requests, BodyConsumed(r) PROVE BooksInv'
  BY <1>12, <1>t, <1>p, BooksFrame DEF BodyConsumed
<1>13. ASSUME NEW r \in Requests, Finalize(r) PROVE BooksInv'
  <2>1. /\ pc[r] = "closing" /\ limitKey[r] # NoKey
        /\ inFlight' = Released(inFlight, limitKey[r])
        /\ limitKey' = [limitKey EXCEPT ![r] = NoKey]
        /\ UNCHANGED <<verification, permit>>
    BY <1>13, <1>p DEF Finalize, Forget
  <2>2. Accounts(inFlight', limitKey')
    BY <1>p, <2>1, ReleaseAccounts
  <2>3. \A q \in Requests : permit'[q] => pc'[q] = "verifying"
    BY <1>13, <1>p, <2>1 DEF Finalize, Forget
  <2>4. PermitSlots' = PermitSlots
    BY <2>1 DEF PermitSlots
  <2> QED BY <1>t, <1>p, <2>1, <2>2, <2>3, <2>4 DEF BooksInv
<1>14. CASE LifecycleStep
  <2>1. UNCHANGED requestVars
    BY <1>14 DEF LifecycleStep, Drain, Close, ForcedClose, Shutdown, HttpServerClosed, DrainTimeout
  <2> QED BY <2>1, <1>t, <1>p, BooksFrame DEF requestVars
<1>15. CASE UNCHANGED vars
  BY <1>15, <1>t, <1>p, BooksFrame DEF vars
<1> QED
  BY <1>1, <1>2, <1>3, <1>4, <1>5, <1>6, <1>7, <1>8, <1>9, <1>10, <1>11, <1>12, <1>13,
     <1>14, <1>15 DEF Next, RequestStep, BodyRead

\* The accounting of both limiters is an invariant.
LEMMA BooksInvHolds == ASSUME NamesEncodable PROVE Spec => []BooksInv
BY NamesEncodable, BooksInvInit, BooksInvStep, PTL DEF Spec

\* For any number of connections and any caps: the limiter's total is the number
\* of requests admitted and not yet cleaned up, and each key's count the number
\* accounted under it, if every tool name fits in a header.
THEOREM SlotsAreAccounted == ASSUME NamesEncodable PROVE Spec => []SlotAccounting
<1>1. BooksInv => SlotAccounting
  <2> SUFFICES ASSUME BooksInv PROVE SlotAccounting
    OBVIOUS
  <2>1. Holders = HoldingIn(limitKey)
    BY DEF Holders, HoldingIn, BooksInv, TypeInv, SlotOfPlace
  <2>2. \A key \in Keys : HoldersOf(key) = HoldingKey(limitKey, key)
    BY DEF HoldersOf, HoldingKey
  <2> QED BY <2>1, <2>2 DEF SlotAccounting, Accounts, BooksInv
<1> QED BY <1>1, BooksInvHolds, PTL

\* The verification limiter counts exactly the requests awaiting discovery under
\* a permit.
THEOREM PermitsAreAccounted == ASSUME NamesEncodable PROVE Spec => []PermitAccounting
<1>1. BooksInv => PermitAccounting
  <2> SUFFICES ASSUME BooksInv PROVE PermitAccounting
    OBVIOUS
  <2>1. VerificationKey \in Keys /\ VerificationKey # NoKey
    BY KeysCoverEveryUse
  <2>2. permit \in [Requests -> BOOLEAN]
    BY DEF BooksInv, TypeInv, TypeOK
  <2>3. /\ HoldingIn(PermitSlots) = {r \in Requests : permit[r]}
        /\ HoldingKey(PermitSlots, VerificationKey) = {r \in Requests : permit[r]}
    BY <2>1, <2>2 DEF HoldingIn, HoldingKey, PermitSlots
  <2> QED BY <2>1, <2>3 DEF PermitAccounting, Accounts, BooksInv
<1> QED BY <1>1, BooksInvHolds, PTL

-----------------------------------------------------------------------------
(* The drain and the global cap, on top of the bookkeeping. *)

\* Only a drained pipeline closes its handler, and outside the forced close it
\* does so at zero; the total respects the cap; an open server has a slot.
DrainInv ==
    /\ handlerClosed \/ timerArmed => shuttingDown
    /\ handlerClosed /\ ~forced => inFlight.active = 0

CapInv ==
    /\ inFlight.active <= MaxTotal
    /\ \A r \in Requests : serverOpen[r] => pc[r] \in {"dispatching", "streaming", "closing"}

\* What a step does to the request total.
LEMMA TotalMoves ==
    ASSUME TypeInv, NamesEncodable, [Next]_vars
    PROVE  \/ UNCHANGED <<inFlight, shuttingDown, handlerClosed, forced, timerArmed>>
           \/ inFlight'.active = inFlight.active
              /\ UNCHANGED <<shuttingDown, handlerClosed, forced, timerArmed>>
           \/ /\ ~shuttingDown /\ inFlight.active < MaxTotal
              /\ inFlight'.active = inFlight.active + 1
              /\ UNCHANGED <<shuttingDown, handlerClosed, forced, timerArmed>>
           \/ /\ inFlight'.active = OneLess(inFlight.active)
              /\ handlerClosed' = (handlerClosed \/ (shuttingDown /\ inFlight'.active = 0))
              /\ UNCHANGED <<shuttingDown, forced>> /\ (timerArmed' => timerArmed)
           \/ UNCHANGED inFlight /\ LifecycleStep
<1>m. inFlight.active \in Nat /\ MaxTotal \in Nat
  BY LimitsArePositive DEF TypeInv, TypeOK, Limiter
<1>r. \A from, to : Rekeyed(inFlight, from, to).active = inFlight.active
  BY DEF Rekeyed
<1>1. ASSUME NEW r \in Requests, RefuseWhileShuttingDown(r) \/ OpenServer(r)
             \/ DispatchSettles(r) \/ BodyConsumed(r) \/ RejectAfterBody(r)
             \/ DispatchProtocolOnly(r) \/ CapabilitiesKnown(r)
      PROVE  UNCHANGED <<inFlight, shuttingDown, handlerClosed, forced, timerArmed>>
  BY <1>1 DEF RefuseWhileShuttingDown, Refuse, OpenServer, DispatchSettles, BodyConsumed,
              RejectAfterBody, DispatchProtocolOnly, CapabilitiesKnown, lifecycleVars
<1>2. ASSUME NEW r \in Requests, NEW key \in ClientKeys, RefuseAtCap(r, key)
      PROVE  UNCHANGED <<inFlight, shuttingDown, handlerClosed, forced, timerArmed>>
  BY <1>2 DEF RefuseAtCap, Refuse, lifecycleVars
<1>3. ASSUME NEW r \in Requests, NEW key \in ClientKeys, Admit(r, key)
      PROVE  /\ ~shuttingDown /\ inFlight.active < MaxTotal
             /\ inFlight'.active = inFlight.active + 1
             /\ UNCHANGED <<shuttingDown, handlerClosed, forced, timerArmed>>
  BY <1>3, <1>m DEF Admit, CanAcquire, AtTotalCap, Acquired, lifecycleVars
<1>4. ASSUME NEW r \in Requests,
             EnterDiscovery(r) \/ CapabilitiesFailed(r)
             \/ \E key \in CredentialKeys, fresh \in BOOLEAN : ResolveCredential(r, key, fresh)
      PROVE  inFlight'.active = inFlight.active
             /\ UNCHANGED <<shuttingDown, handlerClosed, forced, timerArmed>>
  BY <1>4, <1>r DEF EnterDiscovery, CapabilitiesFailed, Discover, ResolveCredential, lifecycleVars
<1>5. ASSUME NEW r \in Requests, Finalize(r)
      PROVE  /\ inFlight'.active = OneLess(inFlight.active)
             /\ handlerClosed' = (handlerClosed \/ (shuttingDown /\ inFlight'.active = 0))
             /\ UNCHANGED <<shuttingDown, forced>> /\ (timerArmed' => timerArmed)
  BY <1>5 DEF Finalize, Released, CloseHandlerIf
<1>6. CASE LifecycleStep
  BY <1>6 DEF LifecycleStep, Drain, Close, ForcedClose, Shutdown, HttpServerClosed,
              DrainTimeout, requestVars
<1>7. CASE UNCHANGED vars
  BY <1>7 DEF vars
<1> QED
  BY <1>1, <1>2, <1>3, <1>4, <1>5, <1>6, <1>7 DEF Next, RequestStep, BodyRead

\* No step closes the handler before the last request is cleaned up, and no step
\* admits one afterwards (maybeCloseMcpHandlerAfterDrain, fetch).
LEMMA DrainInvStep ==
    TypeInv /\ NamesEncodable /\ DrainInv /\ [Next]_vars => DrainInv'
<1> SUFFICES ASSUME TypeInv, NamesEncodable, DrainInv, [Next]_vars PROVE DrainInv'
  OBVIOUS
<1>1. inFlight.active \in Nat /\ inFlight'.active \in Nat
  BY TypeInvStep DEF TypeInv, TypeOK, Limiter
<1>2. CASE UNCHANGED inFlight /\ LifecycleStep
  <2>1. CASE DrainEffect /\ UNCHANGED forced
    BY <1>2, <2>1 DEF DrainInv, DrainEffect, TypeInv, TypeOK
  <2>2. CASE Close \/ ForcedClose
    BY <2>2 DEF DrainInv, Close, ForcedClose
  <2>3. CASE HttpServerClosed \/ DrainTimeout
    BY <1>2, <2>3 DEF DrainInv, HttpServerClosed, DrainTimeout
  <2> QED BY <1>2, <2>1, <2>2, <2>3 DEF LifecycleStep, Drain, Shutdown
<1>3. CASE /\ inFlight'.active = inFlight.active
           /\ UNCHANGED <<shuttingDown, handlerClosed, forced, timerArmed>>
  BY <1>3 DEF DrainInv
<1>4. CASE /\ ~shuttingDown
           /\ UNCHANGED <<shuttingDown, handlerClosed, forced, timerArmed>>
  BY <1>4 DEF DrainInv
<1>5. CASE /\ inFlight'.active = OneLess(inFlight.active)
           /\ handlerClosed' = (handlerClosed \/ (shuttingDown /\ inFlight'.active = 0))
           /\ UNCHANGED <<shuttingDown, forced>> /\ (timerArmed' => timerArmed)
  <2>1. inFlight.active = 0 => inFlight'.active = 0
    BY <1>5 DEF OneLess
  <2> QED BY <1>5, <2>1 DEF DrainInv
<1> QED BY <1>2, <1>3, <1>4, <1>5, TotalMoves

\* The limiter never exceeds its global cap, and a server is open only for a request
\* that holds a slot.
LEMMA CapInvStep ==
    TypeInv /\ NamesEncodable /\ CapInv /\ [Next]_vars => CapInv'
<1> SUFFICES ASSUME TypeInv, NamesEncodable, CapInv, [Next]_vars PROVE CapInv'
  OBVIOUS
<1>1. inFlight.active \in Nat /\ MaxTotal \in Nat
  BY LimitsArePositive DEF TypeInv, TypeOK, Limiter
<1>2. (inFlight.active <= MaxTotal)'
  BY <1>1, TotalMoves DEF CapInv, OneLess
<1>3. ASSUME NEW r \in Requests, serverOpen'[r]
      PROVE  pc'[r] \in {"dispatching", "streaming", "closing"}
  <2>0. /\ pc \in [Requests -> Places] /\ serverOpen \in [Requests -> BOOLEAN]
        /\ serverOpen[r] => pc[r] \in {"dispatching", "streaming", "closing"}
    BY DEF TypeInv, TypeOK, CapInv
  <2>1. ASSUME NEW q \in Requests, RequestStep(q)
        PROVE  pc'[r] \in {"dispatching", "streaming", "closing"}
    <3>1. CASE OpenServer(q)
      BY <1>3, <2>0, <3>1 DEF OpenServer
    <3>2. CASE Finalize(q)
      BY <1>3, <2>0, <3>2 DEF Finalize, Forget
    <3>3. CASE DispatchSettles(q) \/ BodyConsumed(q)
      BY <1>3, <2>0, <3>3 DEF DispatchSettles, BodyConsumed, Answer
    <3>4. CASE RefuseWhileShuttingDown(q) \/ \E key \in ClientKeys : RefuseAtCap(q, key) \/ Admit(q, key)
      BY <1>3, <2>0, <3>4 DEF RefuseWhileShuttingDown, RefuseAtCap, Admit, Refuse, Arrives, Answer
    <3>5. CASE BodyRead(q)
      BY <1>3, <2>0, <3>5
         DEF BodyRead, RejectAfterBody, DispatchProtocolOnly, EnterDiscovery, Discover,
             ResolveCredential, Answer
    <3>6. CASE CapabilitiesKnown(q) \/ CapabilitiesFailed(q)
      BY <1>3, <2>0, <3>6 DEF CapabilitiesKnown, CapabilitiesFailed, Discover, Answer
    <3> QED BY <2>1, <3>1, <3>2, <3>3, <3>4, <3>5, <3>6 DEF RequestStep
  <2>2. CASE LifecycleStep
    BY <1>3, <2>0, <2>2 DEF LifecycleStep, Drain, Close, ForcedClose, Shutdown,
       HttpServerClosed, DrainTimeout, requestVars
  <2>3. CASE UNCHANGED vars
    BY <1>3, <2>0, <2>3 DEF vars
  <2> QED BY <2>1, <2>2, <2>3 DEF Next
<1> QED BY <1>2, <1>3 DEF CapInv

\* Both hold of a pipeline just created.
LEMMA DrainAndCapInit == Init => DrainInv /\ CapInv
BY LimitsArePositive DEF Init, DrainInv, CapInv, EmptyLimiter

\* A drain closes the MCP handler, outside the forced close, only when no
\* request is in flight, and no request is admitted afterwards.
THEOREM DrainWaitsForRequests == ASSUME NamesEncodable PROVE Spec => []HandlerClosesIdle
<1>1. Spec => []DrainInv
  <2>1. Spec => []TypeInv
    BY TypeCorrect, PTL DEF TypeInv
  <2> QED BY <2>1, NamesEncodable, DrainAndCapInit, DrainInvStep, PTL DEF Spec
<1>2. DrainInv /\ BooksInv => HandlerClosesIdle
  <2> SUFFICES ASSUME DrainInv, BooksInv, handlerClosed, ~forced
               PROVE  inFlight.active = 0 /\ Holders = {}
    BY DEF HandlerClosesIdle
  <2>1. inFlight.active = 0
    BY DEF DrainInv
  <2>2. Holders = HoldingIn(limitKey)
    BY DEF Holders, HoldingIn, BooksInv, TypeInv, SlotOfPlace
  <2>3. Cardinality(Holders) = 0 /\ IsFiniteSet(Holders)
    BY <2>1, <2>2, HoldingFinite DEF BooksInv, Accounts
  <2> QED BY <2>1, <2>3, FS_EmptySet
<1> QED BY <1>1, <1>2, BooksInvHolds, PTL

\* MCP servers built for requests never outnumber B2_MAX_SESSIONS.
THEOREM ServersWithinCap == ASSUME NamesEncodable PROVE Spec => []OpenServersWithinCap
<1>1. Spec => []CapInv
  <2>1. Spec => []TypeInv
    BY TypeCorrect, PTL DEF TypeInv
  <2> QED BY <2>1, NamesEncodable, DrainAndCapInit, CapInvStep, PTL DEF Spec
<1>2. CapInv /\ BooksInv => OpenServersWithinCap
  <2> SUFFICES ASSUME CapInv, BooksInv PROVE OpenServersWithinCap
    OBVIOUS
  <2> DEFINE open == {r \in Requests : serverOpen[r]}
  <2>1. open \subseteq HoldingIn(limitKey)
    BY DEF CapInv, BooksInv, TypeInv, SlotOfPlace, HoldingIn
  <2>2. Cardinality(open) <= Cardinality(HoldingIn(limitKey))
        /\ Cardinality(open) \in Nat /\ Cardinality(HoldingIn(limitKey)) \in Nat
    BY <2>1, HoldingFinite, FS_Subset, FS_CardinalityType
  <2>3. Cardinality(HoldingIn(limitKey)) <= MaxTotal /\ MaxTotal \in Nat
    BY LimitsArePositive DEF CapInv, BooksInv, Accounts
  <2> QED BY <2>2, <2>3 DEF OpenServersWithinCap
<1> QED BY <1>1, <1>2, BooksInvHolds, PTL

-----------------------------------------------------------------------------
(* Who is turned away by a cap. *)

\* Requests that hold a slot, r not among them, are no more than the others at work.
LEMMA OthersHold ==
    ASSUME BooksInv, NEW r \in Requests, NEW S, S \subseteq HoldingIn(limitKey) \ {r}
    PROVE  Cardinality(S) <= Cardinality(Holders \ {r})
<1>1. Holders = HoldingIn(limitKey)
  BY DEF Holders, HoldingIn, BooksInv, TypeInv, SlotOfPlace
<1>2. IsFiniteSet(Holders \ {r})
  BY <1>1, HoldingFinite, FS_Subset
<1> QED BY <1>1, <1>2, FS_Subset

\* A request that is not counted under a key at its cap sees MaxPerKey others.
LEMMA KeyCapOfOthers ==
    ASSUME BooksInv, NEW r \in Requests, NEW key \in Keys, limitKey[r] # key,
           AtKeyCap(inFlight, key)
    PROVE  Cardinality(Holders \ {r}) >= MaxPerKey
<1>1. HoldingKey(limitKey, key) \subseteq HoldingIn(limitKey) \ {r}
  BY KeysCoverEveryUse DEF HoldingKey, HoldingIn
<1>2. Cardinality(HoldingKey(limitKey, key)) >= MaxPerKey
  BY DEF BooksInv, Accounts, AtKeyCap
<1>3. /\ Cardinality(HoldingKey(limitKey, key)) \in Nat /\ MaxPerKey \in Nat
      /\ Cardinality(Holders \ {r}) \in Nat
  <2>1. IsFiniteSet(Holders \ {r})
    BY RequestsAreFinite, FS_Subset DEF Holders
  <2> QED BY <2>1, HoldingFinite, FS_CardinalityType, LimitsArePositive
<1> QED BY <1>1, <1>2, <1>3, OthersHold

\* A request without a slot sees MaxTotal others at the total cap.
LEMMA TotalCapOfOthers ==
    ASSUME BooksInv, NEW r \in Requests, limitKey[r] = NoKey, AtTotalCap(inFlight)
    PROVE  Cardinality(Holders \ {r}) >= MaxTotal
<1>1. Holders \ {r} = HoldingIn(limitKey)
  BY DEF Holders, HoldingIn, BooksInv, TypeInv, SlotOfPlace
<1> QED BY <1>1 DEF BooksInv, Accounts, AtTotalCap

\* Every permit is held by a request with a slot; who asks for one has none.
LEMMA PermitCapOfOthers ==
    ASSUME BooksInv, NEW r \in Requests, pc[r] = "reading"
    PROVE  /\ AtTotalCap(verification) => Cardinality(Holders \ {r}) >= MaxTotal
           /\ AtKeyCap(verification, VerificationKey) =>
                  Cardinality(Holders \ {r}) >= MaxPerKey
<1>0. VerificationKey \in Keys /\ VerificationKey # NoKey
  BY KeysCoverEveryUse
<1>1. /\ HoldingIn(PermitSlots) = {q \in Requests : permit[q]}
      /\ HoldingKey(PermitSlots, VerificationKey) = {q \in Requests : permit[q]}
  BY <1>0 DEF HoldingIn, HoldingKey, PermitSlots, BooksInv, TypeInv, TypeOK
<1>2. {q \in Requests : permit[q]} \subseteq HoldingIn(limitKey) \ {r}
  BY DEF HoldingIn, BooksInv, TypeInv, SlotOfPlace
<1>3. IsFiniteSet({q \in Requests : permit[q]}) /\ IsFiniteSet(Holders \ {r})
  BY RequestsAreFinite, FS_Subset DEF Holders
<1>4. /\ Cardinality({q \in Requests : permit[q]}) \in Nat
      /\ Cardinality(Holders \ {r}) \in Nat /\ MaxTotal \in Nat /\ MaxPerKey \in Nat
  BY <1>3, FS_CardinalityType, LimitsArePositive
<1>5. Cardinality({q \in Requests : permit[q]}) <= Cardinality(Holders \ {r})
  BY <1>2, OthersHold
<1>6. /\ verification.active = Cardinality({q \in Requests : permit[q]})
      /\ verification.byKey[VerificationKey] = Cardinality({q \in Requests : permit[q]})
  BY <1>0, <1>1 DEF BooksInv, Accounts
<1> QED BY <1>4, <1>5, <1>6 DEF AtTotalCap, AtKeyCap

\* The answers of a cap in one step, as RefusalsAreJustified says of every step.
JustifiedStep ==
    \A r \in Requests :
        /\ (status'[r] = "capacity" /\ status[r] # "capacity") =>
               Cardinality(Holders \ {r}) >= MaxTotal
        /\ (status'[r] = "keyLimit" /\ status[r] # "keyLimit") =>
               Cardinality(Holders \ {r}) >= MaxPerKey

\* A step that answers one request, and that request with a cap's answer only when
\* the cap is used up by others.
LEMMA OneAnswer ==
    ASSUME TypeInv, NEW r \in Requests, NEW why \in Statuses,
           status' \in {status, [status EXCEPT ![r] = why]},
           why = "capacity" => Cardinality(Holders \ {r}) >= MaxTotal,
           why = "keyLimit" => Cardinality(Holders \ {r}) >= MaxPerKey
    PROVE  JustifiedStep
BY DEF JustifiedStep, TypeInv, TypeOK

\* dispatchDiscoveryMode refuses only when the shared key's slots are others'.
LEMMA DiscoverJustified ==
    ASSUME BooksInv, NEW r \in Requests, pc[r] # "idle", Discover(r)
    PROVE  JustifiedStep
<1>t. TypeInv
  BY DEF BooksInv
<1>1. CASE ~CanRekey(inFlight, limitKey[r], DiscoveryKey)
  <2>1. Cardinality(Holders \ {r}) >= MaxPerKey
    BY <1>1, KeyCapOfOthers, KeysCoverEveryUse DEF CanRekey
  <2> QED BY <1>1, <1>t, <2>1, OneAnswer DEF Discover, Answer, Statuses
<1>2. CASE CanRekey(inFlight, limitKey[r], DiscoveryKey)
  BY <1>2, <1>t, OneAnswer DEF Discover, Answer, Statuses
<1> QED BY <1>1, <1>2

\* The four places at which a cap answers are justified; the others answer otherwise.
LEMMA JustifiedByBooks == BooksInv /\ [Next]_vars => JustifiedStep
<1> SUFFICES ASSUME BooksInv, [Next]_vars PROVE JustifiedStep
  OBVIOUS
<1>t. TypeInv /\ TypeOK
  BY DEF BooksInv, TypeInv
<1>1. ASSUME NEW r \in Requests, NEW key \in ClientKeys, RefuseAtCap(r, key)
      PROVE  JustifiedStep
  <2>1. limitKey[r] = NoKey /\ key \in Keys /\ key # NoKey
    BY <1>1, <1>t, KeysCoverEveryUse DEF RefuseAtCap, Arrives, TypeInv, SlotOfPlace
  <2>2. CASE AtTotalCap(inFlight)
    <3>1. Cardinality(Holders \ {r}) >= MaxTotal
      BY <2>1, <2>2, TotalCapOfOthers
    <3> QED BY <1>1, <1>t, <2>2, <3>1, OneAnswer DEF RefuseAtCap, Refuse, Statuses
  <2>3. CASE ~AtTotalCap(inFlight)
    <3>1. Cardinality(Holders \ {r}) >= MaxPerKey
      BY <1>1, <2>1, <2>3, KeyCapOfOthers DEF RefuseAtCap, CanAcquire
    <3> QED BY <1>1, <1>t, <2>3, <3>1, OneAnswer DEF RefuseAtCap, Refuse, Statuses
  <2> QED BY <2>2, <2>3
<1>2. ASSUME NEW r \in Requests, NEW key \in CredentialKeys, NEW fresh \in BOOLEAN,
             ResolveCredential(r, key, fresh)
      PROVE  JustifiedStep
  <2>0. pc[r] = "reading" /\ key \in Keys
    BY <1>2, KeysCoverEveryUse DEF ResolveCredential
  <2>1. CASE ~CanRekey(inFlight, limitKey[r], key)
    <3>1. Cardinality(Holders \ {r}) >= MaxPerKey
      BY <2>0, <2>1, KeyCapOfOthers DEF CanRekey
    <3> QED BY <1>2, <1>t, <2>1, <3>1, OneAnswer DEF ResolveCredential, Answer, Statuses
  <2>2. CASE status' = status \/ Answer(r, "other")
    BY <1>t, <2>2, OneAnswer DEF Answer, Statuses
  <2>3. CASE /\ ~CanAcquire(verification, VerificationKey)
             /\ Answer(r, IF AtTotalCap(verification) THEN "capacity" ELSE "keyLimit")
    <3>1. CASE AtTotalCap(verification)
      <4>1. Cardinality(Holders \ {r}) >= MaxTotal
        BY <2>0, <3>1, PermitCapOfOthers
      <4> QED BY <1>t, <2>3, <3>1, <4>1, OneAnswer DEF Answer, Statuses
    <3>2. CASE ~AtTotalCap(verification)
      <4>1. Cardinality(Holders \ {r}) >= MaxPerKey
        BY <2>0, <2>3, <3>2, PermitCapOfOthers DEF CanAcquire
      <4> QED BY <1>t, <2>3, <3>2, <4>1, OneAnswer DEF Answer, Statuses
    <3> QED BY <3>1, <3>2
  <2> QED BY <1>2, <2>1, <2>2, <2>3 DEF ResolveCredential
<1>3. ASSUME NEW r \in Requests, EnterDiscovery(r) \/ CapabilitiesFailed(r)
      PROVE  JustifiedStep
  <2>1. CASE Answer(r, "other")
    BY <1>t, <2>1, OneAnswer DEF Answer, Statuses
  <2>2. CASE Discover(r)
    BY <1>3, <2>2, DiscoverJustified DEF EnterDiscovery, CapabilitiesFailed
  <2> QED BY <1>3, <2>1, <2>2 DEF EnterDiscovery, CapabilitiesFailed
<1>4. ASSUME NEW r \in Requests,
             \/ RefuseWhileShuttingDown(r) \/ RejectAfterBody(r) \/ DispatchProtocolOnly(r)
             \/ CapabilitiesKnown(r) \/ OpenServer(r) \/ DispatchSettles(r)
             \/ BodyConsumed(r) \/ Finalize(r) \/ \E key \in ClientKeys : Admit(r, key)
      PROVE  JustifiedStep
  <2>1. \/ status' = status
        \/ \E why \in {"other", "none"} : status' = [status EXCEPT ![r] = why]
    BY <1>4 DEF RefuseWhileShuttingDown, Refuse, RejectAfterBody, DispatchProtocolOnly,
       CapabilitiesKnown, OpenServer, DispatchSettles, BodyConsumed, Finalize, Forget,
       Admit, Answer
  <2> QED BY <1>t, <2>1, OneAnswer DEF Statuses
<1>5. CASE LifecycleStep \/ UNCHANGED vars
  BY <1>5 DEF LifecycleStep, Drain, Close, ForcedClose, Shutdown, HttpServerClosed,
     DrainTimeout, requestVars, vars, JustifiedStep
<1> QED BY <1>1, <1>2, <1>3, <1>4, <1>5 DEF Next, RequestStep, BodyRead

\* Nobody is turned away because of its own slot, its own key or its own permit: a
\* 503 needs MaxTotal other requests at work, a 429 of a cap MaxPerKey.
THEOREM RefusalsJustified == ASSUME NamesEncodable PROVE Spec => RefusalsAreJustified
<1>1. Spec => [][JustifiedStep]_vars
  BY BooksInvHolds, JustifiedByBooks, PTL DEF Spec
<1> QED BY <1>1 DEF RefusalsAreJustified, JustifiedStep

-----------------------------------------------------------------------------
(***************************************************************************)
(* The rate limiter that the pipeline asks after admission and for each    *)
(* credential, as TokenBuckets has it, for any keys, rates, sizes and idle *)
(* time, and a clock that is set back by any bounded amount: what a bucket *)
(* gives out in a window, and that a key which waited is served.           *)
(***************************************************************************)
LEMMA RateBounds ==
    /\ IdleTtl \in Nat /\ MaxBack \in Nat /\ Horizon \in Nat
    /\ \A k \in Buckets :
          /\ Rate[k] \in Nat /\ Rate[k] > 0
          /\ Cost[k] \in Nat /\ Cost[k] > 0 /\ Capacity[k] \in Nat
          /\ Cost[k] <= Capacity[k]
BY TimesAreNatural, SizesAreNatural DEF TimesAreNatural, SizesAreNatural

LEMMA RateIdleIsLong ==
    ASSUME MaxBack > 0
    PROVE  \A k \in RateKeys : Capacity[k] <= Rate[k] * (IdleTtl - MaxBack)
BY IdleIsLong DEF IdleIsLong

\* At most what comes into a bucket in d milliseconds, and at least: a refill
\* follows a millisecond or more, and a grain is all that it is rounded by.
Income(k, d) == (Rate[k] + 1) * d
Assured(k, d) == (Rate[k] - 1) * d

LEMMA ProductsGrow ==
    ASSUME NEW r \in Nat, NEW x \in Int, NEW y \in Int
    PROVE  /\ r * x \in Int /\ r * (x + y) = r * x + r * y
           /\ x >= 0 => r * x >= 0
BY SMT

\* More time brings no less, and d more milliseconds what Refilled adds.
LEMMA Incomes ==
    ASSUME NEW k \in Buckets, NEW x \in Int, NEW d \in Nat
    PROVE  /\ Rate[k] * d \in Nat /\ Income(k, x) \in Int /\ Assured(k, x) \in Int
           /\ Income(k, x + d) \in Int /\ Assured(k, x + d) \in Int
           /\ Income(k, x + d) = Income(k, x) + Rate[k] * d + d
           /\ Assured(k, x + d) = Assured(k, x) + Rate[k] * d - d
           /\ d > 0 => Rate[k] * d > 0
           /\ Income(k, d) >= 0 /\ Assured(k, 0 - d) <= 0
           /\ Income(k, x + d) >= Income(k, x) /\ Assured(k, x + d) >= Assured(k, x)
<1> DEFINE r == Rate[k]
<1>1. r \in Nat /\ r > 0 /\ r + 1 \in Nat /\ r - 1 \in Nat
  BY RateBounds
<1> HIDE DEF r
<1>2. /\ r * d \in Int /\ r * d >= 0
      /\ (r + 1) * d \in Int /\ (r + 1) * d >= 0
      /\ (r - 1) * d \in Int /\ (r - 1) * d >= 0
  BY <1>1, ProductsGrow
<1>3. (r + 1) * d = r * d + d /\ (r - 1) * d = r * d - d
  BY <1>1, <1>2
<1>4. /\ (r + 1) * x \in Int /\ (r + 1) * (x + d) = (r + 1) * x + (r + 1) * d
      /\ (r - 1) * x \in Int /\ (r - 1) * (x + d) = (r - 1) * x + (r - 1) * d
  BY <1>1, ProductsGrow
<1>5. (r - 1) * (0 - d) = 0 - (r - 1) * d
  BY <1>1, <1>2
<1> QED
  BY <1>1, <1>2, <1>3, <1>4, <1>5 DEF Income, Assured, r

\* The same for two readings of the clock.
LEMMA LaterBringsMore ==
    ASSUME NEW k \in Buckets, NEW x \in Int, NEW y \in Int, x <= y
    PROVE  /\ Income(k, x) \in Int /\ Income(k, y) \in Int
           /\ Assured(k, x) \in Int /\ Assured(k, y) \in Int
           /\ Income(k, x) <= Income(k, y) /\ Assured(k, x) <= Assured(k, y)
           /\ 0 <= x => Income(k, x) >= 0
           /\ y <= 0 => Assured(k, y) <= 0
<1>1. y - x \in Nat /\ x + (y - x) = y
  OBVIOUS
<1>2. 0 <= x => x \in Nat
  OBVIOUS
<1>3. y <= 0 => 0 - y \in Nat /\ 0 - (0 - y) = y
  OBVIOUS
<1> QED
  BY <1>1, <1>2, <1>3, Incomes

\* Bucket b of key k, after u grains were spent in the window.
Good(k, b, u) ==
    /\ b.here => /\ b.tokens <= Capacity[k] /\ b.last <= seen
                 /\ u = 0 \/ u + b.tokens <= Capacity[k] + Income(k, b.last - markAt + MaxBack)
                 /\ u = 0 => b.tokens >= Capacity[k] \/ b.tokens >= Assured(k, b.last - markAt)
    /\ ~b.here => u = 0 \/ u <= Income(k, seen - markAt)

ClockInv == markAt <= seen /\ now <= seen /\ seen - MaxBack <= now

BucketsInv == \A k \in Buckets : Good(k, bucket[k], used[k])

RateInv == RateTypeOK /\ ClockInv /\ BucketsInv

LEMMA OpenedGood ==
    ASSUME RateTypeOK, ClockInv,
           NEW k \in Buckets, NEW b \in BucketType, NEW u \in Nat, Good(k, b, u)
    PROVE  /\ Opened(k, b) \in BucketType /\ Opened(k, b).here
           /\ Good(k, Opened(k, b), u)
<1>1. CASE b.here
  BY <1>1 DEF Opened
<1>2. CASE ~b.here
  <2> DEFINE o == Opened(k, b)
  <2>1. o = [here |-> TRUE, tokens |-> Capacity[k], last |-> now]
    BY <1>2 DEF Opened
  <2>2. o \in BucketType /\ o.here /\ o.tokens = Capacity[k] /\ o.last = now
    BY <2>1, RateBounds DEF BucketType, RateTypeOK
  <2>3. u = 0 \/ u <= Income(k, seen - markAt)
    BY <1>2 DEF Good
  <2> HIDE DEF o
  <2>4. o.tokens <= Capacity[k] /\ o.last <= seen /\ o.tokens >= Capacity[k]
    BY <2>2, RateBounds DEF ClockInv
  <2>5. u = 0 \/ u + o.tokens <= Capacity[k] + Income(k, o.last - markAt + MaxBack)
    <3>1. seen - markAt \in Int /\ o.last - markAt + MaxBack \in Int
          /\ seen - markAt <= o.last - markAt + MaxBack
      BY <2>2, RateBounds DEF ClockInv, RateTypeOK
    <3> QED
      BY <2>2, <2>3, <3>1, LaterBringsMore, RateBounds
  <2>6. Good(k, o, u)
    BY <2>2, <2>4, <2>5 DEF Good
  <2> QED
    BY <2>2, <2>6 DEF o
<1> QED
  BY <1>1, <1>2

LEMMA RefilledGood ==
    ASSUME RateTypeOK, ClockInv, NEW e \in Rounding,
           NEW k \in Buckets, NEW b \in BucketType, b.here,
           NEW u \in Nat, Good(k, b, u)
    PROVE  /\ Refilled(k, b, e) \in BucketType /\ Refilled(k, b, e).here
           /\ Refilled(k, b, e).last >= now
           /\ Good(k, Refilled(k, b, e), u)
<1>0. /\ now \in Int /\ seen \in Int /\ markAt \in Int /\ b.tokens \in Nat /\ b.last \in Int
      /\ e \in Int /\ -1 <= e /\ e <= 1
  BY DEF RateTypeOK, BucketType, Rounding
<1>1. CASE now > b.last
  <2> DEFINE r == Refilled(k, b, e)
             x == b.last - markAt
             d == now - b.last
             g == Rate[k] * d
  <2>1. /\ x \in Int /\ d \in Nat /\ d > 0 /\ x + MaxBack \in Int
        /\ x + d = now - markAt /\ (x + MaxBack) + d = now - markAt + MaxBack
    BY <1>0, <1>1, RateBounds
  <2>2. /\ g \in Nat /\ g > 0
        /\ Assured(k, x) \in Int /\ Assured(k, now - markAt) = Assured(k, x) + g - d
    <3> HIDE DEF x, d
    <3>1. /\ g \in Nat /\ g > 0
          /\ Assured(k, x) \in Int /\ Assured(k, x + d) = Assured(k, x) + g - d
      BY <2>1, Incomes
    <3> QED
      BY <2>1, <3>1
  <2>3. /\ Income(k, x + MaxBack) \in Int
        /\ Income(k, now - markAt + MaxBack) = Income(k, x + MaxBack) + g + d
    <3> DEFINE y == x + MaxBack
    <3> HIDE DEF x, d, y
    <3>1. y \in Int /\ y + d = now - markAt + MaxBack
      BY <2>1 DEF y
    <3>2. Income(k, y) \in Int /\ Income(k, y + d) = Income(k, y) + g + d
      BY <2>1, <3>1, Incomes
    <3> QED
      BY <3>1, <3>2 DEF y
  <2>4. r = [here |-> TRUE, last |-> now, tokens |-> Least(Capacity[k], b.tokens + g + e)]
    BY <1>0, <1>1 DEF Refilled, Filled, BucketType
  <2> HIDE DEF g
  <2>5. Least(Capacity[k], b.tokens + g + e) \in Nat
    BY <1>0, <2>2, RateBounds DEF Least
  <2>6. r \in BucketType /\ r.here /\ r.last = now
        /\ r.tokens = Least(Capacity[k], b.tokens + g + e)
    BY <1>0, <2>4, <2>5 DEF BucketType
  <2> HIDE DEF r
  <2>7. r.tokens <= Capacity[k] /\ r.tokens <= b.tokens + g + e
        /\ (r.tokens = Capacity[k] \/ r.tokens = b.tokens + g + e)
    BY <1>0, <2>2, <2>6, RateBounds DEF Least
  <2>8. u = 0 \/ u + r.tokens <= Capacity[k] + Income(k, r.last - markAt + MaxBack)
    <3>1. u = 0 \/ u + b.tokens <= Capacity[k] + Income(k, x + MaxBack)
      BY DEF Good
    <3> HIDE DEF x, d
    <3> QED
      BY <1>0, <2>1, <2>2, <2>3, <2>5, <2>6, <2>7, <3>1, RateBounds
  <2>9. u = 0 => r.tokens >= Capacity[k] \/ r.tokens >= Assured(k, r.last - markAt)
    <3>1. u = 0 => b.tokens >= Capacity[k] \/ b.tokens >= Assured(k, x)
      BY DEF Good
    <3> HIDE DEF x, d
    <3> QED
      BY <1>0, <2>1, <2>2, <2>5, <2>6, <2>7, <3>1, RateBounds
  <2>10. Good(k, r, u)
    BY <2>6, <2>7, <2>8, <2>9 DEF Good, ClockInv
  <2>11. r.last >= now
    BY <1>0, <2>6
  <2> QED
    BY <2>6, <2>10, <2>11 DEF r
<1>2. CASE ~(now > b.last)
  BY <1>0, <1>2 DEF Refilled
<1> QED
  BY <1>1, <1>2

LEMMA SpentGood ==
    ASSUME RateTypeOK, ClockInv,
           NEW k \in Buckets, NEW b \in BucketType, b.here, b.last >= now,
           NEW u \in Nat, Good(k, b, u), b.tokens >= Cost[k],
           NEW s, s = [here |-> TRUE, tokens |-> b.tokens - Cost[k], last |-> b.last]
    PROVE  s \in BucketType /\ Good(k, s, u + Cost[k])
<1>0. now \in Int /\ seen \in Int /\ markAt \in Int /\ b.tokens \in Nat /\ b.last \in Int
  BY DEF RateTypeOK, BucketType
<1>1. s \in BucketType /\ s.here /\ s.tokens = b.tokens - Cost[k] /\ s.last = b.last
  BY <1>0, RateBounds DEF BucketType
<1>2. s.tokens <= Capacity[k] /\ s.last <= seen /\ u + Cost[k] > 0
  BY <1>0, <1>1, RateBounds DEF Good
<1>3. u + Cost[k] + s.tokens <= Capacity[k] + Income(k, s.last - markAt + MaxBack)
  <2>1. /\ b.last - markAt + MaxBack \in Int /\ 0 <= b.last - markAt + MaxBack
        /\ b.last - markAt + MaxBack <= b.last - markAt + MaxBack
    BY <1>0, RateBounds DEF ClockInv
  <2>2. Income(k, b.last - markAt + MaxBack) \in Int
        /\ Income(k, b.last - markAt + MaxBack) >= 0
    BY <2>1, LaterBringsMore
  <2>3. CASE u = 0
    BY <1>0, <1>1, <2>2, <2>3, RateBounds DEF Good
  <2>4. CASE u # 0
    BY <1>0, <1>1, <2>2, <2>4, RateBounds DEF Good
  <2> QED
    BY <2>3, <2>4
<1> QED
  BY <1>1, <1>2, <1>3, RateBounds DEF Good

LEMMA TakeGood ==
    ASSUME RateTypeOK, ClockInv,
           NEW k \in Buckets, NEW bs \in [Buckets -> BucketType],
           \A j \in Buckets : Good(j, bs[j], used[j]),
           Take(k, bs), UNCHANGED <<now, seen, markAt>>
    PROVE  /\ bucket' \in [Buckets -> BucketType] /\ used' \in [Buckets -> Nat]
           /\ BucketsInv'
<1>0. used \in [Buckets -> Nat] /\ Cost[k] \in Nat
  BY RateBounds DEF RateTypeOK
<1> PICK e \in Rounding :
        LET b == Refilled(k, Opened(k, bs[k]), e) IN
        \/ /\ b.tokens >= Cost[k]
           /\ bucket' = [bs EXCEPT ![k] = [here |-> TRUE, tokens |-> b.tokens - Cost[k], last |-> b.last]]
           /\ used' = [used EXCEPT ![k] = used[k] + Cost[k]]
        \/ bucket' = [bs EXCEPT ![k] = b] /\ used' = used
  BY DEF Take, Findings
<1> DEFINE b == Refilled(k, Opened(k, bs[k]), e)
           s == [here |-> TRUE, tokens |-> b.tokens - Cost[k], last |-> b.last]
<1>1. b \in BucketType /\ b.here /\ b.last >= now /\ Good(k, b, used[k])
  BY <1>0, OpenedGood, RefilledGood
<1>2. \/ /\ b.tokens >= Cost[k] /\ bucket' = [bs EXCEPT ![k] = s]
         /\ used' = [used EXCEPT ![k] = used[k] + Cost[k]]
      \/ bucket' = [bs EXCEPT ![k] = b] /\ used' = used
  OBVIOUS
<1>3. b.tokens >= Cost[k] => s \in BucketType /\ Good(k, s, used[k] + Cost[k])
  <2> HIDE DEF b
  <2> QED
    BY <1>0, <1>1, SpentGood
<1> HIDE DEF b, s
<1>4. /\ bucket' \in [Buckets -> BucketType] /\ used' \in [Buckets -> Nat]
      /\ \A j \in Buckets : Good(j, bucket'[j], used'[j])
  <2>1. CASE b.tokens >= Cost[k] /\ bucket' = [bs EXCEPT ![k] = s]
             /\ used' = [used EXCEPT ![k] = used[k] + Cost[k]]
    BY <1>0, <1>3, <2>1
  <2>2. CASE bucket' = [bs EXCEPT ![k] = b] /\ used' = used
    BY <1>0, <1>1, <2>2
  <2> QED
    BY <1>2, <2>1, <2>2
<1>5. BucketsInv'
  BY <1>4 DEF BucketsInv, Good
<1> QED
  BY <1>4, <1>5

LEMMA SweptGood ==
    ASSUME RateInv, NEW e \in [RateKeys -> Rounding]
    PROVE  /\ Swept(e) \in [Buckets -> BucketType]
           /\ \A k \in Buckets : Good(k, Swept(e)[k], used[k])
<1>0. bucket \in [Buckets -> BucketType] /\ used \in [Buckets -> Nat]
      /\ now \in Int /\ seen \in Int /\ markAt \in Int
  BY DEF RateInv, RateTypeOK
<1>1. NoBucket \in BucketType /\ ~NoBucket.here
  BY DEF NoBucket, BucketType
<1>2. ASSUME NEW k \in RateKeys, Idle(k, bucket[k], e[k]) PROVE Good(k, NoBucket, used[k])
  <2> DEFINE b == bucket[k]
             d == now - b.last
             g == Rate[k] * d
             x == b.last - markAt + MaxBack
  <2>1. /\ k \in Buckets /\ b \in BucketType /\ used[k] \in Nat /\ b.here
        /\ d > IdleTtl /\ e[k] \in Int /\ e[k] <= 1
    BY <1>0, <1>2 DEF Buckets, Idle, Rounding
  <2>2. b.tokens \in Nat /\ b.last \in Int /\ d \in Nat /\ d > 0 /\ x \in Int
    BY <1>0, <2>1, RateBounds DEF BucketType
  <2>3. Refilled(k, b, e[k]).tokens = Least(Capacity[k], b.tokens + g + e[k])
    BY <1>0, <2>1, <2>2, RateBounds DEF Refilled, Filled, BucketType
  <2>4. /\ g \in Nat /\ Income(k, x) \in Int /\ Income(k, x + d) = Income(k, x) + g + d
    <3> HIDE DEF b, d, x
    <3> QED
      BY <2>1, <2>2, Incomes
  <2>5. Income(k, x + d) \in Int /\ x + d = now - markAt + MaxBack
    <3>1. x + d = now - markAt + MaxBack
      BY <1>0, <2>2, RateBounds
    <3> HIDE DEF b, d, x
    <3>2. Income(k, x + d) \in Int
      BY <2>1, <2>2, Incomes
    <3> QED
      BY <3>1, <3>2
  <2>6. b.tokens + g + 1 >= Capacity[k]
    <3>1. Least(Capacity[k], b.tokens + g + e[k]) >= Capacity[k]
      BY <1>2, <2>3 DEF Idle
    <3> HIDE DEF b, g
    <3> QED
      BY <2>1, <2>2, <2>4, <3>1, RateBounds DEF Least
  <2>7. used[k] = 0 \/ used[k] + b.tokens <= Capacity[k] + Income(k, x)
    BY <2>1 DEF RateInv, BucketsInv, Good
  <2>8. used[k] = 0 \/ used[k] <= Income(k, seen - markAt)
    <3>1. CASE MaxBack = 0
      <4>1. now - markAt <= seen - markAt /\ now - markAt \in Int /\ seen - markAt \in Int
            /\ x + d = now - markAt
        BY <1>0, <2>5, <3>1 DEF RateInv, ClockInv
      <4>2. Income(k, x + d) <= Income(k, seen - markAt) /\ Income(k, seen - markAt) \in Int
        BY <2>1, <4>1, LaterBringsMore
      <4> HIDE DEF b, d, g, x
      <4> QED
        BY <2>1, <2>2, <2>4, <2>6, <2>7, <4>2, RateBounds
    <3>2. CASE MaxBack > 0
      <4> DEFINE i == IdleTtl - MaxBack
      <4>1. Capacity[k] <= Rate[k] * i /\ i \in Int
        BY <3>2, RateIdleIsLong, RateBounds
      <4>2. i \in Nat
        <5>1. CASE i < 0
          <6>1. Rate[k] * (0 - i) > 0 /\ Rate[k] * (0 - i) = 0 - Rate[k] * i
            <7>1. 0 - i \in Nat /\ 0 - i > 0
              BY <4>1, <5>1
            <7>2. Rate[k] * (0 - i) > 0
              BY <2>1, <7>1, Incomes
            <7> HIDE DEF i
            <7>3. Rate[k] * (i + (0 - i)) = Rate[k] * i + Rate[k] * (0 - i)
              BY <2>1, <4>1, <7>1, ProductsGrow, RateBounds
            <7> QED
              BY <2>1, <4>1, <7>1, <7>2, <7>3, RateBounds
          <6> QED
            BY <2>1, <4>1, <6>1, RateBounds
        <5> QED
          BY <4>1, <5>1
      <4>3. /\ x \in Int /\ x + i <= seen - markAt /\ x + i \in Int /\ seen - markAt \in Int
        BY <1>0, <2>1, <2>2, <4>1, RateBounds DEF RateInv, ClockInv
      <4> HIDE DEF b, d, g, x, i
      <4>4. Income(k, x + i) = Income(k, x) + Rate[k] * i + i /\ Rate[k] * i \in Nat
        BY <2>1, <4>2, <4>3, Incomes
      <4>5. Income(k, x + i) <= Income(k, seen - markAt) /\ Income(k, seen - markAt) \in Int
        BY <2>1, <4>3, LaterBringsMore
      <4> QED
        BY <2>1, <2>2, <2>4, <2>7, <4>1, <4>2, <4>4, <4>5, RateBounds DEF b
    <3> QED
      BY <3>1, <3>2, RateBounds
  <2> QED
    BY <1>1, <2>8 DEF Good
<1> QED
  BY <1>0, <1>1, <1>2 DEF Swept, RateInv, BucketsInv

LEMMA RateInvInit == RateInit => RateInv
<1> SUFFICES ASSUME RateInit PROVE RateInv
  OBVIOUS
<1>1. now = 0 /\ seen = 0 /\ markAt = 0 /\ nextSweep = 0 /\ used = [k \in Buckets |-> 0]
  BY DEF RateInit
<1>2. \A k \in Buckets :
          /\ bucket[k] \in BucketType
          /\ bucket[k].here => bucket[k].tokens = Capacity[k] /\ bucket[k].last = 0
  BY RateBounds DEF RateInit, NoBucket, BucketType
<1>3. bucket \in [Buckets -> BucketType]
  BY <1>2 DEF RateInit
<1>4. RateTypeOK
  BY <1>1, <1>3 DEF RateTypeOK
<1>5. ClockInv
  BY <1>1, RateBounds DEF ClockInv
<1>6. BucketsInv
  <2> SUFFICES ASSUME NEW k \in Buckets PROVE Good(k, bucket[k], used[k])
    BY DEF BucketsInv
  <2>1. used[k] = 0 /\ Capacity[k] \in Nat /\ 0 <= Capacity[k]
    BY <1>1, RateBounds
  <2> QED
    BY <1>1, <1>2, <2>1 DEF Good
<1> QED
  BY <1>4, <1>5, <1>6 DEF RateInv

LEMMA RateInvStep == ASSUME RateInv, [RateNext]_rateVars PROVE RateInv'
<1>0. /\ now \in Int /\ seen \in Int /\ markAt \in Int /\ nextSweep \in Int
      /\ bucket \in [Buckets -> BucketType] /\ used \in [Buckets -> Nat]
  BY DEF RateInv, RateTypeOK
<1>1. ASSUME NEW k \in RateKeys, AllowRequest(k) PROVE RateInv'
  <2>1. k \in Buckets /\ UNCHANGED <<now, seen, markAt>>
    BY <1>1 DEF Buckets, AllowRequest
  <2>2. nextSweep' \in Int
    BY <1>0, <1>1, RateBounds DEF AllowRequest
  <2>3. CASE Take(k, bucket)
    BY <1>0, <2>1, <2>2, <2>3, TakeGood DEF RateInv, RateTypeOK, ClockInv, BucketsInv
  <2>4. ASSUME NEW e \in [RateKeys -> Rounding], Take(k, Swept(e)) PROVE RateInv'
    BY <1>0, <2>1, <2>2, <2>4, TakeGood, SweptGood DEF RateInv, RateTypeOK, ClockInv
  <2> QED
    BY <1>1, <2>3, <2>4 DEF AllowRequest
<1>2. CASE ConsumeRetryBudgetToken
  BY <1>0, <1>2, TakeGood
     DEF ConsumeRetryBudgetToken, Buckets, RateInv, RateTypeOK, ClockInv,
         BucketsInv
<1>3. CASE SweepIdleBuckets
  <2>1. PICK e \in [RateKeys -> Rounding] : bucket' = Swept(e)
    BY <1>3 DEF SweepIdleBuckets
  <2>2. UNCHANGED <<now, seen, nextSweep, markAt, used>>
    BY <1>3 DEF SweepIdleBuckets
  <2> QED
    BY <1>0, <2>1, <2>2, SweptGood DEF RateInv, RateTypeOK, ClockInv, BucketsInv, Good
<1>4. CASE Tick
  <2>1. /\ now' \in Int /\ seen' \in Int /\ seen' >= seen
        /\ UNCHANGED <<bucket, nextSweep, markAt, used>>
    BY <1>0, <1>4 DEF Tick
  <2>2. ClockInv'
    <3>1. now' = now + 1 /\ seen' = IF now + 1 > seen THEN now + 1 ELSE seen
      BY <1>4 DEF Tick
    <3>2. ClockInv /\ MaxBack \in Nat
      BY RateBounds DEF RateInv
    <3> QED
      BY <1>0, <2>1, <3>1, <3>2 DEF ClockInv
  <2>3. BucketsInv'
    <3> SUFFICES ASSUME NEW k \in Buckets PROVE Good(k, bucket[k], used[k])'
      BY <2>1 DEF BucketsInv
    <3>1. bucket[k].last \in Int /\ bucket[k].tokens \in Nat /\ used[k] \in Nat
      BY <1>0 DEF BucketType
    <3>2. Good(k, bucket[k], used[k])
      BY DEF RateInv, BucketsInv
    <3>3. /\ seen - markAt \in Int /\ seen' - markAt \in Int
          /\ seen - markAt <= seen' - markAt
      <4>1. seen \in Int /\ seen' \in Int /\ markAt \in Int
        BY <1>0, <2>1
      <4>2. seen <= seen'
        BY <2>1, <4>1
      <4>3. \A a, b, c \in Int : a <= b => a - c \in Int /\ b - c \in Int /\ a - c <= b - c
        OBVIOUS
      <4> QED
        BY <4>1, <4>2, <4>3
    <3> DEFINE x == seen - markAt
               y == seen' - markAt
    <3>4. Income(k, x) <= Income(k, y) /\ Income(k, x) \in Int /\ Income(k, y) \in Int
      <4> HIDE DEF x, y
      <4>1. x \in Int /\ y \in Int /\ x <= y
        BY <3>3 DEF x, y
      <4> QED
        BY <4>1, LaterBringsMore
    <3> QED
      BY <1>0, <2>1, <3>1, <3>2, <3>4 DEF Good
  <2> QED
    BY <1>0, <2>1, <2>2, <2>3 DEF RateInv, RateTypeOK
<1>5. CASE ClockBack
  <2>1. now' \in Int /\ now' <= now /\ now' >= seen - MaxBack
    BY <1>0, <1>5, RateBounds DEF ClockBack
  <2> QED
    BY <1>0, <1>5, <2>1, RateBounds
       DEF ClockBack, RateInv, RateTypeOK, ClockInv, BucketsInv, Good
<1>6. CASE Mark
  <2>1. /\ markAt' = seen /\ used' = [k \in Buckets |-> 0]
        /\ UNCHANGED <<now, seen, bucket, nextSweep>>
    BY <1>6 DEF Mark
  <2>2. BucketsInv'
    <3> SUFFICES ASSUME NEW k \in Buckets PROVE Good(k, bucket[k], used[k])'
      BY <2>1 DEF BucketsInv
    <3>1. bucket[k].last \in Int /\ bucket[k].tokens \in Nat
      BY <1>0 DEF BucketType
    <3>2. Good(k, bucket[k], used[k])
      BY DEF RateInv, BucketsInv
    <3>3. bucket[k].here => bucket[k].last - seen \in Int /\ bucket[k].last - seen <= 0
      BY <1>0, <3>1, <3>2 DEF Good
    <3>4. bucket[k].here => /\ Assured(k, bucket[k].last - seen) <= 0
                            /\ Assured(k, bucket[k].last - seen) \in Int
      BY <3>3, LaterBringsMore
    <3> QED
      BY <1>0, <2>1, <3>1, <3>2, <3>4 DEF Good
  <2> QED
    BY <1>0, <2>1, <2>2 DEF RateInv, RateTypeOK, ClockInv
<1>7. CASE UNCHANGED rateVars
  BY <1>7 DEF rateVars, RateInv, RateTypeOK, ClockInv, BucketsInv, Good
<1> QED
  BY <1>1, <1>2, <1>3, <1>4, <1>5, <1>6, <1>7 DEF RateNext

\* The clock, every bucket and what was spent of it fit together: what the two
\* results below rest on.
THEOREM RateInvariance == RateSpec => []RateInv
<1>1. RateInit => RateInv
  BY RateInvInit
<1>2. RateInv /\ [RateNext]_rateVars => RateInv'
  BY RateInvStep
<1> QED
  BY <1>1, <1>2, PTL DEF RateSpec

\* Tokens and readings keep their types, whatever the clock does.
THEOREM RateTypeCorrect == RateSpec => []RateTypeOK
<1>1. RateInv => RateTypeOK
  BY DEF RateInv
<1> QED
  BY <1>1, RateInvariance, PTL

\* A bucket, or the retry budget, gives out in any window at most what it holds
\* and what comes in, also when it is dropped as idle and opened again, full.
THEOREM BoundsGrants == RateSpec => []GrantsAreBounded
<1>1. RateInv => GrantsAreBounded
  <2> SUFFICES ASSUME RateInv, NEW k \in Buckets
               PROVE  used[k] <= Capacity[k] + (Rate[k] + 1) * (seen - markAt + MaxBack)
    BY DEF GrantsAreBounded
  <2>1. /\ bucket[k].tokens \in Nat /\ bucket[k].last \in Int /\ used[k] \in Nat
        /\ bucket[k].here \in BOOLEAN
        /\ seen \in Int /\ markAt \in Int /\ now \in Int
    BY DEF RateInv, RateTypeOK, BucketType
  <2>2. Good(k, bucket[k], used[k])
    BY DEF RateInv, BucketsInv
  <2> DEFINE w == seen - markAt + MaxBack
  <2>3. w \in Int /\ 0 <= w /\ seen - markAt \in Int /\ seen - markAt <= w
    BY <2>1, RateBounds DEF RateInv, ClockInv
  <2>4. /\ Income(k, w) \in Int /\ Income(k, w) >= 0
        /\ Income(k, seen - markAt) \in Int /\ Income(k, seen - markAt) <= Income(k, w)
    BY <2>3, LaterBringsMore
  <2>5. CASE bucket[k].here
    <3>1. /\ bucket[k].last - markAt + MaxBack \in Int
          /\ bucket[k].last - markAt + MaxBack <= w
      BY <2>1, <2>2, <2>5, RateBounds DEF Good
    <3>2. /\ Income(k, bucket[k].last - markAt + MaxBack) \in Int
          /\ Income(k, bucket[k].last - markAt + MaxBack) <= Income(k, w)
      BY <2>3, <3>1, LaterBringsMore
    <3> HIDE DEF w
    <3>3. used[k] <= Capacity[k] + Income(k, w)
      BY <2>1, <2>2, <2>4, <2>5, <3>2, RateBounds DEF Good
    <3> QED
      BY <3>3 DEF Income, w
  <2>6. CASE ~bucket[k].here
    <3> HIDE DEF w
    <3>1. used[k] <= Capacity[k] + Income(k, w)
      BY <2>1, <2>2, <2>4, <2>6, RateBounds DEF Good
    <3> QED
      BY <3>1 DEF Income, w
  <2> QED
    BY <2>5, <2>6
<1> QED
  BY <1>1, RateInvariance, PTL

\* No refusal, sweep or clock set back takes from a key what came in for it,
\* but for the rounding of each refill.
THEOREM RewardsPatience == RateSpec => []PatienceIsRewarded
<1>1. RateInv => PatienceIsRewarded
  <2> SUFFICES ASSUME RateInv, NEW k \in Buckets, used[k] = 0,
                      (Rate[k] - 1) * (now - markAt) >= Cost[k],
                      NEW e \in Rounding
               PROVE  Refilled(k, Opened(k, bucket[k]), e).tokens >= Cost[k]
    BY DEF PatienceIsRewarded, Findings
  <2>1. used[k] \in Nat /\ bucket[k] \in BucketType
        /\ seen \in Int /\ markAt \in Int /\ now \in Int
    BY DEF RateInv, RateTypeOK
  <2> DEFINE b == Refilled(k, Opened(k, bucket[k]), e)
  <2>2. b \in BucketType /\ b.here /\ b.last >= now /\ Good(k, b, used[k])
    BY <2>1, OpenedGood, RefilledGood DEF RateInv, BucketsInv
  <2> HIDE DEF b
  <2>3. b.tokens \in Nat /\ b.last \in Int
    BY <2>2 DEF BucketType
  <2>4. /\ now - markAt \in Int /\ b.last - markAt \in Int
        /\ now - markAt <= b.last - markAt
    BY <2>1, <2>2, <2>3
  <2>5. /\ Assured(k, now - markAt) \in Int /\ Assured(k, b.last - markAt) \in Int
        /\ Assured(k, now - markAt) <= Assured(k, b.last - markAt)
        /\ Cost[k] <= Assured(k, now - markAt)
    BY <2>4, LaterBringsMore DEF Assured
  <2>6. b.tokens >= Cost[k]
    BY <2>2, <2>3, <2>5, RateBounds DEF Good
  <2> QED
    BY <2>6 DEF b
<1> QED
  BY <1>1, RateInvariance, PTL
====
