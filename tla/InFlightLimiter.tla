---- MODULE InFlightLimiter ----
(***************************************************************************)
(* The in-flight limiter of http-fetch-handler.ts, as pure operators on a  *)
(* limiter value [active |-> n, byKey |-> counts].  The Map of the code    *)
(* drops a key whose count reaches zero; here the count is 0, which is     *)
(* what `byKey.get(key) ?? 0` reads.  The pipeline owns two limiters with  *)
(* the same caps: one for requests, one for credential verifications.      *)
(***************************************************************************)
EXTENDS Naturals

CONSTANTS
    Keys,       \* limit keys: client addresses, credentials, shared keys
    MaxTotal,   \* B2_MAX_SESSIONS
    MaxPerKey   \* B2_MAX_SESSIONS_PER_KEY

\* intEnv clamps both limits to at least one.
ASSUME LimitsArePositive == MaxTotal \in Nat \ {0} /\ MaxPerKey \in Nat \ {0}

Limiter == [active : Nat, byKey : [Keys -> Nat]]

EmptyLimiter == [active |-> 0, byKey |-> [k \in Keys |-> 0]]

AtTotalCap(lim) == lim.active >= MaxTotal

AtKeyCap(lim, key) == lim.byKey[key] >= MaxPerKey

\* acquire: the total cap is tested first (503), then the key's cap (429).
CanAcquire(lim, key) == ~AtTotalCap(lim) /\ ~AtKeyCap(lim, key)

Acquired(lim, key) ==
    [active |-> lim.active + 1,
     byKey  |-> [lim.byKey EXCEPT ![key] = @ + 1]]

\* `if (current <= 1) byKey.delete(key); else byKey.set(key, current - 1)`
OneLess(n) == IF n <= 1 THEN 0 ELSE n - 1

\* rekey moves a held slot to another key; the same key is always granted.
CanRekey(lim, from, to) == from = to \/ ~AtKeyCap(lim, to)

\* Mutant: a rekey that keeps counting the key it came from.
RekeyedKeepingOld(lim, from, to) ==
    IF from = to THEN lim ELSE [lim EXCEPT !.byKey[to] = @ + 1]

Rekeyed(lim, from, to) ==
    IF from = to THEN lim
    ELSE [active |-> lim.active,
          byKey  |-> [lim.byKey EXCEPT ![from] = OneLess(@), ![to] = @ + 1]]

Released(lim, key) ==
    [active |-> OneLess(lim.active),
     byKey  |-> [lim.byKey EXCEPT ![key] = OneLess(@)]]
====
