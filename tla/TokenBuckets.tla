---- MODULE TokenBuckets ----
(***************************************************************************)
(* The token buckets of the server: one per rate-limit key                 *)
(* (src/src/utils/rate-limiter.ts), which come and go, and the budget of   *)
(* all retries (src/src/utils/retry.ts), which always exists.  They refill *)
(* by the wall clock, which may be set back.                               *)
(*                                                                         *)
(* A bucket counts in grains: Rate of them come in per millisecond, a      *)
(* token is Cost grains and a full bucket Capacity grains.  The code       *)
(* counts tokens in doubles.  For rps tokens a second take Rate = rps * M  *)
(* and Cost = 1000 * M, and tokens as the whole grains of the double: then *)
(* the rate is exact, taking a token is exact, and what one refill loses   *)
(* or gains by rounding is a grain at most, for M up to about              *)
(* 2^50 / (1000 * burst).                                                  *)
(***************************************************************************)
EXTENDS Integers

CONSTANTS
    RateKeys,       \* keys of allowRequest
    Budget,         \* the retry budget
    Rate, Cost, Capacity, \* per bucket, in grains
    IdleTtl,        \* IDLE_TTL_MS
    MaxBack,        \* how far the clock may stand behind its greatest reading
    Horizon         \* bound: the clock stops here

Buckets == RateKeys \cup {Budget}

ASSUME BudgetIsNoRateKey == Budget \notin RateKeys
ASSUME TimesAreNatural == {IdleTtl, MaxBack, Horizon} \subseteq Nat
ASSUME SizesAreNatural ==
    /\ Rate \in [Buckets -> Nat \ {0}]
    /\ Cost \in [Buckets -> Nat \ {0}] /\ Capacity \in [Buckets -> Nat \ {0}]
    /\ \A k \in Buckets : Cost[k] <= Capacity[k]
\* A clock that is set back must not lead to a bucket that is idle sooner than
\* it is full: 10 minutes, against the 2 seconds in which 120 tokens come in.
ASSUME IdleIsLong ==
    MaxBack > 0 => \A k \in RateKeys : Capacity[k] <= Rate[k] * (IdleTtl - MaxBack)

VARIABLES
    now,
    seen,           \* the greatest reading of the clock so far
    bucket,
    nextSweep,      \* nextOpportunisticSweepAt
    markAt, used    \* a window: seen as it began, and what was spent in it

rateVars == <<now, seen, bucket, nextSweep, markAt, used>>

NoBucket == [here |-> FALSE, tokens |-> 0, last |-> 0]
BucketType == [here : BOOLEAN, tokens : Nat, last : Int]

RateTypeOK ==
    /\ now \in Int /\ seen \in Int /\ markAt \in Int
    /\ bucket \in [Buckets -> BucketType]
    /\ nextSweep \in Int
    /\ used \in [Buckets -> Nat]

RateInit ==
    /\ now = 0 /\ seen = 0
    /\ bucket = [k \in Buckets |->
                    IF k = Budget THEN [here |-> TRUE, tokens |-> Capacity[k], last |-> 0]
                    ELSE NoBucket]
    /\ nextSweep = 0
    /\ markAt = 0 /\ used = [k \in Buckets |-> 0]

-----------------------------------------------------------------------------
(* A bucket. *)

Least(m, n) == IF m <= n THEN m ELSE n

\* By how many grains doubles may miss the exact sum of one refill.
Rounding == {-1, 0, 1}

\* What is in bucket b of k after the time since b.last, rounded by e.
Filled(k, b, e) == Least(Capacity[k], b.tokens + Rate[k] * (now - b.last) + e)

\* Mutant: time that is too short for a token is taken for nothing.
RefilledByTokens(k, b, e) ==
    IF Rate[k] * (now - b.last) >= Cost[k]
    THEN [b EXCEPT !.tokens = Filled(k, b, e), !.last = now]
    ELSE IF now > b.last THEN [b EXCEPT !.last = now] ELSE b

\* `elapsed > 0`: a clock that was set back changes nothing until it caught up.
Refilled(k, b, e) ==
    IF now > b.last THEN [b EXCEPT !.tokens = Filled(k, b, e), !.last = now] ELSE b

\* Mutant: an idle bucket is dropped before it is full.
IdleOnly(k, b, e) == b.here /\ now - b.last > 0

\* The test of sweepIdleBuckets.
Idle(k, b, e) ==
    /\ b.here
    /\ now - b.last > IdleTtl
    /\ Refilled(k, b, e).tokens >= Capacity[k]

\* What a sweep with the roundings e leaves of the buckets.
Swept(e) == [k \in Buckets |-> IF k \in RateKeys /\ Idle(k, bucket[k], e[k]) THEN NoBucket
                               ELSE bucket[k]]

\* A key without a bucket gets a full one.
Opened(k, b) == IF b.here THEN b ELSE [here |-> TRUE, tokens |-> Capacity[k], last |-> now]

\* What a request of k may find in bucket b.
Findings(k, b) == {Refilled(k, Opened(k, b), e) : e \in Rounding}

\* Consume a token of k out of the buckets bs, or refuse.
Take(k, bs) ==
    \E b \in Findings(k, bs[k]) :
        \/ /\ b.tokens >= Cost[k]
           /\ bucket' = [bs EXCEPT ![k] = [here |-> TRUE, tokens |-> b.tokens - Cost[k], last |-> b.last]]
           /\ used' = [used EXCEPT ![k] = used[k] + Cost[k]]
        \/ /\ b.tokens < Cost[k]
           /\ bucket' = [bs EXCEPT ![k] = b]
           /\ UNCHANGED used

-----------------------------------------------------------------------------
(* Operations. *)

\* A request of key k; maybeSweepIdleBuckets comes first.
AllowRequest(k) ==
    /\ \/ /\ now < nextSweep
          /\ Take(k, bucket)
          /\ UNCHANGED nextSweep
       \/ /\ now >= nextSweep
          /\ \E e \in [RateKeys -> Rounding] : Take(k, Swept(e))
          /\ nextSweep' = now + IdleTtl
    /\ UNCHANGED <<now, seen, markAt>>

\* A retry of any call.
ConsumeRetryBudgetToken ==
    /\ Take(Budget, bucket)
    /\ UNCHANGED <<now, seen, nextSweep, markAt>>

\* The periodic sweep of the HTTP server.
SweepIdleBuckets ==
    /\ \E e \in [RateKeys -> Rounding] : bucket' = Swept(e)
    /\ UNCHANGED <<now, seen, nextSweep, markAt, used>>

Tick ==
    /\ now < Horizon
    /\ now' = now + 1
    /\ seen' = IF now + 1 > seen THEN now + 1 ELSE seen
    /\ UNCHANGED <<bucket, nextSweep, markAt, used>>

ClockBack ==
    /\ now' \in (seen - MaxBack)..(now - 1)
    /\ UNCHANGED <<seen, bucket, nextSweep, markAt, used>>

\* A window begins: any moment may be one.
Mark ==
    /\ markAt' = seen
    /\ used' = [k \in Buckets |-> 0]
    /\ UNCHANGED <<now, seen, bucket, nextSweep>>

RateNext ==
    \/ \E k \in RateKeys : AllowRequest(k)
    \/ ConsumeRetryBudgetToken
    \/ SweepIdleBuckets
    \/ Tick
    \/ ClockBack
    \/ Mark

RateSpec == RateInit /\ [][RateNext]_rateVars

-----------------------------------------------------------------------------
(* Properties. *)

\* In no window does a bucket give out more than what a full one holds and what
\* came in since, plus what a clock set back counts twice; a bucket that is
\* dropped and opened again, full, in the window makes no difference.  For the
\* retry budget and a window of BUDGET_WINDOW_MS that comes to twice
\* BUDGET_TOKENS, and not to the BUDGET_TOKENS that retry.ts:8-9 and :25 claim.
GrantsAreBounded ==
    \A k \in Buckets :
        used[k] <= Capacity[k] + (Rate[k] + 1) * (seen - markAt + MaxBack)

\* A key that was granted nothing for as long as a token takes to come in, each
\* refill short of its rounding, is granted its next request however often it
\* was refused in that time.  In the code that is a millisecond more than
\* 1000 / rps at most: refused each millisecond, a bucket of 100 a second holds
\* 0.9999999999999999 of a token after ten.
PatienceIsRewarded ==
    \A k \in Buckets :
        used[k] = 0 /\ (Rate[k] - 1) * (now - markAt) >= Cost[k] =>
            \A b \in Findings(k, bucket[k]) : b.tokens >= Cost[k]
====
