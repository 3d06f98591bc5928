# A TLA+ model of the Backblaze B2 MCP server

This directory holds a formal model of the parts of the server whose
correctness depends on the order in which things happen: requests that
interleave at every `await`, processes that share a file, callers that give up,
retries, timers and crashes. TLC checks the model on small instances; TLAPS
proves the statements that matter most for every value of the constants.

## 1. The system

The server speaks the Model Context Protocol over stdio or HTTP and turns tool
calls into calls of the B2 native API, the S3-compatible API and the Partner
API.

    client -> http-server / serverless adapter -> OAuth verifier (optional)
           -> http-fetch-handler (in-flight slots, rate, credentials, drain)
           -> server.ts (capability cache, tool registration)
           -> tool handler -> destructive gate / elicitation
                           -> secret sink (tools that create credentials)
           -> auth.ts (authorization cache, retry budget, write classification)
           -> circuit breaker -> B2 / S3 / Partner API

| component | state it keeps | operations | what is hard | what makes it correct |
|---|---|---|---|---|
| HTTP pipeline (`http-fetch-handler.ts`) | two in-flight limiters, drain flags, a prepared request per async scope | `fetch`, response cleanup, `drain`, `close` | every path out of `fetch` must give its slot back, from whatever `await` it leaves; a body that is cancelled; drain with work in flight | slots and permits equal the requests that hold them; caps hold; a refusal is justified; draining waits and ends |
| Node server (`http-server.ts`, `node-web-bridge.ts`) | shutdown flag, drain timer | listen, `shutdown`, write a response | signal during work, two timers of the same length, client gone | the process exits; forced exit only after the drain period |
| Secret sink (`secret-sink.ts`, `secure-append-file.ts`) | ledger file, index file, committed record, pending claim, lock files | claim, create, append, index, replay, recover | several processes on one directory, crash between any two file operations, ambiguous provider answers, stale locks | a request fingerprint creates at most one credential that is not accounted for; an answered secret is in the ledger |
| Authorization (`auth.ts`) | cached authorization with TTL, the authorization in flight, invalidation | `getAuth`, `forceRefresh`, `invalidate`, abort race | callers share one promise, one of them aborts; invalidation races the answer | no caller is given an authorization older than its invalidation; one abort does not fail the others |
| Write classification and retry (`auth.ts`, `retry.ts`) | shared retry budget, per-request signal | `withRetry`, `send` | a timeout races an answer; a write may have been applied; socket errors nobody recognises | a write that may have been applied is not sent again, nor told as definitely failed |
| Circuit breakers (`circuit-breaker.ts`) | one breaker per slot | `fire`, timeout, half-open probe | late answers after the timeout, half-open with several callers | 4xx do not open it; reads and writes share what the comments say they share |
| Capability cache (`server.ts`) | capabilities per key (LRU), discovery in flight, auth managers (LRU) | `fetchCapabilities`, `invalidateCapabilityCache`, sweeps | an invalidation during a discovery, clock readings before and after an await, five places that change one Map | no answer is served longer than its time to live; one discovery serves all that need it |
| Destructive gate (`destructive-gate.ts`, `destructive-elicitation.ts`) | a signed confirmation state bound to tool, effect, arguments and time | `checkDestructive`, `maybeRequireDestructiveElicitation` | two rounds, arguments changed between them, expiry, clients without elicitation | a destructive effect happens only after a confirmation of these arguments |
| OAuth resource server (`oauth-resource-server.ts`) | introspection cache, JWKS cache, refresh in flight, unknown-kid cache, dependency circuits | `verifyAccessToken`, `getJwks`, forced refresh | concurrent lookups share a refresh; cool-downs; failure of a dependency | a retired key stops being accepted, and a new one is accepted, within bounded time; an open circuit is left alone; nobody waits for a request that is gone |
| Rate limiter (`rate-limiter.ts`) | a bucket per key | `allowRequest`, idle sweep | a clock that is set back, refills added up in doubles, eviction of a bucket in use | no key passes more than burst + rate x time; a key that waits is served |
| S3 data plane (`s3/*`) | per tool call | upload, download, copy, delete, multipart, presign | a body that stops, files that others replace, inodes that are used again, a crash between two file operations; multipart completion of unknown outcome | a local target is always whole, and what others put there stays |
| Insights (`b2/insights.ts`, `report-client.ts`) | scan budget of a call | bounded report and listing scans | budgets of pages, bytes and time over several listings and loads, of keys for each listing, of files and rows for each load | an answer cut off by a budget says so, and no budget is passed |
| Native and Partner API (`b2/*`) | SDK client, upload URL pools | control-plane calls, key creation | a created secret must reach the sink | secret-bearing responses are validated before use |
| Registration (`server.ts`, `mcp.ts`, `tool-contract.ts`, `prompts.ts`, `resources.ts`) | deferred registrations | build a server for a capability set | order independence | a tool is registered only with its capabilities |
| Credentials and configuration (`credentials.ts`, `config.ts`) | none | resolve a request to a credential | key collision between principals | different callers have different keys |
| Entry points (`index.ts`, `cli.ts`, `serverless-adapter-runtime.ts`) | cached runtime per isolate | start, adapt | start-up deadline, configuration change | one pipeline per configuration |
| Formatting and logging (`toon-encoder.ts`, `result-serializer.ts`, `secret-sanitizer.ts`, `logger.ts`, `errors.ts`) | none | pure functions over text | redaction | not modelled |


Components call each other inside one Node process, so a component is atomic
between two `await`s, and everything above interleaves only there. Two things
are shared more widely: the sink directory, by several server processes on one
host, and B2 itself, which may handle a request after its sender has given up.

## 2. Modules

| module | what it is | composed of |
|---|---|---|
| `InFlightLimiter` | the counter behind the concurrency caps, as operators on a record | |
| `HttpPipeline` | requests, in-flight slots, drain and shutdown | extends `InFlightLimiter`, uses it twice |
| `OneCredential` | abstract: what the file sink promises about credentials | |
| `SecretSink` | the durable-secret operation over one ledger directory | implements `OneCredential` |
| `SerialAppends` | abstract: appends that follow each other | |
| `AppendLock` | the two lock files under the ledger append | implements `SerialAppends`, the lock that `SecretSink` takes for granted |
| `NativeCalls` | calls that share an authorization, and the fate of each write | |
| `DestructiveCalls` | the destructive gate and its two-round confirmation | |
| `TokenVerifier` | bearer-token verification, its caches and the issuer behind them | |
| `CapabilityCache` | capability discoveries, their cache and the verification permit | (`HttpPipeline` has a discovery as one step) |
| `TokenBuckets` | the rate-limit buckets and the retry budget, over a clock that may be set back | |
| `SaveToPath` | downloads to a local file, side by side, with other programs and crashes | |
| `UsageReports` | the bounded scan behind the two usage-report tools | |
| `*_proofs` | theorems about the module of that name, checked by TLAPS | extend it and `TLAPS` |
| `HttpPipeline_proofs`, `Tools_proofs` | hold the theorems about `TokenBuckets`, and those about `SaveToPath` and `UsageReports`, too | extend both |
| `MC*` | instances for TLC: symmetry and small definitions only | extend it |

The definitions of `TokenBuckets` and `UsageReports` carry a prefix (`RateNext`, `ReportSpec`)
because a module of proofs extends each of them together with another module.

### HttpPipeline and InFlightLimiter

`createInFlightLimiter` is a record `[active, byKey]` with one operator for each
method (`CanAcquire`/`Acquired`, `CanRekey`/`Rekeyed`, `Released`); a key that the
code deletes from its map is a count of zero. The pipeline keeps two of them:
`inFlight`, and `verification`, which the comment at `http-fetch-handler.ts:900`
says must never count against the first.

A request is `idle`, `reading` its body, `verifying` its credential,
`dispatching` in the SDK, `streaming` its answer, or `closing` its servers in
`finalize`. Each action is the code between two awaits, with every early return
in it: `Admit` and `RefuseAtCap` run from the entry of `fetch` to the body read,
`RejectAfterBody`, `DispatchProtocolOnly`, `EnterDiscovery` and
`ResolveCredential` are the ways on from there, `CapabilitiesKnown` and
`CapabilitiesFailed` continue after discovery (with the `finally` that frees the
permit), `BodyConsumed` and `Finalize` are `responseWithCleanup`. The rate
limiter, the credential provider and discovery answer nondeterministically.
`Drain`, `Close`, `ForcedClose`, `Shutdown`, `HttpServerClosed` and
`DrainTimeout` are the process's end.

### SecretSink and OneCredential

The state is the directory: `pending` and `committed` files by idempotency key,
the complete lines of the `ledger`, those of them that are `synced`, whether the
tail is `torn`, the append `lock`; and the provider's `live` credentials. The
local state of a call is its place in `executeDurableSecretOperation`. Actions
are single file operations, in the code's order: `Start`, `CheckPending`,
`Recheck`, `Repair`, `Scan`, `Claim`, `SyncClaim` (acquireSecretSinkClaim, which
reads the records three times, told apart by `role`), `CreateMints`,
`CreateFails`, `Project`, `OpenLedger`, `WriteLine`, `SyncLine`, `Rollback`,
`Recover`, `CommitRecord`, `SyncIndex`, `Release`. Every file operation may fail.
`Kill` ends a process anywhere; `PowerFailure` ends all of them and undoes what was
not fsynced; `Restart` starts one again; `Reconcile` is the operator whom the
`idempotency_key_pending` message tells to investigate.

`OneCredential` says in three actions what all of this is for: a key never has
two live credentials, and one whose secret is stored is never revoked.
`KeepsPromise` maps `stored` to the credentials that are both synced and live.

### AppendLock

`SecretSink` takes the append lock to exclude. The lock is a file created with
`O_EXCL` whose owner is judged by its process id; one whose owner is dead is
removed by whoever wants it, under a second lock file, which is removed in the
same way but under no third. `AppendLock` models both files at the level of
`open`, `write`, `stat`+`read`, `unlink`: `Create`, `WritePayload`, `WriteFails`,
`Look` and `Confirm` (the two readings of `reclaimStaleLockFile`), `Unlink` (which
takes whatever has the name by then), `Release`; and the append under it, reduced
to whose lines are there and what was the size when it began. `Crash` ends a process; `Leave`
is a lock file that could not be unlinked. Both count as faults. `SerialAppends` is what this
is for: `Open`, `Write`, and then `Succeed`, or a `GiveUp` that takes back at most what the
appender itself added. `AppendsInTurn` maps `appending` to the processes past `OpenLedger`.

### NativeCalls

One `B2AuthManager`, the account info of the SDK client it owns, and B2.
`cachedAuth` and `sdkAuth` are the two copies of the token, `inflight` and `issued`
the one authorization on its way. A call goes through `Start`, `GetAuth`, `Send`,
`Headers`, `Body` or `BodyLost`, and `Answer`, or `AttemptAgain` after a 401.
`Timeout`, `CircuitTimeout`, `AbortWaiting`, `AbortSent` and `AbortElsewhere` cut
it short. `Serve` is B2 handling a request, `ServeStray` B2 handling one that was
given up; either may carry out the write, and the first may answer a 408 or 5xx with it or
without it. A call ends with such a status (`trouble`), with the error of a lost connection
(`lost`), with `operation_status_unknown`, or with one of `Definite`, the ends on which
`createErrorHasKnownProviderRejection` relies. `Timeout` covers both what
`unknownStatusInterruption` recognises and the socket errors that it lets pass. The token is
fixed at the authorization of the attempt, and the manager's and the SDK's updates on the arrival of an authorization are one step.

### DestructiveCalls

A call is received with a target (tool and arguments), a credential, a `confirm`
flag, perhaps a prompt's state and an answer. `Bypass`, `NoHuman`, `Ask`,
`RefuseUnanswered` and `Resume` are the ways through
`maybeRequireDestructiveElicitation`; each that reaches the handler goes through
`Passes`, the `checkDestructive` every destructive handler starts with. Time
passes, the human answers a prompt, the server is restarted with another policy.
The client may send an answer late, again, with other arguments or under another
credential, but with the state it belongs to. Which targets are destructive is a
constant.

### TokenVerifier

One process's module-level caches, two ways of verifying (`mode`), and the
issuer. A token is the key it names and whether that key signed it; the issuer
publishes and retires keys in `Rotate`. To introspection a token is active while
its key is published, so that one property speaks of both modes.

A call enters by one of `Remembered` (the token cache), `VerifyFromCache`,
`RefuseUnknownKey`, `ForceRefresh`, `FetchKeySet` (the branches of
`verifySignature` and `jwks`) or `Introspect`. The two that need keys share one
request, `flight[Shared]`; each introspection has its own, `flight[c]`. A request
goes through `IssuerServes` (the issuer answers from the keys of that moment),
`AttemptFails` and `Retry`, and ends in `KeySetArrives`, `IntrospectionArrives`,
`SequenceFails` or `IntrospectionDenied`; then all its `Waiters` resume, in one
step, with the verdict, the caches and the cool-downs that `verifySignature` writes
after its await. Those use the time read before it, which each call
keeps in `began`. `Abort` is the caller's signal, which takes an introspection with it
and leaves a shared request alone. `Evict` stands for entries of other tokens
and kids in a full cache. `Tick` is the clock; it does not pass a timer that is
due, and forgets verdicts, so that a verdict in the state was given at this instant.
Failures beyond the circuit's threshold are not told apart. Signature
arithmetic runs without I/O and is part of the step around it.

### CapabilityCache

The Map is `cache` with `older`, its insertion order as a set of pairs, which the code uses
for eviction; `inflight` is `capabilityInflight`. An answer is the instant at which B2 gave it. A
request is a `Hit`, or it has to `Wait`: it joins the registered discovery or
begins one. Both take the clock twice, as the code does: when the HTTP handler decides
whether a permit is needed (`NeedsDiscovery`) and when `fetchCapabilities` begins
(`start`). `Answered` is B2; `Found` and `NotFound` are the end of a
discovery, its `finally` and the resumption of all who wait for it. `Refused`, `Sweep` and
`Invalidate` are the other places that change the Map.

### TokenBuckets

One bucket per rate-limit key, which is opened full and dropped when idle, and the
retry budget, which always exists. Buckets count in grains, of which `Rate` come in each
millisecond and `Cost` make a token. The code adds doubles: with rps x M grains a millisecond and
1000 x M a token the rate is exact, and what one refill loses or gains by rounding is less
than a grain, for M up to about 2^50 / (1000 x burst); `Refilled` chooses that grain. `Tick` and `ClockBack` are the clock; `seen` is its greatest
reading. `markAt` and `used` observe a window that may begin at any moment (`Mark`).

### SaveToPath

The state is the directory: the `target`, a `temp` entry for each download, and the
content and durability of the files. `Vet` to `UnlinkTemp` are `downloadToPath` and
what precedes it, one file operation or await each, with its `catch` (`CancelBody`)
and its `finally` (`LookAtTemp`, `UnlinkTemp`). `Replace` and `Remove` are other programs, `Kill` and
`PowerFailure` the end of the process and of the machine; after a power failure the target's
entry is any that it had since the last one, because nobody syncs the directory.
`late` marks downloads whose entries changed after their last look, the gap that the comment at
`objects.ts:383` names. The code knows a file by device, inode, mode and owner (`identity`). It
holds its temporary file open, so that inode stays its own, but not the vetted target: once
that is gone, a new file may be given its identity (`Freed`, `GiveIdentity`), and `CheckTarget`
takes it for the old one (`LooksLike`).

### UsageReports

A run is one call of a tool against one bucket, both chosen at `Init`. `ProbePage`
and `WindowEnds` are `latestSnapshotDate`, `NearPage` is `nearestSnapshotDate`,
`ListPage` the listings of `loadReportRows` and `loadDayRowsBounded`, and
`BeginDownloads` to `EndLoad` are `loadRowsFromReportKeys`. `stats` is the budget that all of them
share, `outOfTime` that its time has passed, which may happen before any step. Only pages, bytes
and time are counted there; `keys` begins anew with each listing, the selected files and the
`rows` with each load. A key is
a number in listing order; a file has a day, a kind, a size and rows.

## 3. What is checked

| run | instance | shows |
|---|---|---|
| `http_pipeline` | 3 connections, 2 slots, 1 per key, 2 credentials | the limiters count exactly the holders of slots and permits, caps refuse only when that many others hold slots, an unforced close of the handler waits for all requests; bodies that end free slots, a drain closes the handler and a signal ends the process |
| `http_unencodable_name` (violated) | the same, with tool names that are no header value | a slot is lost for good |
| `secret_sink` | 2 processes, 1 key, 2 inputs, 2 creations, 1 kill or power failure | one live credential for a key, none forgotten, answers name stored secrets, `KeepsPromise`, every call ends |
| `sink_retry_reference` (violated) | 2 processes, 1 request | a retry is refused although its record is stored |
| `append_lock` | 3 processes, 1 fault | appends follow each other, none takes a synced line back, a living owner keeps its lock |
| `native_calls` | 1 write, 1 read, 1 forced refresh, 2 tokens, 1 re-send | no write carried out twice, none that may have happened is told as a definite failure, aborts stay private, a refused token does not come back |
| `token_verifier` | 2 calls, 1 key, both modes, 1 retry, clock to 5 | how long a retired key is accepted and a new one refused, the circuit is respected, every waiter has a request and waits no longer than its attempts take |
| `destructive_calls` | 2 calls, 3 targets, 2 credentials, 1 prompt, 3 instants | destructive work runs only as its policy allows, the audit names who approved, an approval is honoured |
| `capability_cache` | 3 requests, 3 credentials, 2 entries, 1 permit, 1 invalidation each, clock to 2 | answers age out, discoveries are shared but for one more per invalidation, nobody waits for one that ended, the Map keeps to its size and its order ranks just what it holds, a discovery without a permit has its reason |
| `token_buckets` | a key of 2 tokens, a budget of 1, 3 and 4 grains a millisecond, roundings of 1, clock to 8, set back by 1 | every window is bounded, a refused key that waits is served |
| `save_to_path` | 2 downloads of one target, 1 foreign file, 1 removal, inodes used again | the target is whole, nothing is left behind, files of others are kept unless they came in the gap or with the vetted file's inode, downloads end |
| `usage_reports` | every bucket out of 7 files in 3 days, 4 days asked for, both tools | an answer without a stop reason is complete, pages and bytes are bounded over the call, candidates per listing, files and rows per load, nothing starts late |

Why the bounds are enough. Caps: with 3 requests over 2 slots and 1 slot per key
both caps bind, a request can be refused by either, and a `rekey` can meet a key
taken since. Sink: a conflict needs two processes and two inputs; a wrongly
released claim shows at the second creation; one failure at each possible step
is what the recovery code is written for, and the theorems hold for any number
of them. Lock: the double removal needs a holder and two reclaimers. Native calls: a
token is refused and replaced by a second one, while another call refreshes
both copies; the interesting races are between two calls, and the third
covers `forceRefresh`. Destructive calls: one prompt answered by two calls is
the replay, two destructive targets and two credentials are the substitutions,
and three instants with a maximal age of one are young, at the limit and expired.
Token verifier: two calls are one that begins a request and one that joins it, or two
introspections; one key suffices, because keys meet only in the set that is fetched
and in the order of resumed calls, which is free. Answer, key set and token live for 1, 2 and
1, so a retired key may be accepted until just before 4, and a new one refused
until 2, both below the `Horizon` of 5 at which calls stop coming; two failures
open the circuit for 2. The lifetime of a set is fixed at 2 in the run (`MinTtl =
MaxTtl`); the theorems have any range. Capability cache: three requests are a discovery, one that
was begun after an invalidation, and one that joins either; three keys over two entries evict,
and which of two entries is the older makes a difference; an entry lives for 1 of 2 instants, so
it ends before and after a reading. Token buckets: a
bucket is dropped, opened again and emptied within one window, and `IdleTtl` of 5 is
the least that the assumption `IdleIsLong` allows; a token of 6 grains comes in 2 milliseconds by
exact sums and in 3 when each refill loses one, and 8 instants hold both. Downloads: two of one target and one
other program are each other's disturbance, and the one removal followed by the foreign file is
the inode used again; the proportions of a file are empty, partial and
whole. Usage reports: 7 files hold every kind (audit mirror, usage, a note that is no report, another CSV)
and two usage files of one day; lookbacks of 1 and 3 days, pages of 2 keys, and bounds of 6
pages, 4 candidates, 2 files, 3 bytes and 2 rows let each stop reason and each answer occur.
Symmetry is used only where no liveness is checked. Deadlock is checked except
for the pipeline, whose process exits, the modules whose clock stops at its
bound (token verifier, capability cache, token buckets), and the downloads, which end.

Fairness. `HttpPipeline!FairSpec`: the two shutdown timers fire, a body is read or
cancelled (Node destroys idle sockets after `httpServer.timeout`), and closing
a request's servers ends; nothing is assumed of dispatches and discoveries, which
may hang. `SecretSink!FairSpec`: a call that can go on goes on; lock waits have a
deadline of 30 seconds, and the provider call and the recovery end by their own
timeouts. `SaveToPath!Spec`: the server's own steps go on, because a file operation
returns, a request for an object ends by its deadlines, and the idle timer fires;
nothing is assumed of the chunks of a body, of B2 or of other programs. The
other modules state safety and assume no fairness.

### Findings

* `http_unencodable_name`: `dispatchDiscoveryMode` is returned without `await` from
  the `try` of `fetch`, so an exception of `requestWithBodyAndHeaders` bypasses every
  cleanup. With `NamesEncodable = TRUE`, slot accounting holds, and is proved.
* `sink_retry_reference`: the pending claim is looked at before the ledger, so the
  retry that `v1-scope.md:407-409` describes is refused.

Differences that were noticed while modelling, without a run of their own:

* A second process scans the ledger after the append lock was given back
  (`secret-sink.ts:739-750`) and may answer the pointer of a line that is complete but not
  yet synced; when that sync fails the line is truncated and its credential revoked.
* `invalidate` leaves `inflightAuth`, which `forceRefresh` joins (`auth.ts:730-741`), so a forced
  refresh may return an authorization older than itself.
* The reclaim lock is itself removed without a guard (`secret-sink.ts:1072`): with two
  lock files left behind by dead processes, two appenders may be let in. The assumption
  `MaxFaults <= 1` of `AppendLock_proofs` excludes exactly that.
* Growth takes the first date-prefixed key at or after its target as the earlier snapshot
  (`insights.ts:733-753`), although `insights.ts:281-282` says that other objects under a
  date are not snapshots. The earlier day may then have no usage file, and all its
  accounts count as new.
* An invalidated discovery still writes its answer into the capability cache, and its `finally`
  unregisters the discovery that came after it (`server.ts:841-846`). `AnswersAgeOut` and
  `DiscoveriesAreShared` say how little that costs.
* `retry.ts:8-9` says "at most BUDGET_TOKENS retries are allowed per BUDGET_WINDOW_MS" and line 25
  "max retries in window". The bucket starts a window full and refills in it, so a window sees
  up to about twice `BUDGET_TOKENS`. `GrantsAreBounded` is the bound that holds.
* The buckets add doubles. At 100 requests a second, ten refused requests a millisecond apart leave
  0.9999999999999999 of a token, and the request at 10 ms is refused. `PatienceIsRewarded`
  therefore grants the rounding of each refill, at most a millisecond more in the code.
* A write that ends in a socket error other than those of `named-error.ts:111-113` (EPIPE, ETIMEDOUT,
  EHOSTUNREACH, errors of the HTTP parser) is rethrown as it is (`auth.ts:192`), not as
  `operation_status_unknown`, although B2 may have carried it out. It carries no status, so the
  sink does not take it for a rejection; a caller of another write tool cannot tell.
* `assertCommitStillMatchesVetting` (`objects.ts:399-409`) recognises the target by device, inode,
  mode and owner and holds no handle on it: a file that another program put there with the
  inode of the removed one is overwritten. `OthersAreKept` names it as its second exception.
  New content written in place into the vetted file is not noticed either; the check is of the
  file and not of its content, which the model has for downloads only.
* The limits of a report are not all of the call: pages, bytes and time are, while each listing
  may keep `maxCandidateKeys` and each load may read `maxSelectedKeys` files and `maxRows` rows
  (`insights.ts:562`, `608-645`, `856`), so growth may hold twice `maxRows`.
* The comment at `circuit-breaker.ts:240-244` has long S3 transfers share the state of the S3
  breaker; they have a slot of their own.

## 4. What is proved

All theorems hold for every value of the constants under the named assumptions
of the modules; sets of processes, keys, calls and targets are arbitrary, and
`HttpPipeline` needs its requests to be finite.

* `HttpPipeline_proofs` (assuming `NamesEncodable`). `TypeCorrect` carries that a
  request has a slot key exactly when it is not idle. `SlotsAreAccounted` and
  `PermitsAreAccounted` are inductive with it: each action changes one request's
  key and the count in the same way, through lemmas on the cardinality of a set
  with one element more or less. From those follow `DrainWaitsForRequests` and
  `ServersWithinCap` (which the run does not repeat). `RefusalsJustified` is about steps: with
  the accounts right, a request is refused for a cap only while that many others hold slots.
* `SecretSink_proofs`. The invariant is layered. Ownership: whoever is past the claim
  owns it, and no two do. Numbering: credentials are numbered by creation, so a
  fresh one is new. Ledger: the holder of the append lock knows exactly which lines
  its rollback would leave, and those include all synced ones. Live: a live
  credential is the one its claim's holder is working on, or its claim was
  abandoned, or its record is committed and its line synced. From these `OneLive`,
  `Accounted`, `RecordsStay`, `AnswersStored`, and `Refines`: initial states map
  to initial states and every step is a `Mint`, `Store`, `Revoke` or a stutter. `Reconcile`'s
  guard is an assumption on the operator: nobody is using the claim, and nothing
  durable is revoked.
* `AppendLock_proofs` (`TypeCorrect` for any number of faults; the others assuming
  `MaxFaults <= 1`; with two faults TLC finds a violation, see the findings).
  `LockInv`: a process past the creation of the append lock owns the file;
  while nobody is dead, or a dead owner's append lock is there, whoever is past the creation of the
  reclaim lock owns that one too; not both files have a dead owner; a process about to
  unlink an append lock has a dead owner's before it. `LedgerInv`: what is
  synced is in the ledger and below the size that an appender noted. `TakesTurns` is the
  refinement: while only one process is past the lock, each of its steps is one of
  `SerialAppends`, a crash is a `GiveUp`, and every step on the lock files a stutter.
  `Exclusive` and `LinesStay` are the two consequences that `SecretSink` uses.
* `NativeCalls_proofs`. `Inductive` is the conjunction of: tokens in use are at most
  `minted`; a token still on its way is in no cache and no call; a refused token is in
  neither cache, not on its way and not the call's; a call has an answered or flying request
  exactly while it waits for one; and for each write, whether it is untouched, written once, or
  may still be carried out by its one stray request; only an answered success says that it was
  written, and only one of `Definite` that it is untouched. The last is what makes
  `WritesOnce` and `TrueAnswers` follow.
* `DestructiveCalls_proofs`. `Inductive` ties a call under way to the policy it
  was received under, and each recorded decision to the approval or flag behind it;
  `PromptsGrow` shows that what a prompt was minted for never changes.
* `TokenVerifier_proofs`. `IInv` adds six parts to the properties. `FlightTimes`: a request
  is where its timers and its number of attempts allow. `ClockInv`: no cache entry
  reaches further ahead than its lifetime. `SnapshotInv`: a key that did not change since
  a set was served is in the set exactly if it is published. `FreshInv`: a cool-down
  in force is no older than the set it belongs to, up to a timeout. `TokenInv`: what a
  retired key has left in the token cache. `WaitInv`: a call's request began no later than
  the call. `SnapshotInv` with the first two gives `RetiredKeysAgeOut`, with `FreshInv`
  it gives `NewKeysAreSeen`, and `WaitInv` with `FlightTimes` gives `WaitersAreServed` and
  `WaitsEndInTime`.
* `CapabilityCache_proofs`. `AgesOut` needs that a discovery begins no later than it is
  answered (`StartsFirst`), since the entry's life is counted from the beginning.
  `SharedRuns` follows one registration through its discovery. `SharesDiscoveries` counts:
  discoveries of a key that are not the registered one are at most the invalidations of
  that key, because only an invalidation, or the end of another discovery, unregisters a
  running one. `LimitsVerification` is an action property: only `Wait` begins a discovery, and
  it spares the permit where the entry was fresh at the first reading. `StaysBounded`: among
  any of the entries one is the oldest. That is kept by deletion, and by a key that moves to
  the end; it makes the first key of the Map one of its entries, so the eviction of one suffices.
* `HttpPipeline_proofs`, second part, on `TokenBuckets`. The invariant bounds the tokens of a
  bucket and what was spent since the window began by what it held and what came in up to its
  last refill, with a grain for and against each millisecond (`Income`, `Assured`), since a refill
  takes at least one; for a key without a bucket, by the time that it took to become idle.
  `IdleIsLong` enters there.
* `Tools_proofs` on `SaveToPath`. `SaveInv`: a file is on the disk before its name is given to
  the target, and so is whatever a power failure may bring back (`Durable`, which gives
  `TargetIsWhole`); a temporary name holds a download's own file or another program's, and what a
  download saw at its last look still looks so unless it is `late` (which gives `OthersAreKept`).
  That needs `Unmade`: a file that was not made yet is nowhere and nobody was vetted with it, so
  the identity that it is given changes no earlier look; a
  file that was never named, and a body past its end, are not left behind (`NothingIsLeft`).
* `Tools_proofs` on `UsageReports`, in two layers. `BudgetInv`: the counters are within their
  bounds, and at most one download runs, with the whole rest of the bytes as its grant; that
  downloads are serial is what makes the budget of bytes strict, and that a load begins with at
  most `MaxSelected` files bounds what it reads (`FewFiles`). `CompleteInv` says
  that, while no bound was met, a listing holds each candidate up to its token, a load has each
  row of the files it wants but for those pending, no usage file is younger than the latest
  day, and the second load of growth starts after a complete first one. With the lemma
  that a page leaves no candidate out (`PageIs`) it gives `CompleteOrFlagged`, for any bucket.

The lemmas on least and greatest elements of sets of numbers (`LeastOf`, `GreatestOf`, `FirstFew`)
are proved from well-foundedness, without induction over data.

Every safety property of the runs is a theorem. The type invariants are proved (`TypeCorrect`,
`RateTypeCorrect`, `SaveTypeCorrect`, `ReportTypeCorrect`) and not checked by the runs.

Model-checked only: liveness (`CallsEnd`, `BodyEndFreesSlot`, `DrainClosesHandler`,
`ShutdownExits`, `DownloadsEnd`), because temporal reasoning under fairness and `ENABLED` is
outside the prover.

## 5. What the results rest on

* `SecretSink` takes the append lock to exclude. `AppendLock` proves it while at most one lock
  file is left behind. If a failure of the host kills a process that holds the
  append lock while another holds the reclaim lock, it no longer does, and
  then neither do the guarantees of `SecretSink`.
* A failed `unlink` or a failed fsync of the directory leaves a lock file owned by
  a process that is alive; later appends fail by their deadline until it ends.
* A dead owner whose process id is in use again is alive to `processIsAlive`: the
  lock is `stuck`. In `SecretSink` this costs availability, not safety.
* No live process stops for five minutes (`STALE_APPEND_LOCK_MS`) between creating
  a lock file and writing its owner.
* B2 carries out a request at most once for each time it is sent, and answers a status below 500
  other than 408 only without having carried it out. Of 408 and 5xx nothing is assumed.
* Timers of `TokenVerifier` fire when they are due, and a clock tick is fine enough
  for its timeouts; in the code `nowSeconds` counts seconds and the timeouts are
  milliseconds, so its bounds hold up to a second. Lifetimes, cool-downs and thresholds are
  positive, as `intEnv` makes them; `MinTtl <= MaxTtl` because `jwksTtlSeconds` takes the
  smaller as its floor.
* The cool-down of forced refreshes is noted only by a caller that is still there when
  its refresh succeeds. The guides for Vercel (`deploy/vercel/README.md:126`) and
  Cloudflare (`cloudflare-workers.md:129`) call forced refreshes rate-limited without that
  condition; the model follows the code, and no property claims their spacing. Failing
  refreshes are bounded by the circuit.
* The doubles of a bucket: `Rounding` covers one refill if M of section 2 can be at least 1, that
  is for bursts below about 10^12; rps and burst are whole numbers of grains.
* `IdleIsLong`: if the clock may be set back, a bucket is full, with that much to spare, before it
  is idle. The defaults are 10 minutes against 2 seconds of refill; an operator who configures a
  burst that takes longer than that, less the step of the clock, leaves the assumption.
* `SaveToPath`: targets are regular files; the sandbox and the pinning of the directory are
  reduced to the possibility of a refusal; mode and owner are part of a file's identity, and a
  file keeps its identity from others while it has a name or a download holds it open. B2
  states the length of each object: the code does not check a body whose length is unknown. The
  `lstat` and `unlink` of the cleanup succeed; where the first `stat` of the handle
  fails, the temporary file stays, and `NothingIsLeft` says so.
* `UsageReports`: the bucket does not change during a call, a page of a listing that is not over
  holds at least one key, and any request may fail, which ends the call with an error. Day
  and time of day agree with the keys' order, as the keys begin with their date (`FilesInOrder`);
  keys, days, sizes and rows are natural numbers and a bucket is finite (`ReportsAreFiles`,
  `DaysAreNumbers`), and 0 stands for no key and no day.
* A state of a destructive prompt is not consumed by its use: the approved call
  can be repeated until the state expires. The documents promise friction, not
  single use, and no property here claims more.

## 6. Not modelled

* Node's HTTP parsing, `node-web-bridge.ts`, host and origin checks: they keep no
  state, and refuse before a slot is taken.
* The audit index of the sink and its lock: nothing reads it back, its failure is
  logged. Inline mode stores nothing.
* Text: redaction, TOON encoding, error wording, tool schemas.
* Claim checks of tokens (audience, scopes, expiry), the check of preverified
  authorization info, metadata and challenges of the OAuth server: pure functions.
* The SDK and opossum are external: `NativeCalls` models what `auth.ts` and
  `client.ts` see of them.
* The cache of auth managers (`server.ts:632`): only the request that holds a manager uses it.
* The breaker's own states, whose code is opossum's.
* Multipart uploads, copies, deletion of versions and presigned URLs; the live listings of
  `b2_list_largest_files` and `b2_unfinished_uploads`.
* Registration of tools and prompts, which runs once and synchronously; credential
  resolution, which keeps no state; the serverless adapters, whose state is the lazily created
  handler and one more `InFlightLimiter` held in a single `try`/`finally`.
* `invalidateCapabilityCache` is exported and called by tests only; it is modelled all the same.

## 7. Plan

What remains, in this order.

| module | code | hazards | to prove |
|---|---|---|---|
| `Transfers` | `s3/multipart.ts`, `aws-sdk-adapter.ts` | a part of several fails, a completion of unknown outcome, an abort that races it | an upload is completed or aborted, not both |
| `LiveListings` | `b2/insights.ts`: largest files, unfinished uploads | deadline and page bounds, lower-bound answers | a complete answer saw everything |
| `CallGuards` | `circuit-breaker.ts`, `SharedRetryBudgetTransport` | late answers, half-open probes, attempts counted by body | no retry without a token |

Compositions worth having after that: `CapabilityCache` under `HttpPipeline`'s
`verifying` step, and `SecretSink` over `SerialAppends` in place of its lock.
