---- MODULE SecretSink ----
(***************************************************************************)
(* The durable-secret operation of utils/secret-sink.ts in file mode:      *)
(* executeDurableSecretOperation with its idempotency claim, the provider  *)
(* call, the ledger append with its rollback, the committed record and     *)
(* recovery, run by several server processes over one ledger directory.    *)
(*                                                                         *)
(* One action is one file operation, or the pieces under one lock that no  *)
(* other process can tell apart.  A process may be killed between any two  *)
(* of them, and a power failure undoes what was not yet fsynced.           *)
(*                                                                         *)
(* The ledger is the set of its complete lines.  The append lock is taken  *)
(* to exclude, which AppendLock shows while one lock file at most is left  *)
(* behind.  The index lock and the audit index, which nothing reads, are a *)
(* possible failure of the committed record.                               *)
(***************************************************************************)
EXTENDS Naturals

CONSTANTS
    Procs,        \* server processes, each running one call at a time
    Keys,         \* claimFingerprint: tool, caller and idempotency key
    Inputs,       \* fingerprint: the normalized input of the request
    Requests,     \* the requests that callers make
    MaxMints,     \* bound: credentials created for each key
    MaxFailures,  \* bound: kills and power failures
    None          \* nothing: no claim, no record, no credential

ASSUME RequestsHaveKeyAndInput == Requests \subseteq [key : Keys, input : Inputs]

ASSUME BoundsAreNaturals == MaxMints \in [Keys -> Nat] /\ MaxFailures \in Nat

\* A credential as its creator knows it; its ledger record carries the same.
Credential == UNION {[key : {k}, input : Inputs, id : 1..MaxMints[k]] : k \in Keys}

ASSUME NoneIsNothing == None \notin Credential \cup Requests \cup [owner : Procs, input : Inputs]

ASSUME LockStatesAreNoProcesses == Procs \cap {"free", "stale", "stuck"} = {}

VARIABLES
    pending,    \* the .pending claim file of each key
    committed,  \* the .committed.json record of each key
    ledger,     \* complete lines of the ledger file
    synced,     \* those that survive a power failure
    torn,       \* the ledger ends in an incomplete line
    lock,       \* the append lock: free, a holder, or left by a dead process
    live,       \* credentials that exist at the provider
    minted,     \* how many were created for each key
    pc, call, role, cred, base, answer, failures

disk == <<pending, committed, ledger, synced, torn, lock>>
provider == <<live, minted>>
vars == <<pending, committed, ledger, synced, torn, lock, live, minted,
          pc, call, role, cred, base, answer, failures>>

\* readMatchingSecretSinkRecord is called before the claim, after losing the
\* race for it, and after winning it.
Roles == {"before", "raced", "holding"}

\* Steps with a credential just created, and steps that only a process holding the claim takes.
MintedSteps == {"made", "lock", "write", "sync", "rollback", "recover",
                "index", "syncIndex", "release"}
ClaimedSteps == {"syncClaim", "create"} \cup MintedSteps
MatchSteps == {"recheck", "repair", "scan"}
Steps == {"idle", "pending", "claim", "dead"} \cup MatchSteps \cup ClaimedSteps

Answers == [how : {"none", "error"}, cred : {None}]
             \cup [how : {"fresh", "replayed", "scanned"}, cred : Credential]
NoAnswer == [how |-> "none", cred |-> None]
Failed == [how |-> "error", cred |-> None]

TypeOK ==
    /\ pending \in [Keys -> [owner : Procs, input : Inputs] \cup {None}]
    /\ committed \in [Keys -> Credential \cup {None}]
    /\ ledger \subseteq Credential
    /\ synced \subseteq ledger
    /\ torn \in BOOLEAN
    /\ lock \in Procs \cup {"free", "stale", "stuck"}
    /\ live \subseteq Credential
    /\ minted \in [Keys -> Nat]
    /\ pc \in [Procs -> Steps]
    /\ call \in [Procs -> Requests \cup {None}]
    /\ role \in [Procs -> Roles]
    /\ cred \in [Procs -> Credential \cup {None}]
    /\ base \in [Procs -> SUBSET Credential]
    /\ answer \in [Procs -> Answers]
    /\ failures \in Nat

Init ==
    /\ pending = [k \in Keys |-> None]
    /\ committed = [k \in Keys |-> None]
    /\ ledger = {} /\ synced = {} /\ torn = FALSE
    /\ lock = "free"
    /\ live = {}
    /\ minted = [k \in Keys |-> 0]
    /\ pc = [p \in Procs |-> "idle"]
    /\ call = [p \in Procs |-> None]
    /\ role = [p \in Procs |-> "before"]
    /\ cred = [p \in Procs |-> None]
    /\ base = [p \in Procs |-> {}]
    /\ answer = [p \in Procs |-> NoAnswer]
    /\ failures = 0

-----------------------------------------------------------------------------
(* Shared pieces. *)

Goto(p, step) == pc' = [pc EXCEPT ![p] = step]

\* The call is answered; what the process knew of it is forgotten.
Done(p, a) ==
    /\ Goto(p, "idle")
    /\ answer' = [answer EXCEPT ![p] = a]
    /\ role' = [role EXCEPT ![p] = "before"]
    /\ cred' = [cred EXCEPT ![p] = None]
    /\ base' = [base EXCEPT ![p] = {}]
    /\ UNCHANGED call

Stay == UNCHANGED <<call, role, cred, base, answer>>

\* Unlinking the claim file, which may fail and is then only logged.
ReleaseClaim(k) == pending' \in {pending, [pending EXCEPT ![k] = None]}

\* A record answers only the input it was created for; otherwise 409.
Replay(how, record, request) ==
    IF record.input = request.input THEN [how |-> how, cred |-> record] ELSE Failed

\* The claim is given up on every way out of acquireSecretSinkClaim.
Leave(p, a) ==
    /\ IF role[p] = "holding" THEN ReleaseClaim(call[p].key) ELSE UNCHANGED pending
    /\ Done(p, a)

\* No owner, or one that is no longer alive.  A lock whose owner's process id is
\* in use again is "stuck".
LockAvailable == lock \in {"free", "stale"}

-----------------------------------------------------------------------------
(* acquireSecretSinkClaim. *)

Start(p, request) ==
    /\ pc[p] = "idle"
    /\ call' = [call EXCEPT ![p] = request]
    /\ LET record == committed[request.key]
       IN  IF record = None
           THEN Goto(p, "pending") /\ answer' = [answer EXCEPT ![p] = NoAnswer]
           ELSE /\ answer' = [answer EXCEPT ![p] = Replay("replayed", record, request)]
                /\ UNCHANGED pc
    /\ UNCHANGED <<role, cred, base, failures, disk, provider>>

\* A claim file that exists, readable or not: conflict or pending, 409.
CheckPending(p) ==
    /\ pc[p] = "pending"
    /\ IF pending[call[p].key] = None
       THEN Goto(p, "recheck") /\ Stay
       ELSE Done(p, Failed)
    /\ UNCHANGED <<failures, disk, provider>>

Recheck(p) ==
    /\ pc[p] = "recheck"
    /\ LET record == committed[call[p].key]
       IN  \/ IF record = None
              THEN Goto(p, "repair") /\ Stay /\ UNCHANGED pending
              ELSE Leave(p, Replay("replayed", record, call[p]))
           \/ Leave(p, Failed)   \* the record cannot be read
    /\ UNCHANGED <<committed, ledger, synced, torn, lock, failures, provider>>

\* recoverIncompleteLedgerTail, under the append lock.  (A tail that lacks only its
\* newline is terminated instead: the line of a process killed just after writing it.)
Repair(p) ==
    /\ pc[p] = "repair"
    /\ LockAvailable
    /\ torn' = FALSE
    /\ lock' = "free"
    /\ Goto(p, "scan")
    /\ Stay
    /\ UNCHANGED <<pending, committed, ledger, synced, failures, provider>>

\* Mutant: a wait for the append lock without a deadline.
LockTimeoutNever(p) == pc[p] = "repair" /\ FALSE /\ UNCHANGED vars

\* The append lock is not had within its deadline, or the file fails under it.
LockTimeout(p) ==
    /\ \/ pc[p] = "repair" /\ Leave(p, Failed)
       \/ pc[p] = "lock" /\ Goto(p, "recover") /\ Stay /\ UNCHANGED pending
    /\ UNCHANGED <<committed, ledger, synced, torn, lock, failures, provider>>

NoMatch(p) ==
    CASE role[p] = "before"  -> Goto(p, "claim") /\ Stay
      [] role[p] = "raced"   -> Done(p, Failed)
      [] role[p] = "holding" -> Goto(p, "create") /\ Stay

\* The ledger is read without its lock.  A torn line does not parse, and the read may
\* fail; a record that was rotated away or lies before the bounded tail is missed.
Scan(p) ==
    /\ pc[p] = "scan"
    /\ \/ Leave(p, Failed)
       \/ /\ ~torn
          /\ \E record \in ledger :
                 /\ record.key = call[p].key
                 /\ Leave(p, Replay("scanned", record, call[p]))
       \/ ~torn /\ NoMatch(p) /\ UNCHANGED pending
    /\ UNCHANGED <<committed, ledger, synced, torn, lock, failures, provider>>

\* Exclusive creation of the claim file.  One that cannot be written is unlinked
\* again, if that succeeds.
Claim(p) ==
    /\ pc[p] = "claim"
    /\ LET k == call[p].key
           claimed == [pending EXCEPT ![k] = [owner |-> p, input |-> call[p].input]]
       IN  IF pending[k] = None
           THEN \/ pending' = claimed /\ Goto(p, "syncClaim") /\ Stay
                \/ pending' \in {pending, claimed} /\ Done(p, Failed)
           ELSE /\ role' = [role EXCEPT ![p] = "raced"]
                /\ Goto(p, "recheck")
                /\ UNCHANGED <<pending, call, cred, base, answer>>
    /\ UNCHANGED <<committed, ledger, synced, torn, lock, failures, provider>>

\* Mutant: a claim that is trusted without looking at the records again.
SyncClaimAndTrust(p) ==
    /\ pc[p] = "syncClaim"
    /\ Goto(p, "create")
    /\ Stay
    /\ UNCHANGED <<failures, disk, provider>>

SyncClaim(p) ==
    /\ pc[p] = "syncClaim"
    /\ \/ /\ role' = [role EXCEPT ![p] = "holding"]
          /\ Goto(p, "recheck")
          /\ UNCHANGED <<pending, call, cred, base, answer>>
       \/ ReleaseClaim(call[p].key) /\ Done(p, Failed)
    /\ UNCHANGED <<committed, ledger, synced, torn, lock, failures, provider>>

-----------------------------------------------------------------------------
(* The provider call. *)

Fresh(p) == [key |-> call[p].key, input |-> call[p].input, id |-> minted[call[p].key] + 1]

\* Mutant: an unknown outcome taken for a rejection.
CreateMintsForgotten(p) ==
    /\ pc[p] = "create"
    /\ minted[call[p].key] < MaxMints[call[p].key]
    /\ minted' = [minted EXCEPT ![call[p].key] = @ + 1]
    /\ live' = live \cup {Fresh(p)}
    /\ ReleaseClaim(call[p].key)
    /\ Done(p, Failed)
    /\ UNCHANGED <<committed, ledger, synced, torn, lock, failures>>

\* The credential exists; its creator learns of it, learns of it in a response it
\* cannot use, or never learns of it.
CreateMints(p) ==
    /\ pc[p] = "create"
    /\ minted[call[p].key] < MaxMints[call[p].key]
    /\ minted' = [minted EXCEPT ![call[p].key] = @ + 1]
    /\ live' = live \cup {Fresh(p)}
    /\ \/ /\ \E step \in {"made", "recover"} : Goto(p, step)
          /\ cred' = [cred EXCEPT ![p] = Fresh(p)]
          /\ UNCHANGED <<call, role, base, answer>>
       \/ Done(p, Failed)
    /\ UNCHANGED <<failures, disk>>

\* A 4xx other than 408 says that nothing was created; any other error keeps
\* the claim.
CreateFails(p) ==
    /\ pc[p] = "create"
    /\ ReleaseClaim(call[p].key)
    /\ Done(p, Failed)
    /\ UNCHANGED <<committed, ledger, synced, torn, lock, failures, provider>>

\* The projection is tried before anything is stored.
Project(p) ==
    /\ pc[p] = "made"
    /\ \E step \in {"lock", "recover"} : Goto(p, step)
    /\ Stay
    /\ UNCHANGED <<failures, disk, provider>>

-----------------------------------------------------------------------------
(* appendSecretSinkRecord. *)

\* The lock is taken, the tail repaired, the file opened and its size noted.
OpenLedger(p) ==
    /\ pc[p] = "lock"
    /\ LockAvailable
    /\ lock' = p
    /\ torn' = FALSE
    /\ base' = [base EXCEPT ![p] = ledger]
    /\ Goto(p, "write")
    /\ UNCHANGED <<pending, committed, ledger, synced, call, role, cred, answer, failures, provider>>

WriteLine(p) ==
    /\ pc[p] = "write"
    /\ \/ /\ ledger' = ledger \cup {cred[p]}
          /\ Goto(p, "sync")
          /\ UNCHANGED <<torn, lock>>
       \/ /\ torn' \in BOOLEAN
          /\ Goto(p, "rollback")
          /\ UNCHANGED <<ledger, lock>>
       \/ \* the directory could not be fsynced: nothing was written
          /\ lock' = "free"
          /\ Goto(p, "recover")
          /\ UNCHANGED <<ledger, torn>>
    /\ Stay
    /\ UNCHANGED <<pending, committed, synced, failures, provider>>

\* Mutant: the pointer is used before the line is fsynced.
SyncLineLater(p) ==
    /\ pc[p] = "sync"
    /\ lock' = "free" /\ Goto(p, "index")
    /\ Stay
    /\ UNCHANGED <<pending, committed, ledger, synced, torn, failures, provider>>

SyncLine(p) ==
    /\ pc[p] = "sync"
    /\ \/ synced' = ledger /\ lock' = "free" /\ Goto(p, "index")
       \/ Goto(p, "rollback") /\ UNCHANGED <<synced, lock>>
    /\ Stay
    /\ UNCHANGED <<pending, committed, ledger, torn, failures, provider>>

\* ftruncate to the noted size.
Truncate(p) ==
    /\ ledger' = base[p]
    /\ synced' = synced \cap base[p]
    /\ torn' = FALSE

\* A rollback that cannot be confirmed keeps the claim for the operator.
Rollback(p) ==
    /\ pc[p] = "rollback"
    /\ lock' = "free"
    /\ \/ Truncate(p) /\ Goto(p, "recover") /\ Stay
       \/ (Truncate(p) \/ UNCHANGED <<ledger, synced, torn>>) /\ Done(p, Failed)
    /\ UNCHANGED <<pending, committed, failures, provider>>

\* Mutant: any recovery releases the claim.
RecoverAndRelease(p) ==
    /\ pc[p] = "recover"
    /\ live' \in {live, live \ {cred[p]}}
    /\ ReleaseClaim(call[p].key)
    /\ Done(p, Failed)
    /\ UNCHANGED <<committed, ledger, synced, torn, lock, minted, failures>>

\* failDurableSecretAfterCreate: only a confirmed deletion releases the claim.
Recover(p) ==
    /\ pc[p] = "recover"
    /\ \/ live' = live \ {cred[p]} /\ ReleaseClaim(call[p].key)
       \/ live' \in {live, live \ {cred[p]}} /\ UNCHANGED pending
    /\ Done(p, Failed)
    /\ UNCHANGED <<committed, ledger, synced, torn, lock, minted, failures>>

-----------------------------------------------------------------------------
(* appendSecretSinkIdempotencyIndex and the answer. *)

CommitRecord(p) ==
    /\ pc[p] = "index"
    /\ \/ /\ committed' = [committed EXCEPT ![call[p].key] = cred[p]]
          /\ Goto(p, "syncIndex")
          /\ Stay
       \/ Done(p, Failed) /\ UNCHANGED committed
    /\ UNCHANGED <<pending, ledger, synced, torn, lock, failures, provider>>

SyncIndex(p) ==
    /\ pc[p] = "syncIndex"
    /\ \/ Goto(p, "release") /\ Stay
       \/ Done(p, Failed)
    /\ UNCHANGED <<failures, disk, provider>>

Release(p) ==
    /\ pc[p] = "release"
    /\ ReleaseClaim(call[p].key)
    /\ Done(p, [how |-> "fresh", cred |-> cred[p]])
    /\ UNCHANGED <<committed, ledger, synced, torn, lock, failures, provider>>

-----------------------------------------------------------------------------
(* Kills, power failures, restarts, and the operator. *)

Forgotten(ps) ==
    /\ pc' = [p \in Procs |-> IF p \in ps THEN "dead" ELSE pc[p]]
    /\ role' = [p \in Procs |-> IF p \in ps THEN "before" ELSE role[p]]
    /\ cred' = [p \in Procs |-> IF p \in ps THEN None ELSE cred[p]]
    /\ base' = [p \in Procs |-> IF p \in ps THEN {} ELSE base[p]]
    /\ answer' = [p \in Procs |-> IF p \in ps THEN NoAnswer ELSE answer[p]]
    /\ UNCHANGED call

\* A process dies in the middle of a step: a lock it holds or is taking stays
\* behind, and so does a line it is writing.
Kill(p) ==
    /\ failures < MaxFailures
    /\ failures' = failures + 1
    /\ pc[p] \notin {"idle", "dead"}
    /\ Forgotten({p})
    /\ IF lock = p \/ (LockAvailable /\ pc[p] \in {"repair", "lock"})
       THEN lock' \in {"stale", "stuck"} ELSE UNCHANGED lock
    /\ torn' \in IF pc[p] = "write" THEN BOOLEAN ELSE {torn}
    /\ UNCHANGED <<pending, committed, ledger, synced, provider>>

\* Directory entries and lines that were not fsynced may be lost.
PowerFailure ==
    /\ failures < MaxFailures
    /\ failures' = failures + 1
    /\ \E p \in Procs : pc[p] \notin {"idle", "dead"}
    /\ Forgotten(Procs)
    /\ \E lost \in SUBSET {p \in Procs : pc[p] \in {"syncClaim", "syncIndex"}} :
          LET keys(step) == {call[p].key : p \in {q \in lost : pc[q] = step}}
          IN  /\ pending' = [k \in Keys |-> IF k \in keys("syncClaim") THEN None ELSE pending[k]]
              /\ committed' = [k \in Keys |-> IF k \in keys("syncIndex") THEN None ELSE committed[k]]
    /\ \E lines \in SUBSET (ledger \ synced) : ledger' = synced \cup lines
    /\ torn' \in IF ledger = synced THEN {torn} ELSE BOOLEAN
    /\ lock' \in IF lock = "free" THEN {"free"} ELSE {"stale", "stuck"}
    /\ UNCHANGED <<synced, provider>>

Restart(p) ==
    /\ pc[p] = "dead"
    /\ Goto(p, "idle")
    /\ Stay
    /\ UNCHANGED <<failures, disk, provider>>

Holding(p, k) ==
    /\ pc[p] \in ClaimedSteps \/ (pc[p] \in MatchSteps /\ role[p] = "holding")
    /\ call[p].key = k

\* "Reconcile or remove the pending claim after investigation": an operator
\* revokes what an abandoned claim left unstored, then removes the claim.
Reconcile(k) ==
    LET left == {c \in live : c.key = k}
    IN  /\ pending[k] # None
        /\ \A p \in Procs : ~Holding(p, k)
        /\ left \cap synced = {}
        /\ live' = live \ left
        /\ pending' = [pending EXCEPT ![k] = None]
        /\ UNCHANGED <<committed, ledger, synced, torn, lock, minted, pc, call, role,
                       cred, base, answer, failures>>

-----------------------------------------------------------------------------
ClaimStep(p) ==
    \/ CheckPending(p) \/ Recheck(p) \/ Repair(p) \/ LockTimeout(p) \/ Scan(p)
    \/ Claim(p) \/ SyncClaim(p)

StoreStep(p) ==
    \/ CreateMints(p) \/ CreateFails(p) \/ Project(p)
    \/ OpenLedger(p) \/ WriteLine(p) \/ SyncLine(p) \/ Rollback(p) \/ Recover(p)
    \/ CommitRecord(p) \/ SyncIndex(p) \/ Release(p)

CallStep(p) == ClaimStep(p) \/ StoreStep(p)

Next ==
    \/ \E p \in Procs :
          \/ \E request \in Requests : Start(p, request)
          \/ CallStep(p) \/ Kill(p) \/ Restart(p)
    \/ \E k \in Keys : Reconcile(k)
    \/ PowerFailure

Spec == Init /\ [][Next]_vars

\* A synchronous segment runs on, lock waits have a deadline, and the provider
\* call and the recovery end by their own timeouts.
FairSpec == Spec /\ \A p \in Procs : WF_vars(CallStep(p))

-----------------------------------------------------------------------------
(* Properties. *)

\* One idempotency key never stands for two live credentials: not after a lost
\* race for the claim, an unknown outcome, a kill, or a power failure.
AtMostOneLive == \A c, d \in live : c.key = d.key => c = d

\* A live credential is never forgotten: its claim is pending, or its secret is
\* durably in the ledger and its record committed.
LiveIsAccounted ==
    \A c \in live : \/ pending[c.key] # None
                     \/ (c \in synced /\ committed[c.key] = c)

\* An answer given from a fresh creation or from a committed record names a live
\* credential created for this very request, with its secret durably stored.
AnswersAreStored ==
    \A p \in Procs : answer[p].how \in {"fresh", "replayed"} =>
        LET c == answer[p].cred
        IN  /\ c \in live \cap synced
            /\ c.key = call[p].key /\ c.input = call[p].input

\* No rollback, repair or power failure takes a durable record out of the ledger.
DurableRecordsStay == [][synced \subseteq synced' /\ synced' \subseteq ledger']_vars

\* Every call is answered unless its process dies: no wait for a lock is endless.
CallsEnd == \A p \in Procs : pc[p] # "idle" ~> pc[p] \in {"idle", "dead"}

\* The sink keeps the promise of OneCredential.
CredentialKey(c) == c.key
Promise == INSTANCE OneCredential WITH
    Credentials <- Credential, KeyOf <- CredentialKey, live <- live, stored <- synced \cap live
KeepsPromise == Promise!Spec

\* "If the sink write succeeds but the MCP response fails, a retry with the same
\* idempotency key must return the same non-secret sink reference": a request whose
\* record is durable, with no other request of its key under way, is not refused
\* for its claim.
RetryReturnsReference ==
    [][\A p \in Procs :
        LET stored == {c \in synced : c.key = call[p].key /\ c.input = call[p].input}
        IN  (pc[p] = "pending" /\ stored # {} /\ \A q \in Procs : ~Holding(q, call[p].key))
                => answer'[p] # Failed]_vars
====
