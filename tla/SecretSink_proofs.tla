---- MODULE SecretSink_proofs ----
(***************************************************************************)
(* What holds of SecretSink for any number of processes, keys, inputs and  *)
(* failures.  The inductive invariant has five layers, each proved from    *)
(* the ones before: the types; who holds a claim and the ledger lock; the  *)
(* numbers of the credentials a call knows; what the ledger holds at each  *)
(* step of an append; and which credentials may be live at each step.      *)
(***************************************************************************)
EXTENDS SecretSink, TLAPS

\* The fields of a credential have the types they are given.
LEMMA CredentialFields ==
    ASSUME NEW c \in Credential
    PROVE  c.key \in Keys /\ c.input \in Inputs /\ c.id \in Nat /\ c # None
  BY NoneIsNothing, BoundsAreNaturals DEF Credential

\* A credential within the bound is one.
LEMMA CredentialMade ==
    ASSUME NEW k \in Keys, NEW i \in Inputs, NEW n \in Nat, n < MaxMints[k]
    PROVE  [key |-> k, input |-> i, id |-> n + 1] \in Credential
<1> DEFINE part == [key : {k}, input : Inputs, id : 1..MaxMints[k]]
<1>1. MaxMints[k] \in Nat
  BY BoundsAreNaturals
<1>2. n + 1 \in 1..MaxMints[k]
  BY <1>1
<1>3. [key |-> k, input |-> i, id |-> n + 1] \in part
  BY <1>2
<1> QED
  BY <1>3 DEF Credential

\* A request has a key and an input, and is not None.
LEMMA RequestFields ==
    ASSUME NEW r \in Requests
    PROVE  r.key \in Keys /\ r.input \in Inputs /\ r # None
  BY NoneIsNothing, RequestsHaveKeyAndInput

-----------------------------------------------------------------------------
(* Types. *)

\* A process in a call knows its request; one that has created a credential
\* knows a credential of that request.
CallShape ==
    \A p \in Procs :
        /\ pc[p] \notin {"idle", "dead"} => call[p] \in Requests
        /\ pc[p] \in MintedSteps =>
              /\ cred[p] \in Credential
              /\ cred[p].key = call[p].key
              /\ cred[p].input = call[p].input

\* A committed record lies under its own key.
RecordsUnderKey == \A k \in Keys : committed[k] # None => committed[k].key = k

LocalTypes ==
    /\ pc \in [Procs -> Steps]
    /\ call \in [Procs -> Requests \cup {None}]
    /\ role \in [Procs -> Roles]
    /\ cred \in [Procs -> Credential \cup {None}]
    /\ base \in [Procs -> SUBSET Credential]
    /\ answer \in [Procs -> Answers]

DiskTypes ==
    /\ pending \in [Keys -> [owner : Procs, input : Inputs] \cup {None}]
    /\ committed \in [Keys -> Credential \cup {None}]
    /\ ledger \subseteq Credential
    /\ synced \subseteq Credential
    /\ torn \in BOOLEAN
    /\ lock \in Procs \cup {"free", "stale", "stuck"}
    /\ live \subseteq Credential
    /\ minted \in [Keys -> Nat]
    /\ failures \in Nat

TypeInv == LocalTypes /\ DiskTypes /\ CallShape /\ RecordsUnderKey

\* Answering a call forgets what the process knew of it.
LEMMA DoneTypes ==
    ASSUME TypeInv, NEW p \in Procs, NEW a \in Answers, Done(p, a)
    PROVE  LocalTypes' /\ CallShape'
  BY DEF TypeInv, LocalTypes, CallShape, Done, Goto, Steps, Roles, MintedSteps

\* Moving on keeps what the process knows of its call.
LEMMA GotoTypes ==
    ASSUME TypeInv, NEW p \in Procs, NEW step \in Steps, Goto(p, step), Stay,
           pc[p] \notin {"idle", "dead"},
           step \in MintedSteps => pc[p] \in MintedSteps
    PROVE  LocalTypes' /\ CallShape'
  BY DEF TypeInv, LocalTypes, CallShape, Goto, Stay, Steps, MintedSteps

\* Releasing a claim leaves claims.
LEMMA ReleaseTypes ==
    ASSUME TypeInv, NEW k \in Keys, ReleaseClaim(k)
    PROVE  pending' \in [Keys -> [owner : Procs, input : Inputs] \cup {None}]
  BY DEF TypeInv, DiskTypes, ReleaseClaim

\* The answers that are not credentials, and the replay of a record.
LEMMA AnswerTypes ==
    /\ NoAnswer \in Answers /\ Failed \in Answers
    /\ \A how \in {"fresh", "replayed", "scanned"}, c \in Credential, request \in Requests :
          /\ [how |-> how, cred |-> c] \in Answers
          /\ Replay(how, c, request) \in Answers
  BY DEF NoAnswer, Failed, Answers, Replay

\* Every action leaves the types in place.
LEMMA TypeInvStep == TypeInv /\ [Next]_vars => TypeInv'
<1> SUFFICES ASSUME TypeInv, [Next]_vars PROVE TypeInv'
  OBVIOUS
<1>1. ASSUME NEW p \in Procs, NEW request \in Requests, Start(p, request) PROVE TypeInv'
  <2>1. LocalTypes' /\ CallShape'
    <3>1. committed[request.key] # None =>
             Replay("replayed", committed[request.key], request) \in Answers
      BY AnswerTypes, RequestFields DEF TypeInv, DiskTypes
    <3>2. answer' \in [Procs -> Answers]
      BY <1>1, <3>1, AnswerTypes DEF TypeInv, LocalTypes, Start
    <3>3. pc' \in [Procs -> Steps] /\ call' \in [Procs -> Requests \cup {None}]
      BY <1>1 DEF TypeInv, LocalTypes, Start, Goto, Steps
    <3>4. CallShape'
      BY <1>1 DEF TypeInv, LocalTypes, CallShape, Start, Goto, MintedSteps
    <3> QED BY <1>1, <3>2, <3>3, <3>4 DEF TypeInv, LocalTypes, Start
  <2> QED
    BY <1>1, <2>1 DEF TypeInv, DiskTypes, RecordsUnderKey, Start, disk, provider
<1>2. ASSUME NEW p \in Procs, CallStep(p) PROVE TypeInv'
  <2> USE <1>2
  <2>0. pc[p] \notin {"idle", "dead"} => call[p] \in Requests /\ call[p].key \in Keys
    BY RequestFields DEF TypeInv, CallShape
  <2>1. CASE CheckPending(p)
    <3>1. LocalTypes' /\ CallShape'
      BY <2>1, DoneTypes, GotoTypes, AnswerTypes DEF CheckPending, Steps, MatchSteps, MintedSteps
    <3> QED BY <2>1, <3>1 DEF TypeInv, DiskTypes, RecordsUnderKey, CheckPending, disk, provider
  <2>2. CASE Recheck(p)
    <3>1. committed[call[p].key] # None =>
             Replay("replayed", committed[call[p].key], call[p]) \in Answers
      BY <2>0, <2>2, AnswerTypes DEF TypeInv, DiskTypes, Recheck
    <3>2. LocalTypes' /\ CallShape'
      <4>1. CASE \E a \in Answers : Done(p, a)
        BY <4>1, DoneTypes
      <4>2. CASE Goto(p, "repair") /\ Stay
        BY <2>2, <4>2, GotoTypes DEF Recheck, Steps, MatchSteps, MintedSteps
      <4> QED BY <2>2, <3>1, <4>1, <4>2, AnswerTypes DEF Recheck, Leave
    <3>3. pending' \in [Keys -> [owner : Procs, input : Inputs] \cup {None}]
      BY <2>0, <2>2, ReleaseTypes DEF Recheck, Leave, TypeInv, DiskTypes
    <3> QED BY <2>2, <3>2, <3>3 DEF TypeInv, DiskTypes, RecordsUnderKey, Recheck, provider
  <2>3. CASE Repair(p)
    <3>1. LocalTypes' /\ CallShape'
      BY <2>3, GotoTypes DEF Repair, Steps, MatchSteps, MintedSteps
    <3> QED BY <2>3, <3>1 DEF TypeInv, DiskTypes, RecordsUnderKey, Repair, provider
  <2>4. CASE LockTimeout(p)
    <3>1. LocalTypes' /\ CallShape'
      BY <2>4, DoneTypes, GotoTypes, AnswerTypes
         DEF LockTimeout, Leave, Steps, MatchSteps, MintedSteps, ClaimedSteps
    <3>2. pending' \in [Keys -> [owner : Procs, input : Inputs] \cup {None}]
      BY <2>0, <2>4, ReleaseTypes DEF LockTimeout, Leave, TypeInv, DiskTypes
    <3> QED BY <2>4, <3>1, <3>2 DEF TypeInv, DiskTypes, RecordsUnderKey, LockTimeout, provider
  <2>5. CASE Scan(p)
    <3>1. \A record \in ledger : Replay("scanned", record, call[p]) \in Answers
      BY <2>0, <2>5, AnswerTypes DEF TypeInv, DiskTypes, Scan
    <3>2. LocalTypes' /\ CallShape'
      BY <2>5, <3>1, DoneTypes, GotoTypes, AnswerTypes
         DEF Scan, Leave, NoMatch, Steps, MatchSteps, MintedSteps, ClaimedSteps, TypeInv, LocalTypes, Roles
    <3>3. pending' \in [Keys -> [owner : Procs, input : Inputs] \cup {None}]
      BY <2>0, <2>5, ReleaseTypes DEF Scan, Leave, TypeInv, DiskTypes
    <3> QED BY <2>5, <3>2, <3>3 DEF TypeInv, DiskTypes, RecordsUnderKey, Scan, provider
  <2>6. CASE Claim(p)
    <3>1. [owner |-> p, input |-> call[p].input] \in [owner : Procs, input : Inputs]
      BY <2>0, <2>6, RequestFields DEF Claim
    <3>2. LocalTypes' /\ CallShape'
      <4>1. CASE Done(p, Failed)
        BY <4>1, DoneTypes, AnswerTypes
      <4>2. CASE ~Done(p, Failed)
        BY <2>6, <4>2 DEF TypeInv, LocalTypes, CallShape, Claim, Goto, Stay, Steps, MatchSteps,
                          MintedSteps, ClaimedSteps, Roles
      <4> QED BY <4>1, <4>2
    <3>3. pending' \in [Keys -> [owner : Procs, input : Inputs] \cup {None}]
      BY <2>6, <3>1 DEF Claim, TypeInv, DiskTypes
    <3> QED BY <2>6, <3>2, <3>3 DEF TypeInv, DiskTypes, RecordsUnderKey, Claim, provider
  <2>7. CASE SyncClaim(p)
    <3>1. CASE Done(p, Failed)
      BY <3>1, <2>7, <2>0, DoneTypes, AnswerTypes, ReleaseTypes
         DEF SyncClaim, TypeInv, DiskTypes, RecordsUnderKey, provider
    <3>2. CASE ~Done(p, Failed)
      BY <3>2, <2>7 DEF SyncClaim, TypeInv, LocalTypes, DiskTypes, CallShape, RecordsUnderKey,
         provider, Goto, Steps, MatchSteps, MintedSteps, ClaimedSteps, Roles
    <3> QED BY <3>1, <3>2
  <2>8. CASE CreateMints(p)
    <3> DEFINE k == call[p].key
    <3>1. Fresh(p) \in Credential
      BY <2>0, <2>8, CredentialMade, RequestFields DEF CreateMints, Fresh, TypeInv, DiskTypes
    <3>2. LocalTypes' /\ CallShape'
      <4>1. CASE Done(p, Failed)
        BY <4>1, DoneTypes, AnswerTypes
      <4>2. CASE ~Done(p, Failed)
        <5>1. PICK step \in {"made", "recover"} : Goto(p, step)
          BY <4>2, <2>8 DEF CreateMints
        <5>2. cred' = [cred EXCEPT ![p] = Fresh(p)] /\ UNCHANGED <<call, role, base, answer>>
          BY <4>2, <2>8 DEF CreateMints
        <5>3. Fresh(p).key = call[p].key /\ Fresh(p).input = call[p].input
          BY DEF Fresh
        <5>4. LocalTypes'
          BY <5>1, <5>2, <3>1 DEF TypeInv, LocalTypes, Goto, Steps, MintedSteps, ClaimedSteps
        <5>5. CallShape'
          <6> SUFFICES ASSUME NEW q \in Procs
                       PROVE  /\ pc'[q] \notin {"idle", "dead"} => call'[q] \in Requests
                              /\ pc'[q] \in MintedSteps =>
                                    /\ cred'[q] \in Credential
                                    /\ cred'[q].key = call'[q].key
                                    /\ cred'[q].input = call'[q].input
            BY DEF CallShape
          <6>1. CASE q = p
            BY <6>1, <5>1, <5>2, <5>3, <3>1, <2>0, <2>8 DEF CreateMints, TypeInv, LocalTypes, Goto
          <6>2. CASE q # p
            BY <6>2, <5>1, <5>2 DEF TypeInv, LocalTypes, CallShape, Goto
          <6> QED BY <6>1, <6>2
        <5> QED BY <5>4, <5>5
      <4> QED BY <4>1, <4>2
    <3>3. live' \subseteq Credential /\ minted' \in [Keys -> Nat]
      <4>1. call[p].key \in Keys
        BY <2>0, <2>8 DEF CreateMints
      <4>2. live' = live \cup {Fresh(p)}
        BY <2>8 DEF CreateMints
      <4>3. minted' = [minted EXCEPT ![call[p].key] = minted[call[p].key] + 1]
        BY <2>8 DEF CreateMints
      <4> QED BY <4>1, <4>2, <4>3, <3>1 DEF TypeInv, DiskTypes
    <3> QED BY <2>8, <3>2, <3>3 DEF TypeInv, DiskTypes, RecordsUnderKey, CreateMints, disk
  <2>9. CASE CreateFails(p)
    BY <2>9, <2>0, DoneTypes, AnswerTypes, ReleaseTypes
       DEF CreateFails, TypeInv, DiskTypes, RecordsUnderKey, provider
  <2>10. CASE Project(p)
    <3>1. LocalTypes' /\ CallShape'
      BY <2>10, GotoTypes DEF Project, Steps, MintedSteps, ClaimedSteps
    <3> QED BY <2>10, <3>1 DEF TypeInv, DiskTypes, RecordsUnderKey, Project, disk, provider
  <2>11. CASE OpenLedger(p)
    <3>1. LocalTypes' /\ CallShape'
      BY <2>11 DEF OpenLedger, TypeInv, LocalTypes, DiskTypes, CallShape, Goto, Steps,
                   MintedSteps, ClaimedSteps
    <3> QED BY <2>11, <3>1 DEF TypeInv, DiskTypes, RecordsUnderKey, OpenLedger, provider
  <2>12. CASE WriteLine(p)
    <3>1. LocalTypes' /\ CallShape'
      BY <2>12, GotoTypes DEF WriteLine, Steps, MintedSteps, ClaimedSteps
    <3>2. cred[p] \in Credential
      BY <2>12 DEF TypeInv, CallShape, WriteLine, MintedSteps
    <3> QED BY <2>12, <3>1, <3>2 DEF TypeInv, DiskTypes, RecordsUnderKey, WriteLine, provider
  <2>13. CASE SyncLine(p)
    <3>1. LocalTypes' /\ CallShape'
      BY <2>13, GotoTypes DEF SyncLine, Steps, MintedSteps, ClaimedSteps
    <3> QED BY <2>13, <3>1 DEF TypeInv, DiskTypes, RecordsUnderKey, SyncLine, provider
  <2>14. CASE Rollback(p)
    <3>1. LocalTypes' /\ CallShape'
      BY <2>14, GotoTypes, DoneTypes, AnswerTypes DEF Rollback, Steps, MintedSteps, ClaimedSteps
    <3>2. base[p] \subseteq Credential
      BY DEF TypeInv, LocalTypes
    <3> QED BY <2>14, <3>1, <3>2 DEF TypeInv, DiskTypes, RecordsUnderKey, Rollback, Truncate, provider
  <2>15. CASE Recover(p)
    BY <2>15, <2>0, DoneTypes, AnswerTypes, ReleaseTypes
       DEF Recover, TypeInv, DiskTypes, RecordsUnderKey
  <2>16. CASE CommitRecord(p)
    <3>1. LocalTypes' /\ CallShape'
      BY <2>16, GotoTypes, DoneTypes, AnswerTypes DEF CommitRecord, Steps, MintedSteps, ClaimedSteps
    <3>2. cred[p] \in Credential /\ cred[p].key = call[p].key
      BY <2>16 DEF TypeInv, CallShape, CommitRecord, MintedSteps
    <3>3. committed' \in [Keys -> Credential \cup {None}] /\ RecordsUnderKey'
      BY <2>16, <3>2, <2>0 DEF CommitRecord, TypeInv, DiskTypes, RecordsUnderKey
    <3> QED BY <2>16, <3>1, <3>3 DEF TypeInv, DiskTypes, CommitRecord, provider
  <2>17. CASE SyncIndex(p)
    <3>1. LocalTypes' /\ CallShape'
      BY <2>17, GotoTypes, DoneTypes, AnswerTypes DEF SyncIndex, Steps, MintedSteps, ClaimedSteps
    <3> QED BY <2>17, <3>1 DEF TypeInv, DiskTypes, RecordsUnderKey, SyncIndex, disk, provider
  <2>18. CASE Release(p)
    <3>1. [how |-> "fresh", cred |-> cred[p]] \in Answers
      BY <2>18, AnswerTypes DEF TypeInv, CallShape, Release, MintedSteps, Answers
    <3> QED
      BY <2>18, <2>0, <3>1, DoneTypes, ReleaseTypes
         DEF Release, TypeInv, DiskTypes, RecordsUnderKey, provider
  <2> QED
    BY <2>1, <2>2, <2>3, <2>4, <2>5, <2>6, <2>7, <2>8, <2>9, <2>10, <2>11, <2>12, <2>13,
       <2>14, <2>15, <2>16, <2>17, <2>18 DEF CallStep, ClaimStep, StoreStep
<1>3. ASSUME NEW p \in Procs, Kill(p) PROVE TypeInv'
  <2>1. LocalTypes' /\ CallShape'
    BY <1>3, AnswerTypes DEF Kill, Forgotten, TypeInv, LocalTypes, CallShape, Steps, Roles, MintedSteps
  <2> QED BY <1>3, <2>1 DEF Kill, TypeInv, DiskTypes, RecordsUnderKey, provider
<1>4. ASSUME NEW p \in Procs, Restart(p) PROVE TypeInv'
  BY <1>4 DEF Restart, Goto, Stay, TypeInv, LocalTypes, DiskTypes, CallShape, RecordsUnderKey,
              Steps, MintedSteps, disk, provider
<1>5. ASSUME NEW k \in Keys, Reconcile(k) PROVE TypeInv'
  BY <1>5 DEF Reconcile, TypeInv, LocalTypes, DiskTypes, CallShape, RecordsUnderKey
<1>6. CASE PowerFailure
  <2>1. LocalTypes' /\ CallShape'
    BY <1>6, AnswerTypes DEF PowerFailure, Forgotten, TypeInv, LocalTypes, CallShape, Steps, Roles, MintedSteps
  <2>2. /\ pending' \in [Keys -> [owner : Procs, input : Inputs] \cup {None}]
        /\ committed' \in [Keys -> Credential \cup {None}]
        /\ RecordsUnderKey'
    BY <1>6 DEF PowerFailure, TypeInv, DiskTypes, RecordsUnderKey
  <2>3. ledger' \subseteq Credential
    BY <1>6 DEF PowerFailure, TypeInv, DiskTypes
  <2> QED BY <1>6, <2>1, <2>2, <2>3 DEF PowerFailure, TypeInv, DiskTypes, provider
<1>7. CASE UNCHANGED vars
  BY <1>7 DEF vars, TypeInv, LocalTypes, DiskTypes, CallShape, RecordsUnderKey
<1> QED
  BY <1>1, <1>2, <1>3, <1>4, <1>5, <1>6, <1>7 DEF Next

\* The initial types.
LEMMA TypeInvInit == Init => TypeInv
<1> SUFFICES ASSUME Init PROVE TypeInv
  OBVIOUS
<1>1. LocalTypes
  BY AnswerTypes DEF Init, LocalTypes, Steps, Roles
<1>2. DiskTypes
  BY DEF Init, DiskTypes
<1>3. CallShape /\ RecordsUnderKey
  BY DEF Init, CallShape, RecordsUnderKey, MintedSteps
<1> QED
  BY <1>1, <1>2, <1>3 DEF TypeInv

\* Every variable keeps its type, and what a process knows of its call agrees with
\* the step it is at.
THEOREM TypesHold == Spec => []TypeInv
  BY TypeInvInit, TypeInvStep, PTL DEF Spec

-----------------------------------------------------------------------------
(* Who holds a claim, and who holds the append lock. *)

\* A process past its claim owns the claim file of its key, one in an append owns
\* the lock, and one before its claim does not take itself for a holder.
Ownership ==
    \A p \in Procs :
        /\ \A k \in Keys : Holding(p, k) => pending[k] # None /\ pending[k].owner = p
        /\ pc[p] \in {"write", "sync", "rollback"} => lock = p
        /\ pc[p] \in {"idle", "dead", "pending", "claim"} => role[p] = "before"

\* At first nobody holds anything.
LEMMA OwnershipInit == Init => Ownership
  BY DEF Init, Ownership, Holding, MatchSteps, ClaimedSteps, MintedSteps

\* A process that answers its call releases no claim but its own.
LEMMA OwnershipDone ==
    ASSUME TypeInv, Ownership, NEW p \in Procs, NEW a, Done(p, a), UNCHANGED lock,
           pc[p] \notin {"idle", "dead"},
           \A k \in Keys : ~Holding(p, k) => pending'[k] = pending[k]
    PROVE  Ownership'
<1> SUFFICES ASSUME NEW q \in Procs
             PROVE  /\ \A k \in Keys : Holding(q, k)' => pending'[k] # None /\ pending'[k].owner = q
                    /\ pc'[q] \in {"write", "sync", "rollback"} => lock' = q
                    /\ pc'[q] \in {"idle", "dead", "pending", "claim"} => role'[q] = "before"
  BY DEF Ownership
<1>1. CASE q = p
  BY <1>1 DEF TypeInv, LocalTypes, Done, Goto, Holding, MatchSteps, ClaimedSteps, MintedSteps
<1>2. CASE q # p
  <2>1. pc'[q] = pc[q] /\ role'[q] = role[q] /\ call'[q] = call[q]
    BY <1>2 DEF TypeInv, LocalTypes, Done, Goto
  <2>2. \A k \in Keys : Holding(q, k) => pending'[k] = pending[k]
    BY <1>2 DEF Ownership
  <2> QED
    BY <2>1, <2>2 DEF Ownership, Holding
<1> QED
  BY <1>1, <1>2

\* Every action leaves the owners in place.
LEMMA OwnershipStep == TypeInv /\ Ownership /\ [Next]_vars => Ownership'
<1> SUFFICES ASSUME TypeInv, Ownership, [Next]_vars PROVE Ownership'
  OBVIOUS
<1>0. /\ \A q \in Procs : pc[q] \notin {"idle", "dead"} => call[q].key \in Keys
      /\ pc \in [Procs -> Steps] /\ role \in [Procs -> Roles] /\ DOMAIN pending = Keys
      /\ DOMAIN call = Procs
  BY RequestFields DEF TypeInv, LocalTypes, DiskTypes, CallShape
<1>1. ASSUME NEW p \in Procs, NEW request \in Requests, Start(p, request) PROVE Ownership'
  BY <1>0, <1>1 DEF Start, Goto, Ownership, Holding, MatchSteps, ClaimedSteps, MintedSteps, disk
<1>2. ASSUME NEW p \in Procs, CallStep(p) PROVE Ownership'
  <2> USE <1>2, <1>0 DEF Ownership, Holding, MatchSteps, ClaimedSteps, MintedSteps, Goto, Stay
  <2>1. CASE CheckPending(p)
    <3>1. UNCHANGED <<lock, pending>> /\ pc[p] = "pending"
      BY <2>1 DEF CheckPending, disk
    <3>2. CASE Done(p, Failed)
      BY <3>1, <3>2, OwnershipDone
    <3>3. CASE ~Done(p, Failed)
      BY <3>1, <3>3, <2>1 DEF CheckPending
    <3> QED BY <3>2, <3>3
  <2>2. CASE Recheck(p)
    <3>1. ASSUME NEW a, Leave(p, a) PROVE Ownership'
      <4>1. \A k \in Keys : ~Holding(p, k) => pending'[k] = pending[k]
        BY <3>1, <2>2 DEF Recheck, Leave, ReleaseClaim
      <4>2. Done(p, a)
        BY <3>1 DEF Leave
      <4> QED BY <4>1, <4>2, <2>2, OwnershipDone DEF Recheck
    <3>2. CASE Goto(p, "repair") /\ Stay /\ UNCHANGED pending
      BY <3>2, <2>2 DEF Recheck
    <3> QED BY <3>1, <3>2, <2>2 DEF Recheck
  <2>3. CASE Repair(p)
    BY <2>3, LockStatesAreNoProcesses DEF Repair, LockAvailable
  <2>4. CASE LockTimeout(p)
    <3>1. CASE Leave(p, Failed) /\ pc[p] = "repair"
      <4>1. \A k \in Keys : ~Holding(p, k) => pending'[k] = pending[k]
        BY <3>1 DEF Leave, ReleaseClaim
      <4>2. Done(p, Failed)
        BY <3>1 DEF Leave
      <4> QED BY <4>1, <4>2, <2>4, OwnershipDone DEF LockTimeout
    <3> QED BY <3>1, <2>4 DEF LockTimeout
  <2>5. CASE Scan(p)
    <3>1. ASSUME NEW a, Leave(p, a) PROVE Ownership'
      <4>1. \A k \in Keys : ~Holding(p, k) => pending'[k] = pending[k]
        BY <3>1, <2>5 DEF Scan, Leave, ReleaseClaim
      <4>2. Done(p, a)
        BY <3>1 DEF Leave
      <4> QED BY <4>1, <4>2, <2>5, OwnershipDone DEF Scan
    <3>2. CASE NoMatch(p) /\ UNCHANGED pending
      <4>1. UNCHANGED <<lock, pending>> /\ pc[p] = "scan"
        BY <3>2, <2>5 DEF Scan
      <4>2. CASE role[p] = "before"
        BY <3>2, <4>1, <4>2 DEF NoMatch
      <4>3. CASE role[p] = "raced"
        <5>1. Done(p, Failed)
          BY <3>2, <4>3 DEF NoMatch
        <5> QED BY <5>1, <4>1, OwnershipDone
      <4>4. CASE role[p] = "holding"
        <5>1. Goto(p, "create") /\ Stay
          BY <3>2, <4>4 DEF NoMatch
        <5> QED BY <5>1, <4>1, <4>4
      <4> QED BY <4>2, <4>3, <4>4 DEF Roles
    <3>3. \/ \E a : Leave(p, a)
          \/ NoMatch(p) /\ UNCHANGED pending
      BY <2>5 DEF Scan
    <3> QED BY <3>1, <3>2, <3>3
  <2>6. CASE Claim(p)
    <3>1. CASE pending[call[p].key] = None
      <4> DEFINE claim == [owner |-> p, input |-> call[p].input]
      <4>1. /\ pending' \in {pending, [pending EXCEPT ![call[p].key] = claim]}
            /\ UNCHANGED <<lock, call>>
            /\ \/ pending' # pending /\ pc' = [pc EXCEPT ![p] = "syncClaim"] /\ UNCHANGED role
               \/ Done(p, Failed)
        BY <2>6, <3>1, NoneIsNothing, RequestFields DEF Claim, Done, TypeInv, CallShape
      <4>2. claim # None /\ claim.owner = p /\ call[p].key \in Keys /\ pc[p] = "claim"
        BY <2>6, NoneIsNothing, RequestFields DEF Claim, TypeInv, CallShape
      <4>3. \A q \in Procs, k \in Keys : Holding(q, k) => k # call[p].key
        BY <3>1
      <4> HIDE DEF claim
      <4>4. CASE Done(p, Failed)
        <5>1. \A q \in Procs, k \in Keys : Holding(q, k) => pending'[k] = pending[k]
          BY <4>1, <4>3
        <5>2. \A q \in Procs \ {p} : pc'[q] = pc[q] /\ role'[q] = role[q] /\ call'[q] = call[q]
          BY <4>1, <4>4 DEF Done
        <5>3. pc'[p] = "idle" /\ role'[p] = "before"
          BY <4>4 DEF Done
        <5> QED BY <4>1, <5>1, <5>2, <5>3
      <4>5. CASE ~Done(p, Failed)
        BY <4>1, <4>2, <4>3, <4>5
      <4> QED BY <4>4, <4>5
    <3>2. CASE pending[call[p].key] # None
      BY <2>6, <3>2 DEF Claim
    <3> QED BY <3>1, <3>2
  <2>7. CASE SyncClaim(p)
    BY <2>7 DEF SyncClaim, ReleaseClaim, Done
  <2>8. CASE CreateMints(p)
    BY <2>8 DEF CreateMints, disk, Done
  <2>9. CASE CreateFails(p)
    BY <2>9 DEF CreateFails, ReleaseClaim, Done
  <2>10. CASE Project(p)
    BY <2>10 DEF Project, disk
  <2>11. CASE OpenLedger(p)
    BY <2>11, LockStatesAreNoProcesses DEF OpenLedger, LockAvailable
  <2>12. CASE WriteLine(p)
    BY <2>12 DEF WriteLine
  <2>13. CASE SyncLine(p)
    BY <2>13 DEF SyncLine
  <2>14. CASE Rollback(p)
    BY <2>14 DEF Rollback, Done
  <2>15. CASE Recover(p)
    BY <2>15 DEF Recover, ReleaseClaim, Done
  <2>16. CASE CommitRecord(p)
    BY <2>16 DEF CommitRecord, Done
  <2>17. CASE SyncIndex(p)
    BY <2>17 DEF SyncIndex, disk, Done
  <2>18. CASE Release(p)
    BY <2>18 DEF Release, ReleaseClaim, Done
  <2> QED
    BY <2>1, <2>2, <2>3, <2>4, <2>5, <2>6, <2>7, <2>8, <2>9, <2>10, <2>11, <2>12, <2>13,
       <2>14, <2>15, <2>16, <2>17, <2>18 DEF CallStep, ClaimStep, StoreStep
<1>3. ASSUME NEW p \in Procs, Kill(p) PROVE Ownership'
  BY <1>0, <1>3, LockStatesAreNoProcesses
     DEF Kill, Forgotten, LockAvailable, Ownership, Holding, MatchSteps, ClaimedSteps, MintedSteps
<1>4. ASSUME NEW p \in Procs, Restart(p) PROVE Ownership'
  BY <1>0, <1>4 DEF Restart, Goto, Stay, disk, Ownership, Holding, MatchSteps, ClaimedSteps, MintedSteps
<1>5. ASSUME NEW k \in Keys, Reconcile(k) PROVE Ownership'
  BY <1>0, <1>5 DEF Reconcile, Ownership, Holding
<1>6. CASE PowerFailure
  BY <1>6 DEF PowerFailure, Forgotten, Ownership, Holding, MatchSteps, ClaimedSteps, MintedSteps
<1>7. CASE UNCHANGED vars
  BY <1>7 DEF vars, Ownership, Holding
<1> QED
  BY <1>1, <1>2, <1>3, <1>4, <1>5, <1>6, <1>7 DEF Next

-----------------------------------------------------------------------------
(* What the ledger contains at each step of an append. *)

\* Credentials that somebody knows of: the ledger, the provider, their creator.
Known(c) ==
    c \in ledger \/ c \in live \/ (\E p \in Procs : pc[p] \in MintedSteps /\ c = cred[p])

\* No known credential is newer than the number minted.
Numbered == \A c \in Credential : Known(c) => c.id <= minted[c.key]

\* Durable lines are lines; a committed record is durable.
LedgerShared ==
    /\ synced \subseteq ledger
    /\ \A k \in Keys : committed[k] # None => committed[k] \in synced

\* The noted size keeps every durable line and lies before the line being written;
\* a credential has no line before its append and after its rollback, and a durable
\* one after its fsync.
LedgerAt(p) ==
    /\ pc[p] \in {"write", "sync", "rollback"} => synced \subseteq base[p] /\ base[p] \subseteq ledger
    /\ pc[p] \in {"sync", "rollback"} => cred[p] \notin base[p]
    /\ pc[p] = "sync" => cred[p] \in ledger
    /\ pc[p] \in {"made", "lock", "write", "recover"} => cred[p] \notin ledger
    /\ pc[p] \in {"index", "syncIndex", "release"} => cred[p] \in synced

LedgerInv == LedgerShared /\ \A p \in Procs : LedgerAt(p)

\* At first no credential is known.
LEMMA NumberedInit == Init => Numbered
  BY DEF Init, Numbered, Known, MintedSteps

\* Every action leaves the numbers right: only a creation makes a credential known.
LEMMA NumberedStep == TypeInv /\ LedgerInv /\ Numbered /\ [Next]_vars => Numbered'
<1> SUFFICES ASSUME TypeInv, LedgerInv, Numbered, [Next]_vars PROVE Numbered'
  OBVIOUS
<1>0. /\ pc \in [Procs -> Steps] /\ DOMAIN cred = Procs
      /\ ledger \subseteq Credential /\ synced \subseteq Credential /\ minted \in [Keys -> Nat]
  BY DEF TypeInv, LocalTypes, DiskTypes
<1>1. ASSUME minted' = minted, live' \subseteq live,
             \A c \in ledger' : Known(c),
             \A p \in Procs : pc'[p] \in MintedSteps => Known(cred'[p])
      PROVE  Numbered'
  BY <1>1 DEF Numbered, Known
<1>2. ASSUME NEW p \in Procs, NEW step, Goto(p, step), cred' = cred,
             step \in MintedSteps => pc[p] \in MintedSteps,
             minted' = minted, live' \subseteq live, \A c \in ledger' : Known(c)
      PROVE  Numbered'
  BY <1>0, <1>1, <1>2 DEF Goto, Known
<1>3. ASSUME NEW p \in Procs, NEW a, Done(p, a),
             minted' = minted, live' \subseteq live, \A c \in ledger' : Known(c)
      PROVE  Numbered'
  BY <1>0, <1>1, <1>3 DEF Done, Goto, Known, MintedSteps
<1>4. \A c \in ledger : Known(c)
  BY DEF Known
<1>5. ASSUME NEW p \in Procs, NEW request \in Requests, Start(p, request) PROVE Numbered'
  BY <1>0, <1>1, <1>4, <1>5 DEF Start, Goto, Known, MintedSteps, disk, provider
<1>6. ASSUME NEW p \in Procs, CallStep(p) PROVE Numbered'
  <2> USE <1>6, <1>4
  <2>1. CASE ClaimStep(p)
    <3>1. UNCHANGED <<ledger, minted, live>>
      BY <2>1 DEF ClaimStep, CheckPending, Recheck, Repair, LockTimeout, Scan, Claim, SyncClaim,
                  disk, provider
    <3>2. \/ \E a : Done(p, a)
          \/ cred' = cred /\ \E step : Goto(p, step) /\ (step \in MintedSteps => pc[p] \in MintedSteps)
      <4>1. CASE CheckPending(p) \/ Recheck(p) \/ Repair(p)
        BY <4>1 DEF CheckPending, Recheck, Repair, Leave, Stay, MintedSteps
      <4>2. CASE LockTimeout(p) \/ Claim(p) \/ SyncClaim(p)
        BY <4>2 DEF LockTimeout, Claim, SyncClaim, Leave, Stay, MintedSteps
      <4>3. CASE Scan(p)
        <5>1. pc[p] = "scan" /\ ((\E a : Leave(p, a)) \/ NoMatch(p))
          BY <4>3 DEF Scan
        <5>2. CASE \E a : Leave(p, a)
          BY <5>2 DEF Leave
        <5>3. CASE NoMatch(p)
          <6>1. role[p] \in Roles
            BY DEF TypeInv, LocalTypes
          <6>2. CASE role[p] = "raced"
            BY <5>3, <6>2 DEF NoMatch
          <6>3. CASE role[p] \in {"before", "holding"}
            <7>1. (Goto(p, "claim") \/ Goto(p, "create")) /\ cred' = cred
              BY <5>3, <6>3 DEF NoMatch, Stay
            <7> QED BY <7>1 DEF MintedSteps
          <6> QED BY <6>1, <6>2, <6>3 DEF Roles
        <5> QED BY <5>1, <5>2, <5>3
      <4> QED BY <2>1, <4>1, <4>2, <4>3 DEF ClaimStep
    <3> QED BY <3>1, <3>2, <1>2, <1>3
  <2>2. CASE CreateMints(p)
    <3> DEFINE k == call[p].key
    <3>1. /\ k \in Keys /\ minted' = [minted EXCEPT ![k] = minted[k] + 1]
          /\ live' = live \cup {Fresh(p)} /\ UNCHANGED ledger
      BY <2>2, RequestFields DEF CreateMints, TypeInv, CallShape, disk
    <3>2. Fresh(p).id = minted[k] + 1 /\ Fresh(p).key = k
      BY DEF Fresh
    <3>3. \A q \in Procs : pc'[q] \in MintedSteps => cred'[q] = Fresh(p) \/ Known(cred'[q])
      BY <1>0, <2>2 DEF CreateMints, Done, Goto, Known, MintedSteps
    <3>4. ASSUME NEW c \in Credential, Known(c)' PROVE c.id <= minted'[c.key]
      <4>1. Known(c) \/ c = Fresh(p)
        BY <3>1, <3>3, <3>4 DEF Known
      <4>2. c.key \in Keys /\ c.id \in Nat /\ minted[c.key] \in Nat
        BY <1>0, CredentialFields
      <4>3. CASE Known(c)
        <5>1. c.id <= minted[c.key]
          BY <4>3 DEF Numbered
        <5> QED BY <1>0, <3>1, <4>2, <5>1
      <4>4. CASE c = Fresh(p)
        BY <1>0, <3>1, <3>2, <4>4
      <4> QED BY <4>1, <4>3, <4>4
    <3> QED BY <3>4 DEF Numbered
  <2>3. CASE CreateFails(p) \/ Project(p) \/ SyncIndex(p) \/ Recover(p) \/ Release(p) \/ CommitRecord(p)
    <3>1. ledger' = ledger /\ minted' = minted /\ live' \subseteq live
      BY <2>3 DEF CreateFails, Project, SyncIndex, Recover, Release, CommitRecord, disk, provider
    <3>2. \/ \E a : Done(p, a)
          \/ cred' = cred /\ pc[p] \in MintedSteps /\ \E step : Goto(p, step)
      BY <2>3 DEF CreateFails, Project, SyncIndex, Recover, Release, CommitRecord, Stay, MintedSteps
    <3> QED BY <3>1, <3>2, <1>2, <1>3
  <2>4. CASE OpenLedger(p) \/ SyncLine(p)
    <3>1. UNCHANGED <<ledger, minted, live, cred>> /\ pc[p] \in MintedSteps /\ \E step : Goto(p, step)
      BY <2>4 DEF OpenLedger, SyncLine, Stay, MintedSteps, provider
    <3> QED BY <3>1, <1>2
  <2>5. CASE WriteLine(p)
    <3>1. UNCHANGED <<minted, live, cred>> /\ pc[p] \in MintedSteps /\ \E step : Goto(p, step)
      BY <2>5 DEF WriteLine, Stay, MintedSteps, provider
    <3>2. \A c \in ledger' : Known(c)
      BY <2>5, <3>1 DEF WriteLine, Known
    <3> QED BY <3>1, <3>2, <1>2
  <2>6. CASE Rollback(p)
    <3>1. UNCHANGED <<minted, live>> /\ pc[p] \in MintedSteps /\ pc[p] = "rollback"
      BY <2>6 DEF Rollback, MintedSteps, provider
    <3>2. base[p] \subseteq ledger
      BY <3>1 DEF LedgerInv, LedgerAt
    <3>3. \A c \in ledger' : Known(c)
      BY <2>6, <3>2 DEF Rollback, Truncate
    <3>4. \/ \E a : Done(p, a)
          \/ cred' = cred /\ \E step : Goto(p, step)
      BY <2>6 DEF Rollback, Stay
    <3> QED BY <3>1, <3>3, <3>4, <1>2, <1>3
  <2> QED
    BY <2>1, <2>2, <2>3, <2>4, <2>5, <2>6 DEF CallStep, StoreStep
<1>7. ASSUME NEW p \in Procs, Kill(p) \/ Restart(p) PROVE Numbered'
  BY <1>0, <1>1, <1>4, <1>7
     DEF Kill, Forgotten, Restart, Goto, Stay, Known, MintedSteps, disk, provider
<1>8. ASSUME NEW k \in Keys, Reconcile(k) PROVE Numbered'
  BY <1>0, <1>1, <1>4, <1>8 DEF Reconcile, Known
<1>9. CASE PowerFailure
  <2>1. UNCHANGED <<minted, live>> /\ ledger' \subseteq ledger
    BY <1>9 DEF PowerFailure, provider, LedgerInv, LedgerShared
  <2>2. \A q \in Procs : pc'[q] = "dead"
    BY <1>9 DEF PowerFailure, Forgotten
  <2> QED BY <1>1, <1>4, <2>1, <2>2 DEF MintedSteps
<1>10. CASE UNCHANGED vars
  BY <1>1, <1>4, <1>10 DEF vars, Known
<1> QED
  BY <1>5, <1>6, <1>7, <1>8, <1>9, <1>10 DEF Next

\* At first there is no line.
LEMMA LedgerInvInit == Init => LedgerInv
  BY DEF Init, LedgerInv, LedgerShared, LedgerAt

\* Two processes at a step with a credential have credentials of different keys.
LEMMA OwnCredential ==
    ASSUME TypeInv, Ownership, NEW p \in Procs, NEW q \in Procs, q # p,
           pc[p] \in MintedSteps, pc[q] \in MintedSteps
    PROVE  cred[q] # cred[p] /\ cred[q].key # cred[p].key
  BY RequestFields DEF TypeInv, CallShape, Ownership, Holding, ClaimedSteps, MintedSteps

\* A step that leaves the ledger and the records alone, creates nothing and moves
\* a process at most to a step that says nothing of the ledger.
LEMMA LedgerFrame ==
    ASSUME LedgerInv, UNCHANGED <<ledger, synced, committed, minted>>, live' \subseteq live,
           \A q \in Procs :
              \/ pc'[q] = pc[q] /\ cred'[q] = cred[q] /\ base'[q] = base[q]
              \/ pc'[q] \notin MintedSteps
    PROVE  LedgerInv'
  BY DEF LedgerInv, LedgerShared, LedgerAt, MintedSteps

\* Every action leaves the ledger in order.
LEMMA LedgerInvStep == TypeInv /\ Ownership /\ Numbered /\ LedgerInv /\ [Next]_vars => LedgerInv'
<1> SUFFICES ASSUME TypeInv, Ownership, Numbered, LedgerInv, [Next]_vars PROVE LedgerInv'
  OBVIOUS
<1>0. /\ pc \in [Procs -> Steps] /\ DOMAIN cred = Procs /\ DOMAIN base = Procs
      /\ ledger \subseteq Credential /\ live \subseteq Credential /\ minted \in [Keys -> Nat]
      /\ DOMAIN committed = Keys
  BY DEF TypeInv, LocalTypes, DiskTypes
<1>1. ASSUME NEW p \in Procs, NEW request \in Requests, Start(p, request) PROVE LedgerInv'
  BY <1>0, <1>1, LedgerFrame DEF Start, Goto, MintedSteps, disk, provider
<1>2. ASSUME NEW p \in Procs, CallStep(p) PROVE LedgerInv'
  <2> USE <1>2, <1>0
  <2>0. ASSUME NEW step, Goto(p, step), Stay, step \notin MintedSteps,
               UNCHANGED <<ledger, synced, committed, minted, live>>
        PROVE  LedgerInv'
    BY <2>0, LedgerFrame DEF Goto, Stay
  <2>00. ASSUME NEW a, Done(p, a), UNCHANGED <<ledger, synced, committed, minted>>,
                live' \subseteq live
         PROVE  LedgerInv'
    BY <2>00, LedgerFrame DEF Done, Goto, MintedSteps
  <2>1. CASE CheckPending(p)
    BY <2>1, <2>0, <2>00 DEF CheckPending, MintedSteps, disk, provider
  <2>2. CASE Recheck(p)
    BY <2>2, <2>0, <2>00 DEF Recheck, Leave, MintedSteps, provider
  <2>3. CASE Repair(p)
    BY <2>3, <2>0 DEF Repair, MintedSteps, provider
  <2>4. CASE LockTimeout(p)
    <3>1. CASE pc[p] = "lock"
      BY <3>1, <2>4 DEF LockTimeout, Goto, Stay, provider, LedgerInv, LedgerShared, LedgerAt
    <3> QED BY <3>1, <2>4, <2>00 DEF LockTimeout, Leave, provider
  <2>5. CASE Scan(p)
    BY <2>5, <2>0, <2>00 DEF Scan, Leave, NoMatch, MintedSteps, provider, TypeInv, LocalTypes, Roles
  <2>6. CASE Claim(p)
    BY <2>6, <2>00, LedgerFrame DEF Claim, Goto, Stay, MintedSteps, provider
  <2>7. CASE SyncClaim(p)
    BY <2>7, <2>00, LedgerFrame DEF SyncClaim, Goto, MintedSteps, provider
  <2>8. CASE CreateMints(p)
    <3> DEFINE k == call[p].key
    <3>1. k \in Keys /\ minted' = [minted EXCEPT ![k] = minted[k] + 1] /\ Fresh(p).id = minted[k] + 1
          /\ Fresh(p).key = k /\ live' = live \cup {Fresh(p)} /\ UNCHANGED <<ledger, synced, committed>>
      BY <2>8, RequestFields DEF CreateMints, TypeInv, CallShape, Fresh, disk
    <3>2. \A c \in Credential : c.key \in Keys /\ c.id \in Nat
      BY CredentialFields
    <3>3. LedgerShared'
      BY <3>1, <3>2 DEF LedgerInv, LedgerShared
    <3>4. Fresh(p) \notin ledger
      BY <3>1, <3>2 DEF Numbered, Known
    <3>5. \/ pc'[p] = "idle"
          \/ pc'[p] \in {"made", "recover"} /\ cred'[p] = Fresh(p)
      BY <2>8 DEF CreateMints, Done, Goto
    <3>6. \A q \in Procs \ {p} : pc'[q] = pc[q] /\ cred'[q] = cred[q] /\ base'[q] = base[q]
      BY <2>8 DEF CreateMints, Done, Goto
    <3> QED BY <3>1, <3>3, <3>4, <3>5, <3>6 DEF LedgerInv, LedgerAt
  <2>9. CASE CreateFails(p)
    BY <2>9, <2>00 DEF CreateFails, provider
  <2>10. CASE Project(p)
    BY <2>10 DEF Project, Goto, Stay, disk, provider, LedgerInv, LedgerShared, LedgerAt
  <2>11. CASE OpenLedger(p)
    BY <2>11 DEF OpenLedger, Goto, provider, LedgerInv, LedgerShared, LedgerAt
  <2>12. CASE WriteLine(p)
    <3>1. CASE ledger' = ledger \cup {cred[p]} /\ Goto(p, "sync")
      <4>1. UNCHANGED <<synced, committed, minted, live, cred, base>> /\ pc[p] = "write"
        BY <2>12 DEF WriteLine, Stay, provider
      <4>3. LedgerShared'
        BY <3>1, <4>1 DEF LedgerInv, LedgerShared
      <4>4. ASSUME NEW q \in Procs, q # p, pc[q] \in MintedSteps PROVE cred[q] # cred[p]
        BY <4>1, <4>4, OwnCredential DEF MintedSteps
      <4>5. ASSUME NEW q \in Procs PROVE LedgerAt(q)'
        BY <3>1, <4>1, <4>4 DEF LedgerInv, LedgerAt, Goto, MintedSteps
      <4> QED BY <4>3, <4>5 DEF LedgerInv
    <3>2. CASE ledger' = ledger
      BY <3>2, <2>12 DEF WriteLine, Goto, Stay, provider, LedgerInv, LedgerShared, LedgerAt
    <3> QED BY <3>1, <3>2, <2>12 DEF WriteLine
  <2>13. CASE SyncLine(p)
    <3>1. UNCHANGED <<ledger, committed, minted, live, cred, base>> /\ pc[p] = "sync"
      BY <2>13 DEF SyncLine, Stay, provider
    <3>2. ASSUME NEW q \in Procs, q # p PROVE pc[q] \notin {"write", "sync", "rollback"}
      <4>1. lock = p
        BY <3>1 DEF Ownership
      <4> QED BY <4>1, <3>2 DEF Ownership
    <3>3. CASE synced' = ledger /\ Goto(p, "index")
      <4>1. synced \subseteq ledger /\ cred[p] \in ledger
        BY <3>1 DEF LedgerInv, LedgerShared, LedgerAt
      <4>2. LedgerShared'
        BY <3>1, <3>3, <4>1 DEF LedgerInv, LedgerShared
      <4>3. ASSUME NEW q \in Procs PROVE LedgerAt(q)'
        <5>1. CASE q = p
          BY <3>1, <3>3, <4>1, <5>1 DEF Goto, LedgerAt
        <5>2. CASE q # p
          BY <3>1, <3>2, <3>3, <4>1, <5>2 DEF Goto, LedgerInv, LedgerAt
        <5> QED BY <5>1, <5>2
      <4> QED BY <4>2, <4>3 DEF LedgerInv
    <3>4. CASE Goto(p, "rollback") /\ UNCHANGED synced
      BY <3>1, <3>4 DEF Goto, LedgerInv, LedgerShared, LedgerAt
    <3> QED BY <2>13, <3>3, <3>4 DEF SyncLine
  <2>14. CASE Rollback(p)
    <3>1. pc[p] = "rollback" /\ UNCHANGED <<committed, minted, live>>
      BY <2>14 DEF Rollback, provider
    <3>2. ASSUME NEW q \in Procs, q # p PROVE pc[q] \notin {"write", "sync", "rollback"}
      <4>1. lock = p
        BY <3>1 DEF Ownership
      <4> QED BY <4>1, <3>2 DEF Ownership
    <3>3. CASE Truncate(p)
      BY <2>14, <3>1, <3>2, <3>3
         DEF Rollback, Truncate, Done, Goto, Stay, LedgerInv, LedgerShared, LedgerAt
    <3>4. CASE UNCHANGED <<ledger, synced, torn>> /\ Done(p, Failed)
      BY <3>1, <3>4, <2>00
    <3> QED BY <2>14, <3>3, <3>4 DEF Rollback
  <2>15. CASE Recover(p)
    BY <2>15, <2>00 DEF Recover
  <2>16. CASE CommitRecord(p)
    <3>1. CASE Done(p, Failed) /\ UNCHANGED committed
      BY <2>16, <3>1, <2>00 DEF CommitRecord, provider
    <3>2. CASE ~(Done(p, Failed) /\ UNCHANGED committed)
      BY <2>16, <3>2 DEF CommitRecord, Goto, Stay, provider, LedgerInv, LedgerShared, LedgerAt
    <3> QED BY <3>1, <3>2
  <2>17. CASE SyncIndex(p)
    <3>1. CASE Done(p, Failed)
      BY <2>17, <3>1, <2>00 DEF SyncIndex, disk, provider
    <3>2. CASE Goto(p, "release") /\ Stay
      BY <2>17, <3>2 DEF SyncIndex, Goto, Stay, disk, provider, LedgerInv, LedgerShared, LedgerAt
    <3> QED BY <3>1, <3>2, <2>17 DEF SyncIndex
  <2>18. CASE Release(p)
    BY <2>18, <2>00 DEF Release, provider
  <2> QED
    BY <2>1, <2>2, <2>3, <2>4, <2>5, <2>6, <2>7, <2>8, <2>9, <2>10, <2>11, <2>12, <2>13,
       <2>14, <2>15, <2>16, <2>17, <2>18 DEF CallStep, ClaimStep, StoreStep
<1>3. ASSUME NEW p \in Procs, Kill(p) PROVE LedgerInv'
  BY <1>0, <1>3, LedgerFrame DEF Kill, Forgotten, MintedSteps, provider
<1>4. ASSUME NEW p \in Procs, Restart(p) PROVE LedgerInv'
  BY <1>0, <1>4, LedgerFrame DEF Restart, Goto, Stay, MintedSteps, disk, provider
<1>5. ASSUME NEW k \in Keys, Reconcile(k) PROVE LedgerInv'
  BY <1>0, <1>5, LedgerFrame DEF Reconcile
<1>6. CASE PowerFailure
  <2>1. /\ synced' = synced /\ synced \subseteq ledger' /\ ledger' \subseteq ledger
        /\ UNCHANGED <<live, minted>>
    BY <1>6 DEF PowerFailure, provider, LedgerInv, LedgerShared
  <2>2. \A k \in Keys : committed'[k] \in {None, committed[k]}
    BY <1>6 DEF PowerFailure
  <2>3. \A q \in Procs : pc'[q] = "dead"
    BY <1>6 DEF PowerFailure, Forgotten
  <2> QED BY <2>1, <2>2, <2>3 DEF LedgerInv, LedgerShared, LedgerAt
<1>7. CASE UNCHANGED vars
  BY <1>7 DEF vars, LedgerInv, LedgerShared, LedgerAt
<1> QED
  BY <1>1, <1>2, <1>3, <1>4, <1>5, <1>6, <1>7 DEF Next

-----------------------------------------------------------------------------
(* Which credentials may be live at each step of a call. *)

\* Two steps at which a holder knows less: before and after it has looked at the
\* committed record again.
Early(p) == pc[p] = "syncClaim" \/ (pc[p] = "recheck" /\ role[p] = "holding")
Clear(p) == pc[p] = "create" \/ (pc[p] \in {"repair", "scan"} /\ role[p] = "holding")

\* A holder's key has no live credential but a committed one, then none, then the
\* one it created; that one stays live until it is to be recovered.
LiveAt(p) ==
    /\ Early(p) => \A c \in live : c.key = call[p].key => committed[c.key] = c
    /\ Clear(p) => \A c \in live : c.key # call[p].key
    /\ pc[p] \in MintedSteps => \A c \in live : c.key = call[p].key => c = cred[p]
    /\ pc[p] \in {"syncIndex", "release"} => committed[call[p].key] = cred[p]
    /\ pc[p] \in MintedSteps \ {"recover"} => cred[p] \in live

\* A live credential is committed or claimed, and a committed one is live.
Booked == \A c \in live : committed[c.key] = c \/ pending[c.key] # None
CommittedLive == \A k \in Keys : committed[k] # None => committed[k] \in live

LiveShared == Booked /\ CommittedLive /\ AtMostOneLive
LiveInv == LiveShared /\ \A p \in Procs : LiveAt(p)

\* At first there is no credential.
LEMMA LiveInvInit == Init => LiveInv
  BY DEF Init, LiveInv, LiveShared, Booked, CommittedLive, AtMostOneLive, LiveAt, Early, Clear,
         MintedSteps

\* What one process does to the credentials and the record of a key it holds leaves
\* the others as they were.
LEMMA LiveOthers ==
    ASSUME TypeInv, Ownership, LiveInv, NEW p \in Procs, NEW q \in Procs, q # p,
           pc'[q] = pc[q], call'[q] = call[q], role'[q] = role[q], cred'[q] = cred[q],
           \/ UNCHANGED <<live, committed>>
           \/ /\ Holding(p, call[p].key) /\ pc[p] \notin {"idle", "dead"}
              /\ \A c \in live \cup live' : c.key # call[p].key => (c \in live <=> c \in live')
              /\ \A k \in Keys : k # call[p].key => committed'[k] = committed[k]
              /\ live' \subseteq Credential
    PROVE  LiveAt(q)'
<1>1. LiveAt(q)
  BY DEF LiveInv
<1>2. CASE UNCHANGED <<live, committed>>
  BY <1>1, <1>2 DEF LiveAt, Early, Clear
<1>3. CASE ~UNCHANGED <<live, committed>>
  <2> DEFINE k == call[q].key
  <2>1. CASE ~(Early(q) \/ Clear(q) \/ pc[q] \in MintedSteps)
    BY <2>1 DEF LiveAt, Early, Clear, MintedSteps
  <2>2. CASE Early(q) \/ Clear(q) \/ pc[q] \in MintedSteps
    <3>1. Holding(q, k) /\ k \in Keys
      BY <2>2, RequestFields
         DEF Early, Clear, Holding, ClaimedSteps, MatchSteps, MintedSteps, TypeInv, CallShape
    <3>2. call[p].key \in Keys
      BY <1>3, RequestFields DEF TypeInv, CallShape
    <3>3. k # call[p].key
      BY <1>3, <3>1, <3>2 DEF Ownership
    <3>4. committed'[k] = committed[k] /\ \A c \in live \cup live' : c.key = k => (c \in live <=> c \in live')
      BY <1>3, <3>1, <3>3
    <3>5. pc[q] \in MintedSteps => cred[q] \in Credential /\ cred[q].key = k
      BY DEF TypeInv, CallShape
    <3> QED BY <1>1, <3>4, <3>5 DEF LiveAt, Early, Clear, MintedSteps
  <2> QED BY <2>1, <2>2
<1> QED
  BY <1>2, <1>3

\* A step of one process that leaves credentials, records and claims alone.
LEMMA LiveQuiet ==
    ASSUME TypeInv, Ownership, LiveInv, NEW p \in Procs, UNCHANGED <<live, committed, pending>>,
           \A q \in Procs \ {p} :
              pc'[q] = pc[q] /\ call'[q] = call[q] /\ role'[q] = role[q] /\ cred'[q] = cred[q],
           LiveAt(p)'
    PROVE  LiveInv'
<1>1. \A q \in Procs : LiveAt(q)'
  BY LiveOthers
<1> QED
  BY <1>1 DEF LiveInv, LiveShared, Booked, CommittedLive, AtMostOneLive

\* A process that answers its call leaves no credential of its key unbooked.
LEMMA LiveDone ==
    ASSUME TypeInv, Ownership, LiveInv, NEW p \in Procs, NEW a, Done(p, a),
           UNCHANGED committed, call[p].key \in Keys, pc[p] \notin {"idle", "dead"},
           \/ UNCHANGED <<live, pending>>
           \/ /\ Holding(p, call[p].key)
              /\ live' \subseteq live
              /\ \A c \in live : c.key # call[p].key => c \in live'
              /\ \A k \in Keys : k # call[p].key => pending'[k] = pending[k]
              /\ \A k \in Keys : committed[k] # None => committed[k] \in live'
              /\ \/ pending'[call[p].key] = pending[call[p].key]
                 \/ \A c \in live' : c.key = call[p].key => committed[c.key] = c
    PROVE  LiveInv'
<1>1. \A q \in Procs \ {p} :
         pc'[q] = pc[q] /\ call'[q] = call[q] /\ role'[q] = role[q] /\ cred'[q] = cred[q]
  BY DEF TypeInv, LocalTypes, Done, Goto
<1>2. LiveAt(p)'
  BY DEF TypeInv, LocalTypes, Done, Goto, LiveAt, Early, Clear, MintedSteps
<1>3. live \subseteq Credential /\ \A c \in Credential : c.key \in Keys
  BY CredentialFields DEF TypeInv, DiskTypes
<1>4. \A q \in Procs \ {p} : LiveAt(q)'
  BY <1>1, <1>3, LiveOthers
<1>5. LiveShared'
  BY <1>3 DEF LiveInv, LiveShared, Booked, CommittedLive, AtMostOneLive
<1> QED
  BY <1>2, <1>4, <1>5 DEF LiveInv

\* Every action leaves the credentials booked.
LEMMA LiveInvStep == TypeInv /\ Ownership /\ Numbered /\ LedgerInv /\ LiveInv /\ [Next]_vars => LiveInv'
<1> SUFFICES ASSUME TypeInv, Ownership, Numbered, LedgerInv, LiveInv, [Next]_vars PROVE LiveInv'
  OBVIOUS
<1>0. /\ pc \in [Procs -> Steps] /\ role \in [Procs -> Roles] /\ DOMAIN cred = Procs /\ DOMAIN call = Procs
      /\ live \subseteq Credential /\ DOMAIN committed = Keys /\ DOMAIN pending = Keys
      /\ \A c \in Credential : c.key \in Keys /\ c # None
  BY CredentialFields DEF TypeInv, LocalTypes, DiskTypes
<1>1. ASSUME NEW p \in Procs, NEW request \in Requests, Start(p, request) PROVE LiveInv'
  <2>1. LiveAt(p)'
    BY <1>0, <1>1 DEF Start, Goto, LiveAt, Early, Clear, MintedSteps
  <2> QED BY <1>0, <1>1, <2>1, LiveQuiet DEF Start, Goto, disk, provider
<1>2. ASSUME NEW p \in Procs, CallStep(p) PROVE LiveInv'
  <2> DEFINE k == call[p].key
  <2>0. pc[p] \notin {"idle", "dead"} => k \in Keys
    BY RequestFields DEF TypeInv, CallShape
  <2>a. LiveAt(p) /\ LiveShared
    BY DEF LiveInv
  <2>b. ASSUME NEW step, Goto(p, step), Stay, UNCHANGED <<live, committed, pending>>, LiveAt(p)'
        PROVE  LiveInv'
    BY <1>0, <2>b, LiveQuiet DEF Goto, Stay
  <2>c. ASSUME NEW a, Done(p, a), UNCHANGED <<live, committed, pending>>, pc[p] \notin {"idle", "dead"}
        PROVE  LiveInv'
    BY <2>0, <2>c, LiveDone
  <2>d. ASSUME Early(p) \/ Clear(p) \/ pc[p] \in MintedSteps
        PROVE  Holding(p, k) /\ k \in Keys
    BY <2>0, <2>d DEF Early, Clear, Holding, MatchSteps, ClaimedSteps, MintedSteps
  <2>e. ASSUME NEW a, Done(p, a), ReleaseClaim(k), UNCHANGED <<live, committed>>, Early(p) \/ Clear(p)
        PROVE  LiveInv'
    <3>1. Holding(p, k) /\ k \in Keys /\ pc[p] \notin {"idle", "dead"}
      BY <2>d, <2>e DEF Early, Clear
    <3>2. \A c \in live : c.key = k => committed[c.key] = c
      BY <2>a, <2>e DEF LiveAt
    <3>3. \A l \in Keys : committed[l] # None => committed[l] \in live
      BY <2>a DEF LiveShared, CommittedLive
    <3>4. \A l \in Keys : l # k => pending'[l] = pending[l]
      BY <2>e, <1>0 DEF ReleaseClaim
    <3> HIDE DEF k
    <3> QED BY <2>e, <3>1, <3>2, <3>3, <3>4, LiveDone DEF k
  <2>f. ASSUME NEW a, Leave(p, a), UNCHANGED <<live, committed>>, pc[p] \in MatchSteps
        PROVE  LiveInv'
    BY <2>c, <2>e, <2>f DEF Leave, MatchSteps, Early, Clear
  <2>1. CASE CheckPending(p)
    <3>1. CASE Goto(p, "recheck") /\ Stay
      BY <1>0, <3>1, <2>1, <2>b
         DEF CheckPending, Goto, Stay, LiveAt, Early, Clear, MintedSteps, Ownership, disk, provider
    <3> QED BY <2>1, <3>1, <2>c DEF CheckPending, disk, provider
  <2>2. CASE Recheck(p)
    <3>1. CASE committed[k] = None /\ Goto(p, "repair") /\ Stay /\ UNCHANGED pending
      <4>1. Goto(p, "repair") /\ Stay /\ UNCHANGED <<pending, committed, live>> /\ pc[p] = "recheck"
        BY <2>2, <3>1 DEF Recheck, provider
      <4>2. role[p] = "holding" => \A c \in live : c.key # k
        BY <1>0, <2>a, <3>1, <4>1 DEF LiveAt, Early
      <4>3. LiveAt(p)'
        BY <1>0, <4>1, <4>2 DEF LiveAt, Early, Clear, Goto, Stay, MintedSteps
      <4> QED BY <4>1, <4>3, <2>b
    <3> QED BY <2>2, <3>1, <2>f DEF Recheck, MatchSteps, provider
  <2>3. CASE Repair(p)
    <3>1. LiveAt(p)'
      BY <1>0, <2>a, <2>3 DEF Repair, Goto, Stay, LiveAt, Early, Clear, MintedSteps, provider
    <3> QED BY <2>3, <3>1, <2>b DEF Repair, provider
  <2>4. CASE LockTimeout(p)
    <3>1. CASE pc[p] = "lock"
      <4>1. LiveAt(p)'
        BY <1>0, <2>a, <2>4, <3>1 DEF LockTimeout, Goto, Stay, LiveAt, Early, Clear, MintedSteps, provider
      <4> QED BY <2>4, <3>1, <4>1, <2>b DEF LockTimeout, provider
    <3> QED BY <2>4, <3>1, <2>f DEF LockTimeout, MatchSteps, provider
  <2>5. CASE Scan(p)
    <3>1. ASSUME NEW a, Leave(p, a) PROVE LiveInv'
      BY <2>5, <3>1, <2>f DEF Scan, MatchSteps, provider
    <3>2. CASE NoMatch(p) /\ UNCHANGED pending
      <4>1. UNCHANGED <<live, committed, pending>> /\ pc[p] = "scan" /\ role[p] \in Roles
        BY <1>0, <2>5, <3>2 DEF Scan, provider
      <4>2. CASE role[p] = "before"
        <5>1. Goto(p, "claim") /\ Stay
          BY <3>2, <4>2 DEF NoMatch
        <5>2. LiveAt(p)'
          BY <1>0, <5>1 DEF Goto, LiveAt, Early, Clear, MintedSteps
        <5> QED BY <4>1, <5>1, <5>2, <2>b
      <4>3. CASE role[p] = "raced"
        <5>1. Done(p, Failed)
          BY <3>2, <4>3 DEF NoMatch
        <5> QED BY <4>1, <5>1, <2>c
      <4>4. CASE role[p] = "holding"
        <5>1. Goto(p, "create") /\ Stay
          BY <3>2, <4>4 DEF NoMatch
        <5>2. LiveAt(p)'
          BY <1>0, <2>a, <4>1, <4>4, <5>1 DEF Goto, Stay, LiveAt, Early, Clear, MintedSteps
        <5> QED BY <4>1, <5>1, <5>2, <2>b
      <4> QED BY <4>1, <4>2, <4>3, <4>4 DEF Roles
    <3>3. (\E a : Leave(p, a)) \/ (NoMatch(p) /\ UNCHANGED pending)
      BY <2>5 DEF Scan
    <3> QED BY <3>1, <3>2, <3>3
  <2>6. CASE Claim(p)
    <3>1. CASE pending[k] # None
      <4>1. /\ UNCHANGED <<live, committed, pending, cred, call>> /\ pc[p] = "claim"
            /\ role' = [role EXCEPT ![p] = "raced"] /\ Goto(p, "recheck")
        BY <2>6, <3>1 DEF Claim, provider
      <4>2. LiveAt(p)'
        BY <1>0, <4>1 DEF Goto, LiveAt, Early, Clear, MintedSteps
      <4> QED BY <1>0, <4>1, <4>2, LiveQuiet DEF Goto
    <3>2. CASE pending[k] = None /\ Done(p, Failed)
      <4> DEFINE claim == [owner |-> p, input |-> call[p].input]
      <4>1. UNCHANGED <<live, committed>> /\ pending' \in {pending, [pending EXCEPT ![k] = claim]}
        BY <2>6, <3>2 DEF Claim, provider
      <4>2. k \in Keys /\ claim # None /\ pc[p] = "claim"
        BY <2>0, <2>6, NoneIsNothing, RequestFields DEF Claim, TypeInv, CallShape
      <4>3. LiveAt(p)'
        BY <1>0, <3>2 DEF Done, Goto, LiveAt, Early, Clear, MintedSteps
      <4>4. \A q \in Procs \ {p} : LiveAt(q)'
        BY <1>0, <3>2, <4>1, LiveOthers DEF Done, Goto
      <4> HIDE DEF claim
      <4>5. LiveShared'
        BY <1>0, <2>a, <4>1, <4>2 DEF LiveShared, Booked, CommittedLive, AtMostOneLive
      <4> QED BY <4>3, <4>4, <4>5 DEF LiveInv
    <3>3. CASE pending[k] = None /\ ~Done(p, Failed)
      <4> DEFINE claim == [owner |-> p, input |-> call[p].input]
      <4>1. /\ UNCHANGED <<live, committed, cred, call, role>> /\ pc[p] = "claim"
            /\ pending' = [pending EXCEPT ![k] = claim] /\ Goto(p, "syncClaim")
        BY <2>6, <3>3 DEF Claim, Stay, provider
      <4>2. k \in Keys /\ claim # None
        BY <2>0, <4>1, NoneIsNothing, RequestFields DEF TypeInv, CallShape
      <4>3. \A c \in live : c.key = k => committed[c.key] = c
        BY <2>a, <3>3 DEF LiveShared, Booked
      <4>4. LiveAt(p)'
        BY <1>0, <4>1, <4>3 DEF Goto, LiveAt, Early, Clear, MintedSteps
      <4>5. \A q \in Procs \ {p} : LiveAt(q)'
        BY <1>0, <4>1, LiveOthers DEF Goto
      <4> HIDE DEF claim
      <4>6. LiveShared'
        BY <1>0, <2>a, <4>1, <4>2 DEF LiveShared, Booked, CommittedLive, AtMostOneLive
      <4> QED BY <4>4, <4>5, <4>6 DEF LiveInv
    <3> QED BY <3>1, <3>2, <3>3
  <2>7. CASE SyncClaim(p)
    <3>1. CASE ReleaseClaim(k) /\ Done(p, Failed)
      BY <2>7, <3>1, <2>e DEF SyncClaim, Early, provider
    <3>2. CASE ~(ReleaseClaim(k) /\ Done(p, Failed))
      <4>1. /\ UNCHANGED <<live, committed, pending, cred, call>> /\ pc[p] = "syncClaim"
            /\ role' = [role EXCEPT ![p] = "holding"] /\ Goto(p, "recheck")
        BY <2>7, <3>2 DEF SyncClaim, provider
      <4>2. LiveAt(p)'
        BY <1>0, <2>a, <4>1 DEF Goto, LiveAt, Early, Clear, MintedSteps
      <4> QED BY <1>0, <4>1, <4>2, LiveQuiet DEF Goto
    <3> QED BY <3>1, <3>2
  <2>8. CASE CreateMints(p)
    <3>2. pc[p] = "create" /\ live' = live \cup {Fresh(p)} /\ UNCHANGED <<committed, pending>>
      BY <2>8 DEF CreateMints, disk
    <3>3. Holding(p, k) /\ k \in Keys /\ \A c \in live : c.key # k
      BY <2>a, <2>d, <3>2 DEF LiveAt, Clear
    <3>4. Fresh(p) \in Credential /\ Fresh(p).key = k
      BY <2>8, <3>3, CredentialMade, RequestFields
         DEF CreateMints, Fresh, TypeInv, DiskTypes, CallShape
    <3>5. /\ \A q \in Procs \ {p} :
                pc'[q] = pc[q] /\ call'[q] = call[q] /\ role'[q] = role[q] /\ cred'[q] = cred[q]
          /\ call' = call
          /\ \/ pc'[p] = "idle"
             \/ pc'[p] \in {"made", "recover"} /\ cred'[p] = Fresh(p)
      BY <1>0, <2>8 DEF CreateMints, Done, Goto
    <3>6. LiveAt(p)'
      BY <3>2, <3>3, <3>4, <3>5 DEF LiveAt, Early, Clear, MintedSteps
    <3>7. ASSUME NEW q \in Procs, q # p PROVE LiveAt(q)'
      <4>1. \A c \in live \cup live' : c.key # k => (c \in live <=> c \in live')
        BY <3>2, <3>4
      <4> QED BY <1>0, <3>2, <3>3, <3>4, <3>5, <3>7, <4>1, LiveOthers
    <3>8. LiveShared'
      <4>1. Booked'
        BY <2>a, <3>2, <3>3, <3>4 DEF LiveShared, Booked, Ownership
      <4> QED BY <2>a, <3>2, <3>3, <3>4, <4>1 DEF LiveShared, CommittedLive, AtMostOneLive
    <3> QED BY <3>6, <3>7, <3>8 DEF LiveInv
  <2>9. CASE CreateFails(p)
    BY <2>9, <2>e DEF CreateFails, Clear, provider
  <2>10. CASE Project(p) \/ OpenLedger(p) \/ WriteLine(p) \/ SyncLine(p)
    <3>1. /\ UNCHANGED <<live, committed, pending, cred, call, role>>
          /\ pc[p] \in {"made", "lock", "write", "sync"}
          /\ \E step \in {"lock", "write", "sync", "rollback", "index", "recover"} : Goto(p, step)
      BY <2>10 DEF Project, OpenLedger, WriteLine, SyncLine, Stay, disk, provider
    <3>2. LiveAt(p)'
      BY <1>0, <2>a, <3>1 DEF Goto, LiveAt, Early, Clear, MintedSteps
    <3> QED BY <1>0, <3>1, <3>2, LiveQuiet DEF Goto
  <2>14. CASE Rollback(p)
    <3>1. UNCHANGED <<live, committed, pending>> /\ pc[p] = "rollback"
      BY <2>14 DEF Rollback, provider
    <3>2. CASE Done(p, Failed)
      BY <3>1, <3>2, <2>c
    <3>3. CASE Goto(p, "recover") /\ Stay
      <4>1. LiveAt(p)'
        BY <1>0, <2>a, <3>1, <3>3 DEF Goto, Stay, LiveAt, Early, Clear, MintedSteps
      <4> QED BY <3>1, <3>3, <4>1, <2>b
    <3> QED BY <2>14, <3>2, <3>3 DEF Rollback
  <2>15. CASE Recover(p)
    <3>1. pc[p] = "recover" /\ Done(p, Failed) /\ UNCHANGED committed /\ live' \in {live, live \ {cred[p]}}
      BY <2>15 DEF Recover
    <3>2. Holding(p, k) /\ k \in Keys /\ cred[p].key = k /\ \A c \in live : c.key = k => c = cred[p]
      BY <2>a, <2>d, <3>1 DEF LiveAt, MintedSteps, TypeInv, CallShape
    <3>3. \A l \in Keys : committed[l] # None => committed[l] \in live /\ committed[l] # cred[p]
      BY <2>a, <3>1 DEF LiveShared, CommittedLive, LedgerInv, LedgerShared, LedgerAt
    <3>4. /\ \A l \in Keys : l # k => pending'[l] = pending[l]
          /\ pending'[k] = pending[k] \/ live' = live \ {cred[p]}
      BY <1>0, <2>15 DEF Recover, ReleaseClaim
    <3>5. \/ pending'[k] = pending[k]
          \/ \A c \in live' : c.key = k => committed[c.key] = c
      BY <3>1, <3>2, <3>4
    <3>6. live' \subseteq live /\ (\A c \in live : c.key # k => c \in live')
          /\ \A l \in Keys : committed[l] # None => committed[l] \in live'
      BY <3>1, <3>2, <3>3
    <3> HIDE DEF k
    <3> QED BY <3>1, <3>2, <3>4, <3>5, <3>6, LiveDone DEF k
  <2>16. CASE CommitRecord(p)
    <3>1. pc[p] = "index" /\ UNCHANGED <<live, pending>>
      BY <2>16 DEF CommitRecord, provider
    <3>2. CASE Done(p, Failed) /\ UNCHANGED committed
      BY <3>1, <3>2, <2>c
    <3>3. CASE ~(Done(p, Failed) /\ UNCHANGED committed)
      <4>1. /\ committed' = [committed EXCEPT ![k] = cred[p]]
            /\ Goto(p, "syncIndex") /\ UNCHANGED <<call, role, cred>>
        BY <2>16, <3>3 DEF CommitRecord, Stay
      <4>2. /\ Holding(p, k) /\ k \in Keys /\ cred[p].key = k /\ cred[p] \in live
            /\ \A c \in live : c.key = k => c = cred[p]
        BY <2>a, <2>d, <3>1 DEF LiveAt, MintedSteps, TypeInv, CallShape
      <4>3. LiveAt(p)'
        BY <1>0, <3>1, <4>1, <4>2 DEF Goto, LiveAt, Early, Clear, MintedSteps
      <4>4. ASSUME NEW q \in Procs, q # p PROVE LiveAt(q)'
        BY <1>0, <3>1, <4>1, <4>2, <4>4, LiveOthers DEF Goto
      <4>5. LiveShared'
        BY <1>0, <2>a, <3>1, <4>1, <4>2 DEF LiveShared, Booked, CommittedLive, AtMostOneLive
      <4> QED BY <4>3, <4>4, <4>5 DEF LiveInv
    <3> QED BY <3>2, <3>3
  <2>17. CASE SyncIndex(p)
    <3>1. UNCHANGED <<live, committed, pending>> /\ pc[p] = "syncIndex"
      BY <2>17 DEF SyncIndex, disk, provider
    <3>2. CASE Done(p, Failed)
      BY <3>1, <3>2, <2>c
    <3>3. CASE Goto(p, "release") /\ Stay
      <4>1. LiveAt(p)'
        BY <1>0, <2>a, <3>1, <3>3 DEF Goto, Stay, LiveAt, Early, Clear, MintedSteps
      <4> QED BY <3>1, <3>3, <4>1, <2>b
    <3> QED BY <2>17, <3>2, <3>3 DEF SyncIndex
  <2>18. CASE Release(p)
    <3> DEFINE a == [how |-> "fresh", cred |-> cred[p]]
    <3>1. pc[p] = "release" /\ Done(p, a) /\ UNCHANGED <<live, committed>> /\ ReleaseClaim(k)
      BY <2>18 DEF Release, provider
    <3>2. /\ Holding(p, k) /\ k \in Keys /\ committed[k] = cred[p]
          /\ \A c \in live : c.key = k => c = cred[p]
      BY <2>a, <2>d, <3>1 DEF LiveAt, MintedSteps
    <3>3. \A l \in Keys : committed[l] # None => committed[l] \in live
      BY <2>a DEF LiveShared, CommittedLive
    <3>4. \A l \in Keys : l # k => pending'[l] = pending[l]
      BY <1>0, <3>1 DEF ReleaseClaim
    <3>5. \A c \in live' : c.key = k => committed[c.key] = c
      BY <3>1, <3>2
    <3>6. live' \subseteq live /\ (\A c \in live : c.key # k => c \in live')
          /\ \A l \in Keys : committed[l] # None => committed[l] \in live'
      BY <3>1, <3>3
    <3>7. Done(p, a) /\ committed' = committed /\ pc[p] \notin {"idle", "dead"}
      BY <3>1
    <3> HIDE DEF k, a
    <3> QED BY <3>2, <3>4, <3>5, <3>6, <3>7, LiveDone DEF k
  <2> QED
    BY <1>2, <2>1, <2>2, <2>3, <2>4, <2>5, <2>6, <2>7, <2>8, <2>9, <2>10,
       <2>14, <2>15, <2>16, <2>17, <2>18 DEF CallStep, ClaimStep, StoreStep
<1>3. ASSUME NEW p \in Procs, Kill(p) \/ Restart(p) PROVE LiveInv'
  <2>1. UNCHANGED <<live, committed, pending>> /\ pc'[p] \in {"idle", "dead"}
    BY <1>0, <1>3 DEF Kill, Restart, Forgotten, Goto, disk, provider
  <2>2. \A q \in Procs \ {p} :
           pc'[q] = pc[q] /\ call'[q] = call[q] /\ role'[q] = role[q] /\ cred'[q] = cred[q]
    BY <1>0, <1>3 DEF Kill, Restart, Forgotten, Goto, Stay
  <2>3. LiveAt(p)'
    BY <2>1 DEF LiveAt, Early, Clear, MintedSteps
  <2> QED BY <2>1, <2>2, <2>3, LiveQuiet
<1>4. ASSUME NEW k \in Keys, Reconcile(k) PROVE LiveInv'
  <2>1. /\ \A p \in Procs : ~Holding(p, k)
        /\ live' = live \ {c \in live : c.key = k}
        /\ {c \in live : c.key = k} \cap synced = {}
        /\ pending' = [pending EXCEPT ![k] = None]
        /\ UNCHANGED <<committed, pc, call, role, cred>>
    BY <1>4 DEF Reconcile
  <2>2. LiveShared'
    BY <1>0, <2>1 DEF LiveInv, LiveShared, Booked, CommittedLive, AtMostOneLive, LedgerInv, LedgerShared
  <2>3. ASSUME NEW p \in Procs PROVE LiveAt(p)'
    <3>1. LiveAt(p)
      BY DEF LiveInv
    <3>2. pc[p] \in MintedSteps => call[p].key # k /\ cred[p].key = call[p].key
      BY <2>1 DEF Holding, ClaimedSteps, TypeInv, CallShape
    <3> QED BY <2>1, <3>1, <3>2 DEF LiveAt, Early, Clear
  <2> QED BY <2>2, <2>3 DEF LiveInv
<1>5. CASE PowerFailure
  <2>1. \A p \in Procs : pc'[p] = "dead"
    BY <1>5 DEF PowerFailure, Forgotten
  <2>2. \A p \in Procs : LiveAt(p)'
    BY <2>1 DEF LiveAt, Early, Clear, MintedSteps
  <2>3. live' = live
    BY <1>5 DEF PowerFailure, provider
  <2>4. \A k \in Keys : committed'[k] \in {None, committed[k]}
    BY <1>5 DEF PowerFailure
  <2>5. ASSUME NEW c \in live PROVE committed'[c.key] = c \/ pending'[c.key] # None
    <3> DEFINE k == c.key
    <3>0. k \in Keys /\ (committed[k] = c \/ pending[k] # None)
      BY <1>0 DEF LiveInv, LiveShared, Booked
    <3>1. CASE \E p \in Procs : pc[p] = "syncClaim" /\ call[p].key = k
      <4>1. PICK p \in Procs : pc[p] = "syncClaim" /\ call[p].key = k
        BY <3>1
      <4>2. committed[k] = c
        BY <4>1 DEF LiveInv, LiveAt, Early
      <4>3. ~\E q \in Procs : pc[q] = "syncIndex" /\ call[q].key = k
        BY <3>0, <4>1 DEF Ownership, Holding, ClaimedSteps, MintedSteps
      <4>4. committed'[k] = committed[k]
        BY <1>5, <3>0, <4>3 DEF PowerFailure
      <4> QED BY <4>2, <4>4
    <3>2. CASE ~\E p \in Procs : pc[p] = "syncClaim" /\ call[p].key = k
      <4>1. pending'[k] = pending[k]
        BY <1>5, <3>0, <3>2 DEF PowerFailure
      <4>2. CASE \E q \in Procs : pc[q] = "syncIndex" /\ call[q].key = k
        BY <3>0, <4>1, <4>2 DEF Ownership, Holding, ClaimedSteps, MintedSteps
      <4>3. CASE ~\E q \in Procs : pc[q] = "syncIndex" /\ call[q].key = k
        <5>1. committed'[k] = committed[k]
          BY <1>5, <3>0, <4>3 DEF PowerFailure
        <5> QED BY <3>0, <4>1, <5>1
      <4> QED BY <4>2, <4>3
    <3> QED BY <3>1, <3>2
  <2>6. LiveShared'
    BY <2>3, <2>4, <2>5 DEF LiveInv, LiveShared, Booked, CommittedLive, AtMostOneLive
  <2> QED BY <2>2, <2>6 DEF LiveInv
<1>6. CASE UNCHANGED vars
  BY <1>6 DEF vars, LiveInv, LiveShared, LiveAt, Early, Clear, Booked, CommittedLive, AtMostOneLive
<1> QED
  BY <1>1, <1>2, <1>3, <1>4, <1>5, <1>6 DEF Next

-----------------------------------------------------------------------------
(* The properties. *)

IInv == TypeInv /\ Ownership /\ Numbered /\ LedgerInv /\ LiveInv

\* The layers together are inductive.
THEOREM Inductive == Spec => []IInv
<1>1. Init => IInv
  BY TypeInvInit, OwnershipInit, NumberedInit, LedgerInvInit, LiveInvInit DEF IInv
<1>2. IInv /\ [Next]_vars => IInv'
  BY TypeInvStep, OwnershipStep, NumberedStep, LedgerInvStep, LiveInvStep DEF IInv
<1> QED
  BY <1>1, <1>2, PTL DEF Spec

\* The type invariant of the runs.
THEOREM TypeCorrect == Spec => []TypeOK
<1>1. IInv => TypeOK
  BY DEF IInv, TypeInv, LocalTypes, DiskTypes, LedgerInv, LedgerShared, TypeOK
<1> QED
  BY <1>1, Inductive, PTL

\* However many processes race for a claim, fail, die or lose power, an idempotency
\* key never has two live credentials.
THEOREM OneLive == Spec => []AtMostOneLive
<1>1. IInv => AtMostOneLive
  BY DEF IInv, LiveInv, LiveShared
<1> QED
  BY <1>1, Inductive, PTL

\* A live credential always has a pending claim or a committed record with a durable
\* secret.
THEOREM Accounted == Spec => []LiveIsAccounted
<1>1. IInv => LiveIsAccounted
  <2> SUFFICES ASSUME IInv, NEW c \in live
               PROVE  pending[c.key] # None \/ (c \in synced /\ committed[c.key] = c)
    BY DEF LiveIsAccounted
  <2>1. c.key \in Keys /\ c # None
    BY CredentialFields DEF IInv, TypeInv, DiskTypes
  <2> QED
    BY <2>1 DEF IInv, LiveInv, LiveShared, Booked, LedgerInv, LedgerShared
<1> QED
  BY <1>1, Inductive, PTL

\* A durable record is never taken out of the ledger again.
THEOREM RecordsStay == Spec => DurableRecordsStay
<1>1. IInv /\ IInv' /\ [Next]_vars => [synced \subseteq synced' /\ synced' \subseteq ledger']_vars
  <2> SUFFICES ASSUME IInv, IInv', [Next]_vars
               PROVE  synced \subseteq synced' /\ synced' \subseteq ledger'
    OBVIOUS
  <2>1. synced' \subseteq ledger'
    BY DEF IInv, LedgerInv, LedgerShared
  <2>2. CASE synced' = synced
    BY <2>1, <2>2
  <2>3. CASE \E p \in Procs : SyncLine(p)
    BY <2>1, <2>3 DEF SyncLine, IInv, LedgerInv, LedgerShared
  <2>4. CASE \E p \in Procs : Rollback(p)
    BY <2>1, <2>4 DEF Rollback, Truncate, IInv, LedgerInv, LedgerAt
  <2>5. \/ synced' = synced
        \/ \E p \in Procs : SyncLine(p) \/ Rollback(p)
    BY DEF Next, CallStep, ClaimStep, StoreStep, Start, CheckPending, Recheck, Repair, LockTimeout,
           Scan, Claim, SyncClaim, CreateMints, CreateFails, Project, OpenLedger, WriteLine, Recover,
           CommitRecord, SyncIndex, Release, Kill, Restart, Reconcile, PowerFailure, vars, disk
  <2> QED
    BY <2>1, <2>2, <2>3, <2>4, <2>5
<1> QED
  BY <1>1, Inductive, PTL DEF Spec, DurableRecordsStay

\* A credential that is stored is never revoked, and a record never stops being durable.
LEMMA StoredStays ==
    ASSUME IInv, [Next]_vars
    PROVE  /\ synced \subseteq synced'
           /\ synced \cap live \subseteq live'
<1>1. CASE \E p \in Procs : Recover(p)
  BY <1>1 DEF Recover, IInv, LedgerInv, LedgerShared, LedgerAt
<1>2. CASE \E k \in Keys : Reconcile(k)
  BY <1>2 DEF Reconcile
<1>3. CASE \E p \in Procs : SyncLine(p)
  BY <1>3 DEF SyncLine, provider, IInv, LedgerInv, LedgerShared
<1>4. CASE \E p \in Procs : Rollback(p)
  BY <1>4 DEF Rollback, Truncate, provider, IInv, LedgerInv, LedgerAt
<1>5. CASE \E p \in Procs : CreateMints(p)
  BY <1>5 DEF CreateMints, disk
<1>6. \/ UNCHANGED <<live, synced>>
      \/ \E p \in Procs : SyncLine(p) \/ Rollback(p) \/ Recover(p) \/ CreateMints(p)
      \/ \E k \in Keys : Reconcile(k)
  BY DEF Next, CallStep, ClaimStep, StoreStep, Start, CheckPending, Recheck, Repair, LockTimeout,
         Scan, Claim, SyncClaim, CreateFails, Project, OpenLedger, WriteLine,
         CommitRecord, SyncIndex, Release, Kill, Restart, PowerFailure, vars, disk, provider
<1> QED
  BY <1>1, <1>2, <1>3, <1>4, <1>5, <1>6

\* The sink implements OneCredential: creating is minting, fsyncing the line is
\* storing, recovering and reconciling are revoking, and nothing else is visible.
THEOREM Refines == Spec => KeepsPromise
<1>1. Init => Promise!Init
  BY DEF Init, Promise!Init
<1>2. IInv /\ [Next]_vars => [Promise!Next]_(Promise!vars)
  <2> SUFFICES ASSUME IInv, [Next]_vars PROVE [Promise!Next]_(Promise!vars)
    OBVIOUS
  <2>0. live \subseteq Credential
    BY DEF IInv, TypeInv, DiskTypes
  <2>1. ASSUME NEW p \in Procs, CreateMints(p) PROVE Promise!Next
    <3>1. pc[p] = "create" /\ live' = live \cup {Fresh(p)} /\ synced' = synced
      BY <2>1 DEF CreateMints, disk
    <3>2. Fresh(p) \in Credential /\ Fresh(p).key = call[p].key /\ call[p].key \in Keys
      BY <2>1, CredentialMade, RequestFields
         DEF CreateMints, Fresh, IInv, TypeInv, DiskTypes, CallShape
    <3>3. \A d \in live : d.key # Fresh(p).key
      BY <3>1, <3>2 DEF IInv, LiveInv, LiveAt, Clear
    <3>4. Fresh(p) \notin synced
      BY <2>1, <3>2 DEF CreateMints, Fresh, IInv, Numbered, Known, LedgerInv, LedgerShared,
                        TypeInv, DiskTypes
    <3>5. Promise!Mint(Fresh(p))
      BY <3>1, <3>3, <3>4 DEF Promise!Mint, CredentialKey
    <3> QED BY <3>2, <3>5 DEF Promise!Next
  <2>2. ASSUME NEW p \in Procs, SyncLine(p) PROVE Promise!Next \/ UNCHANGED Promise!vars
    <3>1. CASE synced' = synced
      BY <2>2, <3>1 DEF SyncLine, provider, Promise!vars
    <3>2. CASE synced' = ledger
      <4>1. Promise!Store(ledger \cap live)
        BY <2>2, <3>2 DEF SyncLine, provider, Promise!Store, IInv, LedgerInv, LedgerShared
      <4>2. ledger \cap live \in SUBSET live
        OBVIOUS
      <4> QED BY <4>1, <4>2 DEF Promise!Next
    <3> QED BY <2>2, <3>1, <3>2 DEF SyncLine
  <2>3. ASSUME NEW c \in live, c \notin synced, live' = live \ {c}, synced' = synced
        PROVE  Promise!Next
    BY <2>0, <2>3 DEF Promise!Next, Promise!Revoke
  <2>4. ASSUME UNCHANGED <<live, synced>> PROVE UNCHANGED Promise!vars
    BY <2>4 DEF Promise!vars
  <2>5. ASSUME NEW p \in Procs, Recover(p) PROVE Promise!Next \/ UNCHANGED Promise!vars
    <3>1. synced' = synced /\ live' \in {live, live \ {cred[p]}} /\ cred[p] \notin synced
      BY <2>5 DEF Recover, IInv, LedgerInv, LedgerShared, LedgerAt
    <3> QED BY <3>1, <2>3, <2>4
  <2>6. ASSUME NEW k \in Keys, Reconcile(k) PROVE Promise!Next \/ UNCHANGED Promise!vars
    <3>1. /\ synced' = synced /\ live' = live \ {c \in live : c.key = k}
          /\ {c \in live : c.key = k} \cap synced = {}
      BY <2>6 DEF Reconcile
    <3>2. CASE \E c \in live : c.key = k
      <4>1. PICK c \in live : c.key = k
        BY <3>2
      <4>2. {d \in live : d.key = k} = {c}
        BY <4>1 DEF IInv, LiveInv, LiveShared, AtMostOneLive
      <4> QED BY <3>1, <4>1, <4>2, <2>3
    <3>3. CASE ~\E c \in live : c.key = k
      BY <3>1, <3>3, <2>4
    <3> QED BY <3>2, <3>3
  <2>7. ASSUME NEW p \in Procs, Rollback(p) PROVE UNCHANGED Promise!vars
    <3>1. synced' = synced /\ live' = live
      BY <2>7 DEF Rollback, Truncate, provider, IInv, LedgerInv, LedgerAt
    <3> QED BY <3>1, <2>4
  <2>8. \/ UNCHANGED <<live, synced>>
        \/ \E p \in Procs : SyncLine(p) \/ Rollback(p) \/ Recover(p) \/ CreateMints(p)
        \/ \E k \in Keys : Reconcile(k)
    BY DEF Next, CallStep, ClaimStep, StoreStep, Start, CheckPending, Recheck, Repair, LockTimeout,
           Scan, Claim, SyncClaim, CreateFails, Project, OpenLedger, WriteLine,
           CommitRecord, SyncIndex, Release, Kill, Restart, PowerFailure, vars, disk, provider
  <2> QED
    BY <2>1, <2>2, <2>4, <2>5, <2>6, <2>7, <2>8
<1> QED
  BY <1>1, <1>2, Inductive, PTL DEF Spec, KeepsPromise, Promise!Spec

\* An answer from a fresh creation or a committed record names a live credential of
\* this very request whose secret is durable, for as long as the answer stands.
THEOREM AnswersStored == Spec => []AnswersAreStored
<1> DEFINE Sound(p) ==
      answer[p].how \in {"fresh", "replayed"} =>
         /\ answer[p].cred \in live \cap synced
         /\ answer[p].cred.key = call[p].key /\ answer[p].cred.input = call[p].input
<1>1. Init => AnswersAreStored
  BY DEF Init, AnswersAreStored, NoAnswer
<1>2. IInv /\ AnswersAreStored /\ [Next]_vars => AnswersAreStored'
  <2> SUFFICES ASSUME IInv, AnswersAreStored, [Next]_vars, NEW p \in Procs PROVE Sound(p)'
    BY DEF AnswersAreStored
  <2>0. /\ Sound(p) /\ DOMAIN answer = Procs /\ DOMAIN pc = Procs /\ DOMAIN call = Procs
        /\ synced \cap live \subseteq synced' \cap live'
    BY StoredStays DEF AnswersAreStored, IInv, TypeInv, LocalTypes
  <2>1. ASSUME answer'[p] = answer[p], call'[p] = call[p]
        PROVE  Sound(p)'
    BY <2>0, <2>1
  <2>2. ASSUME answer'[p].how \notin {"fresh", "replayed"} PROVE Sound(p)'
    BY <2>2
  <2>3. ASSUME NEW request \in Requests, Start(p, request) PROVE Sound(p)'
    <3> DEFINE record == committed[request.key]
    <3>1. CASE record = None
      BY <2>0, <2>2, <2>3, <3>1 DEF Start, NoAnswer
    <3>2. CASE record # None
      <4>1. /\ answer'[p] = Replay("replayed", record, request) /\ call'[p] = request
            /\ record.key = request.key /\ record \in live \cap synced
            /\ UNCHANGED <<live, synced>>
        BY <2>0, <2>3, <3>2, RequestFields
           DEF Start, disk, provider, IInv, TypeInv, RecordsUnderKey, LedgerInv, LedgerShared,
               LiveInv, LiveShared, CommittedLive
      <4>2. CASE record.input = request.input
        BY <4>1, <4>2 DEF Replay
      <4>3. CASE record.input # request.input
        BY <4>1, <4>3, <2>2 DEF Replay, Failed
      <4> QED BY <4>2, <4>3
    <3> QED BY <3>1, <3>2
  <2>4. ASSUME Recheck(p) PROVE Sound(p)'
    <3> DEFINE record == committed[call[p].key]
    <3>1. CASE Leave(p, Failed)
      BY <2>0, <2>2, <3>1 DEF Leave, Done, Failed
    <3>2. CASE record # None /\ ~Leave(p, Failed)
      <4>1. /\ answer'[p] = Replay("replayed", record, call[p]) /\ call' = call
            /\ record.key = call[p].key /\ record \in live \cap synced
            /\ UNCHANGED <<live, synced>>
        BY <2>0, <2>4, <3>2, RequestFields
           DEF Recheck, Leave, Done, provider, IInv, TypeInv, CallShape, RecordsUnderKey,
               LedgerInv, LedgerShared, LiveInv, LiveShared, CommittedLive
      <4>2. CASE record.input = call[p].input
        BY <4>1, <4>2 DEF Replay
      <4>3. CASE record.input # call[p].input
        BY <4>1, <4>3, <2>2 DEF Replay, Failed
      <4> QED BY <4>2, <4>3
    <3>3. CASE record = None /\ ~Leave(p, Failed)
      BY <2>0, <2>1, <2>4, <3>3 DEF Recheck, Goto, Stay
    <3> QED BY <3>1, <3>2, <3>3
  <2>5. ASSUME Release(p) PROVE Sound(p)'
    <3>1. /\ answer'[p] = [how |-> "fresh", cred |-> cred[p]] /\ call' = call
          /\ cred[p].key = call[p].key /\ cred[p].input = call[p].input
          /\ cred[p] \in live \cap synced
          /\ UNCHANGED <<live, synced>>
      BY <2>0, <2>5
         DEF Release, Done, provider, IInv, TypeInv, CallShape, MintedSteps, LedgerInv, LedgerAt,
             LiveInv, LiveAt
    <3> QED BY <3>1
  <2>6. ASSUME Done(p, Failed) PROVE Sound(p)'
    BY <2>0, <2>2, <2>6 DEF Done, Failed
  <2>7. ASSUME call' = call, answer' = answer PROVE Sound(p)'
    BY <2>1, <2>7
  <2>8. ASSUME Scan(p) PROVE Sound(p)'
    <3>1. CASE \E record \in ledger : Leave(p, Replay("scanned", record, call[p]))
      BY <2>0, <2>2, <3>1 DEF Leave, Done, Replay, Failed
    <3>2. CASE Leave(p, Failed)
      BY <2>6, <3>2 DEF Leave
    <3>3. CASE NoMatch(p)
      <4>1. role[p] \in Roles
        BY DEF IInv, TypeInv, LocalTypes
      <4>2. CASE role[p] = "raced"
        BY <2>6, <3>3, <4>2 DEF NoMatch
      <4>3. CASE role[p] \in {"before", "holding"}
        BY <2>7, <3>3, <4>3 DEF NoMatch, Stay
      <4> QED BY <4>1, <4>2, <4>3 DEF Roles
    <3> QED BY <2>8, <3>1, <3>2, <3>3 DEF Scan
  <2>9. ASSUME CallStep(p) PROVE Sound(p)'
    <3>1. \/ Recheck(p) \/ Release(p) \/ Scan(p)
          \/ Done(p, Failed)
          \/ (call' = call /\ answer' = answer)
      BY <2>9
         DEF CallStep, ClaimStep, StoreStep, CheckPending, Repair, LockTimeout, Leave, Claim, SyncClaim,
             CreateMints, CreateFails, Project, OpenLedger, WriteLine, SyncLine, Rollback, Recover,
             CommitRecord, SyncIndex, Stay
    <3> QED BY <2>4, <2>5, <2>6, <2>7, <2>8, <3>1
  <2>10. CASE Kill(p) \/ Restart(p)
    BY <2>0, <2>1, <2>2, <2>10 DEF Kill, Forgotten, Restart, Stay, NoAnswer
  <2>11. ASSUME NEW q \in Procs, q # p,
                (\E request \in Requests : Start(q, request)) \/ CallStep(q) \/ Kill(q) \/ Restart(q)
         PROVE  Sound(p)'
    <3>1. CASE CallStep(q)
      <4>1. (\E a : Done(q, a)) \/ UNCHANGED <<call, answer>>
        <5>1. CASE Scan(q)
          <6>1. role[q] \in Roles
            BY DEF IInv, TypeInv, LocalTypes
          <6>2. NoMatch(q) => (\E a : Done(q, a)) \/ UNCHANGED <<call, answer>>
            BY <6>1 DEF NoMatch, Roles, Stay
          <6> QED BY <5>1, <6>2 DEF Scan, Leave
        <5>2. CASE ClaimStep(q) /\ ~Scan(q)
          BY <5>2 DEF ClaimStep, CheckPending, Recheck, Repair, LockTimeout, Leave, Claim, SyncClaim, Stay
        <5>3. CASE StoreStep(q)
          BY <5>3 DEF StoreStep, CreateMints, CreateFails, Project, OpenLedger, WriteLine, SyncLine,
                      Rollback, Recover, CommitRecord, SyncIndex, Release, Stay
        <5> QED BY <3>1, <5>1, <5>2, <5>3 DEF CallStep
      <4>2. answer'[p] = answer[p] /\ call'[p] = call[p]
        BY <2>0, <2>11, <4>1 DEF Done
      <4> QED BY <2>1, <4>2
    <3>2. CASE ~CallStep(q)
      BY <2>0, <2>1, <2>11, <3>2 DEF Start, Kill, Forgotten, Restart, Stay
    <3> QED BY <3>1, <3>2
  <2>12. CASE PowerFailure
    BY <2>2, <2>12 DEF PowerFailure, Forgotten, NoAnswer
  <2>13. CASE (\E k \in Keys : Reconcile(k)) \/ UNCHANGED vars
    BY <2>1, <2>13 DEF Reconcile, vars
  <2> QED
    BY <2>3, <2>9, <2>10, <2>11, <2>12, <2>13 DEF Next
<1> QED
  BY <1>1, <1>2, Inductive, PTL DEF Spec
====
