---- MODULE AppendLock_proofs ----
(***************************************************************************)
(* The append lock excludes for any number of processes while at most one  *)
(* lock file is left behind, by a process that dies or by one that cannot  *)
(* remove it.  The run with two faults shows that the bound is sharp.      *)
(***************************************************************************)
EXTENDS AppendLock, TLAPS

\* Who has the right to a lock file: from its creation to its release.
Holds(p, f) ==
    IF f = "append"
    THEN pc[p] \in AppendSteps \/ (pc[p] \in {"payload", "release"} /\ at[p] = "append")
    ELSE \/ pc[p] \in {"payload", "release"} /\ at[p] = "reclaim"
         \/ pc[p] \in {"look", "confirm", "unlink"} /\ at[p] = "append"

Owned(p, f) == file[f] \in LockFile /\ file[f].owner = p

Dead(f) == file[f] \in LockFile /\ pc[file[f].owner] = "dead"

\* The reclaim lock excludes, and nobody takes it for stale.
ReclaimExcludes ==
    \A p \in Procs :
        /\ Holds(p, "reclaim") => Owned(p, "reclaim")
        /\ ~(pc[p] \in {"confirm", "unlink"} /\ at[p] = "reclaim")

\* The append lock excludes.  The reclaim lock need not: it does until a process
\* dies, and as long as the append lock is that process's.
LockInv ==
    /\ \A p \in Procs : Holds(p, "append") => Owned(p, "append")
    /\ (\A p \in Procs : pc[p] # "dead") \/ Dead("append") => ReclaimExcludes
    /\ ~(Dead("append") /\ Dead("reclaim"))
    /\ \A p \in Procs : pc[p] = "unlink" /\ at[p] = "append" => Dead("append")
    /\ \A p \in Procs : pc[p] = "dead" => faults # 0
    /\ faults = 0 => \A f \in Files : file[f] # None => Holds(file[f].owner, f)

\* What is synced stays in the ledger under an appender that may still roll back.
LedgerInv ==
    /\ synced \subseteq lines
    /\ \A p \in Procs : pc[p] \in {"line", "sync", "rollback"} => synced \subseteq base[p]
    /\ \A p \in Procs : pc[p] = "sync" => p \in lines

-----------------------------------------------------------------------------
\* Creating, writing or removing a lock file leaves lock files.
LEMMA FileType ==
    ASSUME TypeOK, NEW p \in Procs
    PROVE  /\ \A written \in BOOLEAN :
                 [file EXCEPT ![at[p]] = [owner |-> p, written |-> written]]
                     \in [Files -> LockFile \cup {None}]
           /\ [file EXCEPT ![at[p]] = None] \in [Files -> LockFile \cup {None}]
<1>1. \A written \in BOOLEAN : [owner |-> p, written |-> written] \in LockFile
  BY DEF LockFile
<1>2. file \in [Files -> LockFile \cup {None}] /\ at[p] \in Files
  BY DEF TypeOK
<1> QED BY <1>1, <1>2

\* The initial state has no files and no crashes.
LEMMA InitTypeOK == Init => TypeOK
  BY FaultsAreCounted DEF Init, TypeOK, Files, Steps, AppendSteps

\* Every step keeps the types.
LEMMA TypeStep == TypeOK /\ [Next]_vars => TypeOK'
<1> SUFFICES ASSUME TypeOK, [Next]_vars PROVE TypeOK'
  OBVIOUS
<1>0. file \in [Files -> LockFile \cup {None}] /\ faults \in 0..MaxFaults
  BY DEF TypeOK
<1> USE DEF AppendSteps, Steps
<1>1. CASE UNCHANGED vars
  BY <1>1 DEF vars, ledgerVars, TypeOK
<1>2. ASSUME NEW p \in Procs, LockStep(p) \/ AppendStep(p) \/ Crash(p) PROVE TypeOK'
  <2>1. CASE Start(p)
    BY <2>1 DEF Start, Goto, ledgerVars, TypeOK, Files
  <2>2. CASE Create(p)
    <3>1. file' \in [Files -> LockFile \cup {None}]
      BY <1>0, <2>2, FileType DEF Create
    <3> QED BY <2>2, <3>1 DEF Create, Goto, ledgerVars, TypeOK, Files
  <2>3. CASE CreateFails(p)
    BY <2>3 DEF CreateFails, Failed, Goto, ledgerVars, TypeOK, Files
  <2>4. CASE WritePayload(p)
    BY <2>4 DEF WritePayload, Goto, ledgerVars, LockFile, TypeOK, Files
  <2>5. CASE WriteFails(p)
    <3>1. file' \in [Files -> LockFile \cup {None}]
      BY <1>0, <2>5, FileType DEF WriteFails, Remove
    <3>2. faults' \in 0..MaxFaults
      BY <1>0, <2>5, FaultsAreCounted DEF WriteFails, Remove, Leave
    <3> QED BY <2>5, <3>1, <3>2 DEF WriteFails, Failed, Goto, ledgerVars, TypeOK, Files
  <2>6. CASE Look(p)
    BY <2>6 DEF Look, Stale, NotReclaimed, Goto, ledgerVars, TypeOK, Files
  <2>7. CASE Confirm(p)
    BY <2>7 DEF Confirm, Stale, NotReclaimed, Goto, ledgerVars, TypeOK, Files
  <2>8. CASE Unlink(p)
    BY <2>8 DEF Unlink, Remove, NotReclaimed, Goto, ledgerVars, TypeOK, Files
  <2>9. CASE Release(p)
    BY <2>9, FaultsAreCounted DEF Release, Remove, Leave, Failed, Goto, ledgerVars, TypeOK, Files
  <2>10. CASE OpenLedger(p)
    BY <2>10 DEF OpenLedger, Goto, TypeOK, Files
  <2>11. CASE WriteLine(p)
    BY <2>11 DEF WriteLine, Goto, TypeOK, Files
  <2>12. CASE SyncLine(p)
    BY <2>12 DEF SyncLine, Goto, TypeOK, Files
  <2>13. CASE Rollback(p)
    BY <2>13 DEF Rollback, Goto, TypeOK, Files
  <2>14. CASE Crash(p)
    BY <2>14, FaultsAreCounted DEF Crash, Leave, Goto, ledgerVars, TypeOK, Files
  <2> QED
    BY <1>2, <2>1, <2>2, <2>3, <2>4, <2>5, <2>6, <2>7, <2>8, <2>9, <2>10, <2>11,
       <2>12, <2>13, <2>14 DEF LockStep, AppendStep
<1> QED BY <1>1, <1>2 DEF Next

\* The type invariant of the run, for any processes and any number of faults.
THEOREM TypeCorrect == Spec => []TypeOK
  BY InitTypeOK, TypeStep, PTL DEF Spec

-----------------------------------------------------------------------------
\* The initial state satisfies the invariants: no files, no lines.
LEMMA InitLockInv == Init => LockInv /\ LedgerInv
  BY DEF Init, LockInv, LedgerInv, Holds, Dead, ReclaimExcludes, AppendSteps, LockFile

\* While one fault at most may happen, every step keeps the invariant of the locks.
LEMMA LockStepInv ==
    ASSUME MaxFaults <= 1, TypeOK, LockInv, [Next]_vars
    PROVE  LockInv'
<1> USE DEF AppendSteps
<1>0. /\ file \in [Files -> LockFile \cup {None}] /\ pc \in [Procs -> Steps]
      /\ at \in [Procs -> Files] /\ faults \in 0..MaxFaults
      /\ \A p \in Procs : pc[p] \in AppendSteps => at[p] = "append"
  BY DEF TypeOK
<1>1. CASE UNCHANGED vars
  BY <1>1 DEF vars, LockInv, Holds, Owned, Dead, ReclaimExcludes
<1>3. Leave => faults = 0 /\ faults' = 1
  BY <1>0, FaultsAreCounted DEF Leave
<1>2. ASSUME NEW p \in Procs, LockStep(p) \/ AppendStep(p) \/ Crash(p) PROVE LockInv'
  <2> USE DEF LockInv, Holds, Owned, Dead, ReclaimExcludes, LockFile, Files
  <2>1. CASE Start(p)
    BY <1>0, <2>1 DEF Start, Goto
  <2>2. CASE Create(p)
    <3>1. CASE file[at[p]] # None
      BY <1>0, <2>2, <3>1 DEF Create, Goto
    <3>2. CASE file[at[p]] = None /\ at[p] = "append"
      <4>1. file' = [file EXCEPT !["append"] = [owner |-> p, written |-> FALSE]]
        BY <2>2, <3>2 DEF Create
      <4>2. pc' = [pc EXCEPT ![p] = "payload"] /\ at' = [at EXCEPT ![p] = "append"]
        BY <2>2, <3>2 DEF Create, Goto
      <4> QED BY <1>0, <2>2, <3>2, <4>1, <4>2, NoneIsNoFile DEF Create
    <3>3. CASE file[at[p]] = None /\ at[p] = "reclaim"
      <4>1. file' = [file EXCEPT !["reclaim"] = [owner |-> p, written |-> FALSE]]
        BY <2>2, <3>3 DEF Create
      <4>2. pc' = [pc EXCEPT ![p] = "payload"] /\ at' = [at EXCEPT ![p] = "reclaim"]
        BY <2>2, <3>3 DEF Create, Goto
      <4> QED BY <1>0, <2>2, <3>3, <4>1, <4>2, NoneIsNoFile DEF Create
    <3> QED BY <1>0, <3>1, <3>2, <3>3
  <2>3. CASE CreateFails(p)
    BY <1>0, <2>3 DEF CreateFails, Failed, Goto
  <2>4. CASE WritePayload(p)
    BY <1>0, <2>4 DEF WritePayload, Goto
  <2>5. CASE WriteFails(p)
    BY <1>0, <1>3, <2>5, NoneIsNoFile DEF WriteFails, Remove, Leave, Failed, Goto
  <2>6. CASE Look(p)
    BY <1>0, <2>6 DEF Look, Stale, NotReclaimed, Goto
  <2>7. CASE Confirm(p)
    BY <1>0, <2>7 DEF Confirm, Stale, NotReclaimed, Goto
  <2>8. CASE Unlink(p)
    BY <1>0, <2>8 DEF Unlink, Remove, NotReclaimed, Goto
  <2>9. CASE Release(p)
    BY <1>0, <1>3, <2>9, NoneIsNoFile DEF Release, Remove, Leave, Failed, Goto
  <2>10. CASE AppendStep(p)
    BY <1>0, <2>10 DEF AppendStep, OpenLedger, WriteLine, SyncLine, Rollback, Goto
  <2>11. CASE Crash(p)
    BY <1>0, <1>3, <2>11, NoneIsNoFile DEF Crash, Leave, Goto
  <2> QED
    BY <1>2, <2>1, <2>2, <2>3, <2>4, <2>5, <2>6, <2>7, <2>8, <2>9, <2>10, <2>11 DEF LockStep
<1> QED BY <1>1, <1>2 DEF Next

\* A single holder of the append lock is the only appender.
LEMMA OneHolder ==
    ASSUME LockInv
    PROVE  OneAppender
  BY DEF LockInv, OneAppender, Holds, Owned

\* Only an appender touches the ledger, so the others' synced lines stay below the
\* size it noted.
LEMMA LedgerStepInv ==
    ASSUME TypeOK, LockInv, LedgerInv, [Next]_vars
    PROVE  LedgerInv'
<1> USE DEF AppendSteps, Steps
<1>0. /\ pc \in [Procs -> Steps] /\ base \in [Procs -> SUBSET Procs] /\ OneAppender
  BY OneHolder DEF TypeOK
<1>1. CASE UNCHANGED vars
  BY <1>1 DEF vars, ledgerVars, LedgerInv
<1>2. ASSUME NEW p \in Procs, LockStep(p) \/ AppendStep(p) \/ Crash(p) PROVE LedgerInv'
  <2>1. CASE OpenLedger(p)
    BY <1>0, <2>1 DEF OpenLedger, Goto, LedgerInv, OneAppender
  <2>2. CASE WriteLine(p)
    BY <1>0, <2>2 DEF WriteLine, Goto, LedgerInv, OneAppender
  <2>3. CASE SyncLine(p)
    BY <1>0, <2>3 DEF SyncLine, Goto, LedgerInv, OneAppender
  <2>4. CASE Rollback(p)
    BY <1>0, <2>4 DEF Rollback, Goto, LedgerInv, OneAppender
  <2>5. CASE LockStep(p) \/ Crash(p)
    <3>1. UNCHANGED ledgerVars
      BY <2>5 DEF LockStep, Start, Create, CreateFails, WritePayload, WriteFails, Look,
                  Confirm, Unlink, Release, Crash
    <3>2. \A q \in Procs : pc'[q] \in {"line", "sync", "rollback"} => pc'[q] = pc[q]
      BY <1>0, <2>5 DEF LockStep, Start, Create, CreateFails, WritePayload, WriteFails, Look,
                  Confirm, Unlink, Release, Crash, Goto, Failed, NotReclaimed
    <3> QED BY <3>1, <3>2 DEF ledgerVars, LedgerInv
  <2> QED BY <1>2, <2>1, <2>2, <2>3, <2>4, <2>5 DEF AppendStep
<1> QED BY <1>1, <1>2 DEF Next

\* The invariants hold in every reachable state while one fault at most may happen.
THEOREM Inductive ==
    ASSUME MaxFaults <= 1
    PROVE  Spec => [](TypeOK /\ LockInv /\ LedgerInv)
<1>1. Init => TypeOK /\ LockInv /\ LedgerInv
  BY InitTypeOK, InitLockInv
<1>2. TypeOK /\ LockInv /\ LedgerInv /\ [Next]_vars => (TypeOK /\ LockInv /\ LedgerInv)'
  BY TypeStep, LockStepInv, LedgerStepInv
<1> QED BY <1>1, <1>2, PTL DEF Spec

\* The append lock excludes: one process at most appends or rolls back.
THEOREM Exclusive ==
    ASSUME MaxFaults <= 1
    PROVE  Spec => []OneAppender
<1>1. TypeOK /\ LockInv /\ LedgerInv => OneAppender
  BY OneHolder
<1> QED BY <1>1, Inductive, PTL

\* No fsynced line is truncated away.
THEOREM LinesStay ==
    ASSUME MaxFaults <= 1
    PROVE  Spec => []SyncedLinesStay
<1>1. TypeOK /\ LockInv /\ LedgerInv => SyncedLinesStay
  BY DEF LedgerInv, SyncedLinesStay
<1> QED BY <1>1, Inductive, PTL

\* A living owner's append lock is removed by nobody else.
THEOREM LiveLocksStay ==
    ASSUME MaxFaults <= 1
    PROVE  Spec => LiveLockStays
<1>1. TypeOK /\ LockInv /\ [Next]_vars => [KeepsLiveLock]_vars
  <2> SUFFICES ASSUME TypeOK, LockInv, NEW q \in Procs, LockStep(q) \/ AppendStep(q) \/ Crash(q)
               PROVE  KeepsLiveLock
    BY DEF Next
  <2> USE DEF AppendSteps, Steps, KeepsLiveLock
  <2>0. /\ file \in [Files -> LockFile \cup {None}] /\ pc \in [Procs -> Steps]
        /\ at \in [Procs -> Files]
    BY DEF TypeOK
  <2>1. CASE Create(q)
    BY <2>0, <2>1, NoneIsNoFile DEF Create, LockFile, Files
  <2>2. CASE WritePayload(q) \/ WriteFails(q) \/ Release(q)
    <3>1. CASE at[q] = "append"
      <4>1. Owned(q, "append") /\ pc'[q] # pc[q]
        BY <2>0, <2>2, <3>1 DEF LockInv, Holds, WritePayload, WriteFails, Release, Failed, Goto
      <4> QED BY <4>1 DEF Owned
    <3>2. CASE at[q] = "reclaim"
      BY <2>0, <2>2, <3>2 DEF WritePayload, WriteFails, Release, Remove, Files
    <3> QED BY <2>0, <3>1, <3>2 DEF Files
  <2>3. CASE Unlink(q)
    <3>1. CASE at[q] = "append"
      BY <2>3, <3>1 DEF LockInv, Dead, Unlink
    <3>2. CASE at[q] = "reclaim"
      BY <2>0, <2>3, <3>2 DEF Unlink, Remove, Files
    <3> QED BY <2>0, <3>1, <3>2 DEF Files
  <2>4. CASE UNCHANGED file
    BY <2>4
  <2> QED
    BY <2>1, <2>2, <2>3, <2>4 DEF LockStep, AppendStep, Start, CreateFails, Look, Confirm,
       OpenLedger, WriteLine, SyncLine, Rollback, Crash
<1>2. Spec => [][KeepsLiveLock]_vars
  BY <1>1, Inductive, PTL DEF Spec
<1> QED BY <1>2 DEF LiveLockStays

-----------------------------------------------------------------------------
\* A step of an appender is a step of its append, or leaves it where it is.
LEMMA AppendInTurn ==
    ASSUME TypeOK, LockInv, LedgerInv, NEW p \in Procs, AppendStep(p)
    PROVE  Ledger!Next \/ UNCHANGED Ledger!vars
<1> USE DEF AppendSteps, Steps
<1>0. pc \in [Procs -> Steps] /\ OneAppender /\ base \in [Procs -> SUBSET Procs]
  BY OneHolder DEF TypeOK
<1>1. \A step \in Steps : pc' = [pc EXCEPT ![p] = step] /\ pc[p] \in AppendSteps
          => Appending' = IF step \in {"line", "sync", "rollback"} THEN {p} ELSE {}
  BY <1>0 DEF Appending, OneAppender
<1>2. pc[p] \in {"line", "sync", "rollback"} => Appending = {p}
  BY <1>0 DEF Appending, OneAppender
<1>3. CASE OpenLedger(p)
  <2>1. Appending = {}
    BY <1>0, <1>3 DEF OpenLedger, Appending, OneAppender
  <2>2. CASE base' = [base EXCEPT ![p] = lines] /\ Goto(p, "line", "append")
    <3>1. Ledger!Open(p)
      BY <1>1, <1>3, <2>1, <2>2 DEF OpenLedger, Goto, Ledger!Open
    <3> QED
      BY <3>1 DEF Ledger!Next
  <2>3. CASE Goto(p, "release", "append") /\ UNCHANGED base
    BY <1>1, <1>3, <2>1, <2>3 DEF OpenLedger, Goto, Ledger!vars
  <2> QED
    BY <1>3, <2>2, <2>3 DEF OpenLedger
<1>4. CASE WriteLine(p)
  <2>1. Appending = {p} /\ Appending' = {p} /\ UNCHANGED <<synced, base>>
    BY <1>1, <1>2, <1>4 DEF WriteLine, Goto
  <2>2. CASE lines' = lines \cup {p}
    BY <2>1, <2>2 DEF Ledger!Write, Ledger!Next
  <2>3. CASE lines' = lines
    BY <2>1, <2>3 DEF Ledger!vars
  <2> QED
    BY <1>4, <2>2, <2>3 DEF WriteLine
<1>5. CASE SyncLine(p)
  <2>1. Appending = {p} /\ p \in lines /\ UNCHANGED <<lines, base>>
    BY <1>2, <1>5 DEF SyncLine, LedgerInv
  <2>2. CASE synced' = synced \cup {p} /\ Appending' = {}
    BY <2>1, <2>2 DEF Ledger!Succeed, Ledger!Next
  <2>3. CASE synced' = synced /\ Appending' = {p}
    BY <2>1, <2>3 DEF Ledger!vars
  <2> QED
    BY <1>1, <1>5, <2>2, <2>3 DEF SyncLine, Goto
<1>6. CASE Rollback(p)
  <2>1. Appending = {p} /\ Appending' = {} /\ UNCHANGED <<synced, base>>
    BY <1>1, <1>2, <1>6 DEF Rollback, Goto
  <2>2. lines' \in {lines, lines \cap base[p]} /\ synced \subseteq lines'
    BY <1>6 DEF Rollback, LedgerInv
  <2> QED
    BY <2>1, <2>2 DEF Ledger!GiveUp, Ledger!Next
<1> QED
  BY <1>3, <1>4, <1>5, <1>6 DEF AppendStep

\* An appender that dies gives its append up.
LEMMA CrashInTurn ==
    ASSUME TypeOK, LockInv, LedgerInv, NEW p \in Procs, Crash(p)
    PROVE  Ledger!Next \/ UNCHANGED Ledger!vars
<1> USE DEF AppendSteps, Steps
<1>0. pc \in [Procs -> Steps] /\ OneAppender
  BY OneHolder DEF TypeOK
<1>1. Appending' = Appending \ {p} /\ UNCHANGED <<lines, synced, base>>
  BY <1>0 DEF Crash, Goto, ledgerVars, Appending
<1>2. CASE p \in Appending
  <2>1. Appending' = {}
    BY <1>0, <1>1, <1>2 DEF Appending, OneAppender
  <2>2. synced \subseteq lines
    BY DEF LedgerInv
  <2> QED
    BY <1>1, <1>2, <2>1, <2>2 DEF Ledger!GiveUp, Ledger!Next
<1>3. CASE p \notin Appending
  BY <1>1, <1>3 DEF Ledger!vars
<1> QED
  BY <1>2, <1>3

\* The two lock files implement the lock that SecretSink takes: appends follow
\* each other, and none takes a synced line away, although locks whose owner is
\* dead are taken over by others.
THEOREM TakesTurns ==
    ASSUME MaxFaults <= 1
    PROVE  Spec => AppendsInTurn
<1>1. Init => Ledger!Init
  BY DEF Init, Ledger!Init, Appending
<1>2. TypeOK /\ LockInv /\ LedgerInv /\ [Next]_vars => [Ledger!Next]_(Ledger!vars)
  <2> SUFFICES ASSUME TypeOK, LockInv, LedgerInv, [Next]_vars
               PROVE  [Ledger!Next]_(Ledger!vars)
    OBVIOUS
  <2>1. ASSUME UNCHANGED ledgerVars, \A q \in Procs : (q \in Appending)' <=> q \in Appending
        PROVE  UNCHANGED Ledger!vars
    BY <2>1 DEF ledgerVars, Appending, Ledger!vars
  <2>2. CASE UNCHANGED vars
    BY <2>1, <2>2 DEF vars, Appending
  <2>3. ASSUME NEW p \in Procs, LockStep(p) PROVE UNCHANGED Ledger!vars
    <3>0. pc \in [Procs -> Steps]
      BY DEF TypeOK
    <3>1. UNCHANGED ledgerVars
      BY <2>3 DEF LockStep, Start, Create, CreateFails, WritePayload, WriteFails, Look,
                  Confirm, Unlink, Release
    <3>2. /\ pc[p] \notin {"line", "sync", "rollback"} /\ pc'[p] \notin {"line", "sync", "rollback"}
          /\ \A q \in Procs \ {p} : pc'[q] = pc[q]
      BY <2>3, <3>0 DEF LockStep, Start, Create, CreateFails, WritePayload, WriteFails, Look,
                  Confirm, Unlink, Release, Goto, Failed, NotReclaimed
    <3> QED
      BY <2>1, <3>1, <3>2 DEF Appending
  <2> QED
    BY <2>2, <2>3, AppendInTurn, CrashInTurn DEF Next
<1> QED
  BY <1>1, <1>2, Inductive, PTL DEF Spec, AppendsInTurn, Ledger!Spec
====
