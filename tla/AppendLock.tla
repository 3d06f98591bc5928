---- MODULE AppendLock ----
(***************************************************************************)
(* The append lock of utils/secret-sink.ts: two lock files next to the     *)
(* ledger, created with O_EXCL, read, judged stale and unlinked by several *)
(* server processes, and the append of one ledger line that they guard.    *)
(*                                                                         *)
(* <ledger>.append.lock guards the ledger, <append lock>.reclaim guards    *)
(* the removal of an append lock whose owner is dead; a reclaim lock whose *)
(* owner is dead is removed with no further guard.  One action is one file *)
(* operation.  A process is one process id: a restarted server is another  *)
(* process.  No live process stops for STALE_APPEND_LOCK_MS, five minutes, *)
(* between creating a lock file and writing its owner into it.             *)
(***************************************************************************)
EXTENDS Naturals

CONSTANTS Procs, None,
    MaxFaults       \* bound: processes that die, lock files that cannot be removed

ASSUME FaultsAreCounted == MaxFaults \in Nat

ASSUME NoneIsNoFile == None \notin [owner : Procs, written : BOOLEAN]

VARIABLES
    file,       \* the two lock files
    pc,
    at,         \* the lock file a process is working on
    seen,       \* readLockIdentity, as read the first time
    lines,      \* whose lines the ledger holds
    synced,     \* whose lines were fsynced by their appender
    base,       \* the lines that were there when an appender noted the size
    faults

ledgerVars == <<lines, synced, base>>
vars == <<file, pc, at, seen, faults, ledgerVars>>

Files == {"append", "reclaim"}

\* A file that has been created but not written yet has no owner that its readers
\* could know of.
LockFile == [owner : Procs, written : BOOLEAN]

AppendSteps == {"open", "line", "sync", "rollback"}
Steps == {"idle", "create", "payload", "look", "confirm", "unlink", "release", "dead"}
             \cup AppendSteps

TypeOK ==
    /\ file \in [Files -> LockFile \cup {None}]
    /\ pc \in [Procs -> Steps]
    /\ at \in [Procs -> Files]
    /\ \A p \in Procs : pc[p] \in AppendSteps => at[p] = "append"
    /\ seen \in [Procs -> LockFile \cup {None}]
    /\ lines \subseteq Procs /\ synced \subseteq Procs
    /\ base \in [Procs -> SUBSET Procs]
    /\ faults \in 0..MaxFaults

Init ==
    /\ file = [f \in Files |-> None]
    /\ pc = [p \in Procs |-> "idle"]
    /\ at = [p \in Procs |-> "append"]
    /\ seen = [p \in Procs |-> None]
    /\ lines = {} /\ synced = {} /\ base = [p \in Procs |-> {}]
    /\ faults = 0

-----------------------------------------------------------------------------
Goto(p, step, f) ==
    /\ pc' = [pc EXCEPT ![p] = step]
    /\ at' = [at EXCEPT ![p] = f]

\* The two ways a lock file ends: unlinked under its name, whoever created it, or
\* left behind by a process that goes on.
Remove(f) == file' = [file EXCEPT ![f] = None] /\ UNCHANGED faults
Leave == faults < MaxFaults /\ faults' = faults + 1

\* Without the append lock the append fails; without the reclaim lock the append
\* lock is tried again.
Failed(p) ==
    IF at[p] = "append" THEN Goto(p, "idle", "append") ELSE Goto(p, "create", "append")

\* Nothing was reclaimed: the reclaim lock is tried again, or, when the file was the
\* append lock, the reclaim lock is given back.
NotReclaimed(p) ==
    IF at[p] = "append" THEN Goto(p, "release", "reclaim") ELSE Goto(p, "create", "reclaim")

Start(p) ==
    /\ pc[p] = "idle"
    /\ Goto(p, "create", "append")
    /\ UNCHANGED <<file, seen, faults, ledgerVars>>

-----------------------------------------------------------------------------
(* createExclusiveLockFile and the loops around it. *)

\* Mutant: a stale append lock is removed without the reclaim lock.
CreateOrLookAtOnce(p) ==
    /\ pc[p] = "create"
    /\ \/ /\ file[at[p]] = None
          /\ file' = [file EXCEPT ![at[p]] = [owner |-> p, written |-> FALSE]]
          /\ Goto(p, "payload", at[p])
       \/ /\ file[at[p]] # None
          /\ Goto(p, "look", at[p])
          /\ UNCHANGED file
    /\ UNCHANGED <<seen, faults, ledgerVars>>

\* open with O_EXCL.  EEXIST on the append lock asks for the reclaim lock, EEXIST
\* on the reclaim lock asks whether that one is stale.
Create(p) ==
    /\ pc[p] = "create"
    /\ \/ /\ file[at[p]] = None
          /\ file' = [file EXCEPT ![at[p]] = [owner |-> p, written |-> FALSE]]
          /\ Goto(p, "payload", at[p])
       \/ /\ file[at[p]] # None
          /\ IF at[p] = "append" THEN Goto(p, "create", "reclaim") ELSE Goto(p, "look", "reclaim")
          /\ UNCHANGED file
    /\ UNCHANGED <<seen, faults, ledgerVars>>

\* Another error than EEXIST, or the deadline of thirty seconds.
CreateFails(p) ==
    /\ pc[p] = "create"
    /\ Failed(p)
    /\ UNCHANGED <<file, seen, faults, ledgerVars>>

\* The owner is written and fsynced, and the lock is held: the append lock for the
\* append, the reclaim lock for a look at the append lock.
WritePayload(p) ==
    /\ pc[p] = "payload"
    /\ file' = [file EXCEPT ![at[p]] = [owner |-> p, written |-> TRUE]]
    /\ IF at[p] = "append" THEN Goto(p, "open", "append") ELSE Goto(p, "look", "append")
    /\ UNCHANGED <<seen, faults, ledgerVars>>

\* A failed write removes the file again, if it can; a failed fsync of the directory
\* leaves it there, owned by a process that does not hold it.
WriteFails(p) ==
    /\ pc[p] = "payload"
    /\ \/ Remove(at[p])
       \/ Leave /\ file' \in {file, [file EXCEPT ![at[p]] = [owner |-> p, written |-> TRUE]]}
    /\ Failed(p)
    /\ UNCHANGED <<seen, ledgerVars>>

-----------------------------------------------------------------------------
(* reclaimStaleLockFile, on either lock file. *)

\* Mutant: a file that has no owner yet is stale at once.
StaleUnwritten(f) == f # None /\ (pc[f.owner] = "dead" \/ ~f.written)

\* lockIdentityIsStale: the owner is dead, or unknown for too long.
Stale(f) == f # None /\ pc[f.owner] = "dead"

\* The first reading.  A file without an owner is not old yet, or it is.
Look(p) ==
    /\ pc[p] = "look"
    /\ LET f == file[at[p]] IN
       \/ Stale(f) /\ Goto(p, "confirm", at[p]) /\ seen' = [seen EXCEPT ![p] = f]
       \/ ~(Stale(f) /\ f.written) /\ NotReclaimed(p) /\ UNCHANGED seen
    /\ UNCHANGED <<file, faults, ledgerVars>>

\* The second reading must find the same file.  Two files without an owner are told
\* apart by an inode number that may have been used again.
Confirm(p) ==
    /\ pc[p] = "confirm"
    /\ LET f == file[at[p]]
           same == f # None /\ (f = seen[p] \/ ~(f.written \/ seen[p].written)) IN
       \/ same /\ Stale(f) /\ Goto(p, "unlink", at[p])
       \/ ~(same /\ f = seen[p] /\ Stale(f)) /\ NotReclaimed(p)
    /\ seen' = [seen EXCEPT ![p] = None]
    /\ UNCHANGED <<file, faults, ledgerVars>>

\* unlink takes whatever file has the name by now, or fails.
Unlink(p) ==
    /\ pc[p] = "unlink"
    /\ \/ Remove(at[p])
       \/ UNCHANGED <<file, faults>>
    /\ NotReclaimed(p)
    /\ UNCHANGED <<seen, ledgerVars>>

\* releaseSecretSinkClaimBestEffort: a lock that cannot be unlinked stays.
Release(p) ==
    /\ pc[p] = "release"
    /\ \/ Remove(at[p])
       \/ Leave /\ UNCHANGED file
    /\ Failed(p)
    /\ UNCHANGED <<seen, ledgerVars>>

-----------------------------------------------------------------------------
(* appendSecretSinkRecord under the lock. *)

OpenLedger(p) ==
    /\ pc[p] = "open"
    /\ \/ base' = [base EXCEPT ![p] = lines] /\ Goto(p, "line", "append")
       \/ Goto(p, "release", "append") /\ UNCHANGED base
    /\ UNCHANGED <<file, seen, faults, lines, synced>>

WriteLine(p) ==
    /\ pc[p] = "line"
    /\ \/ lines' = lines \cup {p} /\ Goto(p, "sync", "append")
       \/ Goto(p, "rollback", "append") /\ UNCHANGED lines
    /\ UNCHANGED <<file, seen, faults, synced, base>>

SyncLine(p) ==
    /\ pc[p] = "sync"
    /\ \/ synced' = synced \cup {p} /\ Goto(p, "release", "append")
       \/ Goto(p, "rollback", "append") /\ UNCHANGED synced
    /\ UNCHANGED <<file, seen, faults, lines, base>>

\* ftruncate to the size noted before the write, if it can.
Rollback(p) ==
    /\ pc[p] = "rollback"
    /\ lines' \in {lines, lines \cap base[p]}
    /\ Goto(p, "release", "append")
    /\ UNCHANGED <<file, seen, faults, synced, base>>

\* A process dies; its lock files stay.
Crash(p) ==
    /\ pc[p] # "dead"
    /\ Leave
    /\ Goto(p, "dead", "append")
    /\ seen' = [seen EXCEPT ![p] = None]
    /\ UNCHANGED <<file, ledgerVars>>

-----------------------------------------------------------------------------
LockStep(p) ==
    \/ Start(p) \/ Create(p) \/ CreateFails(p) \/ WritePayload(p) \/ WriteFails(p)
    \/ Look(p) \/ Confirm(p) \/ Unlink(p) \/ Release(p)

AppendStep(p) == OpenLedger(p) \/ WriteLine(p) \/ SyncLine(p) \/ Rollback(p)

Next == \E p \in Procs : LockStep(p) \/ AppendStep(p) \/ Crash(p)

Spec == Init /\ [][Next]_vars

-----------------------------------------------------------------------------
(* Properties. *)

\* At most one process works on the ledger, although a dead owner's lock is taken
\* away by others: SecretSink takes the append lock for this.
OneAppender ==
    \A p, q \in Procs : pc[p] \in AppendSteps /\ pc[q] \in AppendSteps => p = q

KeepsLiveLock ==
    \A p \in Procs :
        file["append"] \in {f \in LockFile : f.owner = p} /\ pc[p] # "dead"
            /\ file'["append"] # file["append"] => pc'[p] # pc[p]

\* No process removes the append lock of another one that is alive.
LiveLockStays == [][KeepsLiveLock]_vars

\* "Append-only plaintext JSONL credential ledger": a line that its appender fsynced,
\* and answers with, is not truncated away by another appender's rollback.
SyncedLinesStay == synced \subseteq lines

\* The two lock files make appends follow each other, from the size an appender
\* notes to its fsync or its rollback: what SecretSink takes its lock for.
Appending == {p \in Procs : pc[p] \in {"line", "sync", "rollback"}}
Ledger == INSTANCE SerialAppends WITH appending <- Appending
AppendsInTurn == Ledger!Spec
====
