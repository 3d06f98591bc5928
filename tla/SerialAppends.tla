---- MODULE SerialAppends ----
(***************************************************************************)
(* What SecretSink takes the append lock for: processes append to the      *)
(* ledger one after the other, and whoever gives an append up takes back   *)
(* at most what it added itself.                                           *)
(***************************************************************************)
CONSTANT Procs

VARIABLES appending,    \* who is at it
          lines,        \* whose lines are there
          synced,       \* whose append succeeded
          base          \* what each of them found

vars == <<appending, lines, synced, base>>

Init ==
    /\ appending = {} /\ lines = {} /\ synced = {}
    /\ base = [p \in Procs |-> {}]

Open(p) ==
    /\ appending = {}
    /\ appending' = {p}
    /\ base' = [base EXCEPT ![p] = lines]
    /\ UNCHANGED <<lines, synced>>

Write(p) ==
    /\ p \in appending
    /\ lines' = lines \cup {p}
    /\ UNCHANGED <<appending, synced, base>>

Succeed(p) ==
    /\ p \in appending /\ p \in lines
    /\ synced' = synced \cup {p}
    /\ appending' = {}
    /\ UNCHANGED <<lines, base>>

\* By a rollback, or by dying before it.
GiveUp(p) ==
    /\ p \in appending
    /\ lines' \in {lines, lines \cap base[p]} /\ synced \subseteq lines'
    /\ appending' = {}
    /\ UNCHANGED <<synced, base>>

Next == \E p \in Procs : Open(p) \/ Write(p) \/ Succeed(p) \/ GiveUp(p)

Spec == Init /\ [][Next]_vars
====
