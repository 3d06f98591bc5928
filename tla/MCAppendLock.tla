---- MODULE MCAppendLock ----
(***************************************************************************)
(* Three processes: one leaves a lock file behind, by dying or by failing  *)
(* to remove it, while two others race for the locks.                      *)
(***************************************************************************)
EXTENDS AppendLock, TLC

CONSTANTS p1, p2, p3

Symmetry == Permutations(Procs)
====
