---- MODULE MCNativeCalls ----
(* Small instances of NativeCalls. *)
EXTENDS NativeCalls
====
