---- MODULE MCSecretSink ----
(***************************************************************************)
(* Two processes and one key with two inputs and two creations: lost       *)
(* races, conflicts, a second creation after a revoked first one, and a    *)
(* kill or a power failure in between.                                     *)
(***************************************************************************)
EXTENDS SecretSink

CONSTANTS p1, p2, k1, i1, i2

AnyRequest == [key : Keys, input : Inputs]
OneMint == [k \in Keys |-> 1]
TwoMints == [k \in Keys |-> 2]
====
