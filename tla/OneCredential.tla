---- MODULE OneCredential ----
(***************************************************************************)
(* What the file sink promises about durable credentials: a request key    *)
(* never has two live credentials, and a credential whose secret has been  *)
(* stored is neither forgotten nor revoked.                                *)
(***************************************************************************)
CONSTANTS Credentials, KeyOf(_)

VARIABLES live,    \* credentials that exist at the provider
          stored   \* credentials whose secret is durably in the ledger

vars == <<live, stored>>

Init == live = {} /\ stored = {}

Mint(c) ==
    /\ \A d \in live : KeyOf(d) # KeyOf(c)
    /\ live' = live \cup {c}
    /\ UNCHANGED stored

Store(cs) ==
    /\ cs \subseteq live
    /\ stored' = stored \cup cs
    /\ UNCHANGED live

Revoke(c) ==
    /\ c \notin stored
    /\ live' = live \ {c}
    /\ UNCHANGED stored

Next ==
    \/ \E c \in Credentials : Mint(c) \/ Revoke(c)
    \/ \E cs \in SUBSET live : Store(cs)

Spec == Init /\ [][Next]_vars
====
