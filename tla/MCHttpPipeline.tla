---- MODULE MCHttpPipeline ----
(***************************************************************************)
(* Three connections, one client address, two credentials, at most two     *)
(* slots and one per key: 503, 429 on admission, 429 on either rekey, a    *)
(* saturated verification limiter and a drain with work in flight occur.   *)
(***************************************************************************)
EXTENDS HttpPipeline

CONSTANTS r1, r2, r3, client, cred1, cred2, discovery, verify
====
