---- MODULE DestructiveCalls ----
(***************************************************************************)
(* Destructive tool calls between the client's model, the human behind the *)
(* client and the server: createAuditedToolCallback (src/src/server.ts),   *)
(* maybeRequireDestructiveElicitation (utils/destructive-elicitation.ts)   *)
(* around the handler's own checkDestructive (utils/destructive-gate.ts).  *)
(*                                                                         *)
(* A confirmation takes two calls.  The first is answered with a prompt    *)
(* and a signed state; the second repeats the call with that state and the *)
(* human's answer.  The client keeps an answer with the state it belongs   *)
(* to, but it may send it late, more than once, to a restarted server, or  *)
(* with arguments and credentials that changed since.                      *)
(***************************************************************************)
EXTENDS Naturals, Sequences

CONSTANTS
    Calls,
    Targets,        \* a tool with its arguments, confirm left out
    Destructive,    \* the targets in which destructiveEffect finds one
    Credentials,
    MaxAge,         \* DESTRUCTIVE_ELICITATION_STATE_MAX_AGE_MS
    MaxTime,        \* bound on the clock
    MaxPrompts      \* bound on the prompts minted

ASSUME DestructiveTargets == Destructive \subseteq Targets
ASSUME TimesAreNatural == {MaxAge, MaxTime, MaxPrompts} \subseteq Nat

VARIABLES
    policy, enabled,    \* B2_DESTRUCTIVE_POLICY, B2_DESTRUCTIVE_ELICITATION
    now,
    prompts,            \* the states minted: the call each was minted for, when
    answers,            \* what the human answered to each prompt
    pc,
    request,            \* what each call sent, and the policy it met
    audit               \* the decision recorded for each call

serverVars == <<policy, enabled>>
promptVars == <<prompts, answers>>
callVars == <<pc, request, audit>>
vars == <<serverVars, now, promptVars, callVars>>

Policies == {"allow", "confirm", "elicit", "block"}
Answers == {"accept", "unticked", "decline", "cancel", "malformed"}
NoPrompt == 0

Requests ==
    [target : Targets, cred : Credentials, confirm : BOOLEAN, capable : BOOLEAN,
     prompt : 0..MaxPrompts, response : {"missing"} \cup Answers,
     policy : Policies, enabled : BOOLEAN]

NoRequest == [target |-> "none"]

TypeOK ==
    /\ policy \in Policies /\ enabled \in BOOLEAN
    /\ now \in 0..MaxTime
    /\ prompts \in Seq([of : Requests, at : 0..MaxTime]) /\ Len(prompts) <= MaxPrompts
    /\ answers \in [1..MaxPrompts -> {"none"} \cup Answers]
    /\ pc \in [Calls -> {"idle", "received", "ran", "refused", "asked"}]
    /\ request \in [Calls -> Requests \cup {NoRequest}]
    /\ audit \in [Calls -> {"none", "requested", "accepted", "fallback_accepted",
                            "declined", "cancelled", "refused"}]

Init ==
    /\ policy \in Policies /\ enabled \in BOOLEAN
    /\ now = 0
    /\ prompts = <<>> /\ answers = [p \in 1..MaxPrompts |-> "none"]
    /\ pc = [c \in Calls |-> "idle"]
    /\ request = [c \in Calls |-> NoRequest]
    /\ audit = [c \in Calls |-> "none"]

-----------------------------------------------------------------------------
(* The gate. *)

\* Mutant: the digest covers the confirm flag too.
BoundWithConfirm(r) == <<r.cred, r.target, r.confirm>>

\* What a state binds: the key it is signed with, the tool, its effect and
\* destructiveTargetDigest, which leaves the confirm flag out.
Bound(r) == <<r.cred, r.target>>

\* checkDestructive, called first in the handler.
Passes(r, consent) ==
    \/ r.target \notin Destructive
    \/ policy = "allow"
    \/ policy \in {"confirm", "elicit"} /\ consent
    \/ policy = "confirm" /\ r.confirm

\* The call ends in its handler, with the decision recorded on the way.
Handler(c, consent, decision) ==
    /\ pc' = [pc EXCEPT ![c] = IF Passes(request[c], consent) THEN "ran" ELSE "refused"]
    /\ audit' = [audit EXCEPT ![c] = decision]
    /\ UNCHANGED <<request, serverVars, now, promptVars>>

Refuse(c, decision) ==
    /\ pc' = [pc EXCEPT ![c] = "refused"]
    /\ audit' = [audit EXCEPT ![c] = decision]
    /\ UNCHANGED <<request, serverVars, now, promptVars>>

-----------------------------------------------------------------------------
(* The wrapper. *)

Wrapped(c) ==
    /\ pc[c] = "received"
    /\ request[c].target \in Destructive /\ policy \in {"confirm", "elicit"}

Reachable(c) == enabled /\ request[c].capable

\* allow and block are left to the gate, and so are harmless calls.
Bypass(c) ==
    /\ pc[c] = "received" /\ ~Wrapped(c)
    /\ Handler(c, FALSE, "none")

\* Mutant: the fallback is recorded whether or not the model confirmed.
NoHumanAlwaysRecorded(c) ==
    /\ Wrapped(c) /\ ~Reachable(c)
    /\ \/ policy = "elicit" /\ Refuse(c, "refused")
       \/ policy = "confirm" /\ Handler(c, FALSE, "fallback_accepted")

\* No human can be prompted: elicit refuses, confirm leaves the call to the gate,
\* whose decision is known from the flag already.
NoHuman(c) ==
    /\ Wrapped(c) /\ ~Reachable(c)
    /\ \/ policy = "elicit" /\ Refuse(c, "refused")
       \/ /\ policy = "confirm"
          /\ Handler(c, FALSE, IF request[c].confirm THEN "fallback_accepted" ELSE "none")

\* The first call: a state is minted for it and returned with the prompt.
Ask(c) ==
    /\ Wrapped(c) /\ Reachable(c)
    /\ request[c].response = "missing" /\ request[c].prompt = NoPrompt
    /\ Len(prompts) < MaxPrompts
    /\ prompts' = Append(prompts, [of |-> request[c], at |-> now])
    /\ pc' = [pc EXCEPT ![c] = "asked"]
    /\ audit' = [audit EXCEPT ![c] = "requested"]
    /\ request' = [request EXCEPT ![c] = NoRequest]
    /\ UNCHANGED <<serverVars, now, answers>>

\* A state without an answer.
RefuseUnanswered(c) ==
    /\ Wrapped(c) /\ Reachable(c)
    /\ request[c].response = "missing" /\ request[c].prompt # NoPrompt
    /\ Refuse(c, "refused")

\* Mutant: a state is good for every call of its credential.
VerifiedForCredential(r) ==
    /\ r.prompt # NoPrompt
    /\ now <= prompts[r.prompt].at + MaxAge
    /\ prompts[r.prompt].of.cred = r.cred

\* verifyDestructiveElicitationState: present, signed with this credential, not
\* expired, and minted for this target.
Verified(r) ==
    /\ r.prompt # NoPrompt
    /\ now <= prompts[r.prompt].at + MaxAge
    /\ Bound(prompts[r.prompt].of) = Bound(r)

\* The decision that a refusal is recorded with, once the state is verified.
Refusal(response) ==
    CASE response = "decline" -> "declined"
      [] response = "cancel" -> "cancelled"
      [] OTHER -> "refused"

\* The second call: only a ticked acceptance of a verified state runs, with the
\* consent that the gate looks for.
Resume(c) ==
    /\ Wrapped(c) /\ Reachable(c)
    /\ request[c].response # "missing"
    /\ \/ ~Verified(request[c]) /\ Refuse(c, "refused")
       \/ /\ Verified(request[c])
          /\ \/ request[c].response = "accept" /\ Handler(c, TRUE, "accepted")
             \/ request[c].response # "accept" /\ Refuse(c, Refusal(request[c].response))

-----------------------------------------------------------------------------
(* The client, its human, the clock and the process. *)

\* A call is sent: a new one, or the follow-up of a prompt with its answer, with
\* the answer missing, or with the state missing.
Receive(c) ==
    /\ pc[c] = "idle"
    /\ \E t \in Targets, k \in Credentials, confirm, capable \in BOOLEAN,
          p \in 0..Len(prompts) :
       \E response \in {"missing"} \cup (IF p = NoPrompt THEN {"accept"}
                                         ELSE {answers[p]} \ {"none"}) :
          request' = [request EXCEPT ![c] =
              [target |-> t, cred |-> k, confirm |-> confirm, capable |-> capable,
               prompt |-> p, response |-> response,
               policy |-> policy, enabled |-> enabled]]
    /\ pc' = [pc EXCEPT ![c] = "received"]
    /\ UNCHANGED <<audit, serverVars, now, promptVars>>

\* The human answers a prompt, once.
Answer(p, a) ==
    /\ p <= Len(prompts) /\ answers[p] = "none"
    /\ answers' = [answers EXCEPT ![p] = a]
    /\ UNCHANGED <<prompts, serverVars, now, callVars>>

\* The process ends and another one starts, configured otherwise; the key that
\* states are signed with comes from the credential and survives.
Restart ==
    /\ policy' \in Policies /\ enabled' \in BOOLEAN
    /\ pc' = [c \in Calls |-> IF pc[c] = "received" THEN "idle" ELSE pc[c]]
    /\ request' = [c \in Calls |-> IF pc[c] = "received" THEN NoRequest ELSE request[c]]
    /\ UNCHANGED <<audit, now, promptVars>>

Tick ==
    /\ now < MaxTime /\ now' = now + 1
    /\ UNCHANGED <<serverVars, promptVars, callVars>>

Next ==
    \/ \E c \in Calls :
         \/ Receive(c) \/ Bypass(c) \/ NoHuman(c) \/ Ask(c)
         \/ RefuseUnanswered(c) \/ Resume(c)
    \/ \E p \in 1..MaxPrompts, a \in Answers : Answer(p, a)
    \/ Restart
    \/ Tick

Spec == Init /\ [][Next]_vars

-----------------------------------------------------------------------------
(* Properties. *)

Gated(c) == request[c].target \in Destructive

\* A human was shown this target under this credential, and approved.
Approved(r) ==
    \E p \in 1..Len(prompts) :
        /\ prompts[p].of.target = r.target /\ prompts[p].of.cred = r.cred
        /\ answers[p] = "accept"

\* What runs was allowed by the policy in force: nothing under block, under
\* elicit only what a human approved, under confirm also what the model
\* confirmed while no human could be prompted.
RunsArePermitted ==
    \A c \in Calls : pc[c] = "ran" /\ Gated(c) =>
        LET r == request[c] IN
        \/ r.policy = "allow"
        \/ r.policy \in {"confirm", "elicit"} /\ Approved(r)
        \/ r.policy = "confirm" /\ r.confirm /\ ~(r.enabled /\ r.capable)

\* The audit event tells who let a destructive call through: a human exactly when
\* one approved, the model exactly when its flag did, nobody only under allow.
AuditNamesApprover ==
    \A c \in Calls : Gated(c) =>
        /\ audit[c] = "accepted" => pc[c] = "ran" /\ Approved(request[c])
        /\ audit[c] = "fallback_accepted" =>
               pc[c] = "ran" /\ request[c].confirm /\ request[c].policy = "confirm"
        /\ pc[c] = "ran" /\ audit[c] \notin {"accepted", "fallback_accepted"} =>
               request[c].policy = "allow"

\* An approval is honoured: the call it was given for is not refused while the
\* state is young, whatever its confirm flag was in either round.
ApprovalsAreHonoured ==
    \A c \in Calls : pc[c] = "refused" =>
        LET r == request[c] IN
        ~(/\ r.policy \in {"confirm", "elicit"} /\ r.enabled /\ r.capable
          /\ r.prompt # NoPrompt /\ r.response = "accept"
          /\ prompts[r.prompt].of.target = r.target
          /\ prompts[r.prompt].of.cred = r.cred
          /\ now <= prompts[r.prompt].at + MaxAge)
====
