---- MODULE DestructiveCalls_proofs ----
(***************************************************************************)
(* DestructiveCalls for any calls, targets, credentials and ages: nothing  *)
(* destructive runs without the approval its policy asks for, the audit    *)
(* names who gave it, and an approval that was given is honoured.          *)
(***************************************************************************)
EXTENDS DestructiveCalls, SequenceTheorems, TLAPS

\* A call on its way runs under the configuration of this process, refers to a
\* prompt that was minted and carries the answer the human gave to it.
RequestInv ==
    \A c \in Calls :
        /\ pc[c] \in {"received", "ran", "refused"} =>
               request[c] \in Requests /\ request[c].prompt <= Len(prompts)
        /\ pc[c] = "received" =>
               /\ request[c].policy = policy /\ request[c].enabled = enabled
               /\ request[c].prompt # NoPrompt /\ request[c].response # "missing"
                      => request[c].response = answers[request[c].prompt]

\* A call is decided once.
AuditInv ==
    \A c \in Calls :
        /\ pc[c] \in {"idle", "received"} => audit[c] = "none"
        /\ pc[c] = "asked" => audit[c] = "requested"

IInv ==
    /\ TypeOK /\ RequestInv /\ AuditInv
    /\ RunsArePermitted /\ AuditNamesApprover /\ ApprovalsAreHonoured

-----------------------------------------------------------------------------
\* Prompts are only added and answers only given: what was approved stays so.
PromptsGrow ==
    /\ Len(prompts) <= Len(prompts)' /\ Len(prompts)' \in 0..MaxPrompts
    /\ \A p \in 1..Len(prompts) : prompts'[p] = prompts[p]
    /\ \A p \in 1..MaxPrompts : answers[p] # "none" => answers'[p] = answers[p]

LEMMA Growth ==
    ASSUME TypeOK, [Next]_vars
    PROVE  PromptsGrow
<1> USE TimesAreNatural DEF TypeOK, PromptsGrow
<1>1. CASE UNCHANGED promptVars
  BY <1>1 DEF promptVars
<1>2. ASSUME NEW c \in Calls, Ask(c) PROVE PromptsGrow
  BY <1>2 DEF Ask
<1>3. ASSUME NEW p \in 1..MaxPrompts, NEW a \in Answers, Answer(p, a) PROVE PromptsGrow
  BY <1>3 DEF Answer
<1> QED
  BY <1>1, <1>2, <1>3 DEF Next, Receive, Bypass, NoHuman, RefuseUnanswered, Resume,
     Handler, Refuse, Restart, Tick, vars, promptVars

\* An approval given once stays given.
LEMMA ApprovedStays ==
    ASSUME TypeOK, PromptsGrow, NEW r \in Requests, Approved(r)
    PROVE  Approved(r)'
<1>1. PICK p \in 1..Len(prompts) :
        /\ prompts[p].of.target = r.target /\ prompts[p].of.cred = r.cred
        /\ answers[p] = "accept"
  BY DEF Approved
<1>2. Len(prompts) \in Nat /\ p \in 1..MaxPrompts
  BY TimesAreNatural DEF TypeOK
<1>3. p \in 1..Len(prompts)' /\ prompts'[p] = prompts[p] /\ answers'[p] = "accept"
  BY <1>1, <1>2, TimesAreNatural DEF PromptsGrow
<1> QED BY <1>1, <1>3 DEF Approved

\* Every step keeps the types.
LEMMA TypeStep ==
    ASSUME TypeOK, RequestInv, [Next]_vars
    PROVE  TypeOK'
<1> USE TimesAreNatural DEF TypeOK, Policies, Answers, serverVars, promptVars, callVars
<1>1. ASSUME NEW c \in Calls, Receive(c) PROVE TypeOK'
  <2>1. PICK t \in Targets, k \in Credentials, confirm \in BOOLEAN, capable \in BOOLEAN,
             p \in 0..Len(prompts) :
          \E response \in {"missing"} \cup (IF p = NoPrompt THEN {"accept"}
                                             ELSE {answers[p]} \ {"none"}) :
             request' = [request EXCEPT ![c] =
                 [target |-> t, cred |-> k, confirm |-> confirm, capable |-> capable,
                  prompt |-> p, response |-> response,
                  policy |-> policy, enabled |-> enabled]]
    BY <1>1 DEF Receive
  <2>2. PICK response \in {"missing"} \cup Answers :
             request' = [request EXCEPT ![c] =
                 [target |-> t, cred |-> k, confirm |-> confirm, capable |-> capable,
                  prompt |-> p, response |-> response,
                  policy |-> policy, enabled |-> enabled]]
    <3>1. p # NoPrompt => p \in 1..MaxPrompts
      BY DEF NoPrompt
    <3>2. (IF p = NoPrompt THEN {"accept"} ELSE {answers[p]} \ {"none"}) \subseteq Answers
      BY <3>1
    <3> QED BY <2>1, <3>2
  <2>3. [target |-> t, cred |-> k, confirm |-> confirm, capable |-> capable,
         prompt |-> p, response |-> response, policy |-> policy, enabled |-> enabled]
          \in Requests
    BY DEF Requests
  <2> QED BY <1>1, <2>2, <2>3 DEF Receive
<1>2. ASSUME NEW c \in Calls, Bypass(c) PROVE TypeOK'
  BY <1>2 DEF Bypass, Handler
<1>3. ASSUME NEW c \in Calls, NoHuman(c) PROVE TypeOK'
  BY <1>3 DEF NoHuman, Handler, Refuse
<1>4. ASSUME NEW c \in Calls, Ask(c) PROVE TypeOK'
  <2>1. [of |-> request[c], at |-> now] \in [of : Requests, at : 0..MaxTime]
    BY <1>4 DEF Ask, Wrapped, RequestInv
  <2>2. prompts' \in Seq([of : Requests, at : 0..MaxTime]) /\ Len(prompts)' <= MaxPrompts
    BY <1>4, <2>1 DEF Ask
  <2> QED BY <1>4, <2>2 DEF Ask
<1>5. ASSUME NEW c \in Calls, RefuseUnanswered(c) PROVE TypeOK'
  BY <1>5 DEF RefuseUnanswered, Refuse
<1>6. ASSUME NEW c \in Calls, Resume(c) PROVE TypeOK'
  BY <1>6 DEF Resume, Handler, Refuse, Refusal
<1>7. ASSUME NEW p \in 1..MaxPrompts, NEW a \in Answers, Answer(p, a) PROVE TypeOK'
  BY <1>7 DEF Answer
<1>8. CASE Restart
  BY <1>8 DEF Restart
<1>9. CASE Tick
  BY <1>9 DEF Tick
<1>10. CASE UNCHANGED vars
  BY <1>10 DEF vars
<1> QED
  BY <1>1, <1>2, <1>3, <1>4, <1>5, <1>6, <1>7, <1>8, <1>9, <1>10 DEF Next

\* A call is decided by one step of its own, and its outcome never changes.
Kept(d) == pc[d] = pc'[d] /\ request'[d] = request[d] /\ audit'[d] = audit[d]
Decided(d) == Bypass(d) \/ NoHuman(d) \/ RefuseUnanswered(d) \/ Resume(d)

LEMMA Outcome ==
    ASSUME TypeOK, [Next]_vars, NEW d \in Calls, pc'[d] \in {"ran", "refused"}
    PROVE  Kept(d) \/ Decided(d)
<1> USE DEF TypeOK, callVars, Kept, Decided
<1>1. ASSUME NEW c \in Calls, Receive(c) PROVE Kept(d)
  BY <1>1 DEF Receive
<1>2. ASSUME NEW c \in Calls, Ask(c) PROVE Kept(d)
  BY <1>2 DEF Ask
<1>3. ASSUME NEW c \in Calls, c # d, Decided(c) PROVE Kept(d)
  BY <1>3 DEF Bypass, NoHuman, RefuseUnanswered, Resume, Handler, Refuse
<1>4. ASSUME NEW p \in 1..MaxPrompts, NEW a \in Answers, Answer(p, a) PROVE Kept(d)
  BY <1>4 DEF Answer
<1>5. CASE Restart
  BY <1>5 DEF Restart
<1>6. CASE Tick
  BY <1>6 DEF Tick
<1>7. CASE UNCHANGED vars
  BY <1>7 DEF vars
<1> QED BY <1>1, <1>2, <1>3, <1>4, <1>5, <1>6, <1>7 DEF Next

\* What a decision leaves alone.
LEMMA DecisionKeeps ==
    ASSUME NEW d \in Calls, Decided(d)
    PROVE  /\ pc[d] = "received"
           /\ UNCHANGED <<request, policy, enabled, now, prompts, answers>>
  BY DEF Decided, Bypass, NoHuman, RefuseUnanswered, Resume, Wrapped, Handler, Refuse,
     serverVars, promptVars

\* The fields of a request that the proofs look at.
LEMMA Fields ==
    ASSUME NEW r \in Requests
    PROVE  r.prompt \in 0..MaxPrompts /\ r.response \in {"missing"} \cup Answers
  BY DEF Requests

\* Requests, configuration and answers stay in step.
LEMMA RequestStep ==
    ASSUME TypeOK, RequestInv, [Next]_vars
    PROVE  RequestInv'
<1> USE TimesAreNatural DEF TypeOK, RequestInv, serverVars, promptVars, callVars, NoPrompt
<1>0. TypeOK' /\ PromptsGrow
  BY TypeStep, Growth
<1>1. ASSUME NEW c \in Calls, Receive(c) PROVE RequestInv'
  <2>1. PICK t \in Targets, k \in Credentials, confirm \in BOOLEAN, capable \in BOOLEAN,
             p \in 0..Len(prompts) :
          \E response \in {"missing"} \cup (IF p = NoPrompt THEN {"accept"}
                                             ELSE {answers[p]} \ {"none"}) :
             request' = [request EXCEPT ![c] =
                 [target |-> t, cred |-> k, confirm |-> confirm, capable |-> capable,
                  prompt |-> p, response |-> response,
                  policy |-> policy, enabled |-> enabled]]
    BY <1>1 DEF Receive
  <2>2. PICK response :
             /\ p # NoPrompt /\ response # "missing" => response = answers[p]
             /\ request' = [request EXCEPT ![c] =
                 [target |-> t, cred |-> k, confirm |-> confirm, capable |-> capable,
                  prompt |-> p, response |-> response,
                  policy |-> policy, enabled |-> enabled]]
    BY <2>1
  <2>3. /\ request'[c].prompt = p /\ request'[c].response = response
        /\ request'[c].policy = policy /\ request'[c].enabled = enabled
        /\ request'[c] # NoRequest
    BY <2>2 DEF NoRequest
  <2>4. request'[c] \in Requests
    BY <1>0, <2>3
  <2>5. \A d \in Calls : d # c => request'[d] = request[d] /\ pc'[d] = pc[d]
    BY <1>1, <2>2 DEF Receive
  <2>6. pc'[c] = "received" /\ UNCHANGED <<policy, enabled, prompts, answers>>
    BY <1>1 DEF Receive
  <2> QED BY <2>2, <2>3, <2>4, <2>5, <2>6
<1>2. ASSUME NEW c \in Calls, Decided(c) PROVE RequestInv'
  <2>1. UNCHANGED <<request, policy, enabled, now, prompts, answers>> /\ pc[c] = "received"
    BY <1>2, DecisionKeeps
  <2>2. \A d \in Calls : d # c => pc'[d] = pc[d]
    BY <1>2 DEF Decided, Bypass, NoHuman, RefuseUnanswered, Resume, Handler, Refuse
  <2>3. pc'[c] \in {"ran", "refused"}
    BY <1>2 DEF Decided, Bypass, NoHuman, RefuseUnanswered, Resume, Handler, Refuse
  <2> QED BY <2>1, <2>2, <2>3
<1>3. ASSUME NEW c \in Calls, Ask(c) PROVE RequestInv'
  <2>1. UNCHANGED <<policy, enabled, answers>> /\ Len(prompts) <= Len(prompts)'
    BY <1>0, <1>3 DEF Ask, PromptsGrow
  <2>2. \A d \in Calls : d # c => request'[d] = request[d] /\ pc'[d] = pc[d]
    BY <1>3 DEF Ask
  <2>3. pc'[c] = "asked"
    BY <1>3 DEF Ask
  <2>4. \A d \in Calls : request[d] \in Requests /\ request[d].prompt <= Len(prompts)
                           => request[d].prompt <= Len(prompts)'
    BY <1>0, <2>1, Fields DEF PromptsGrow
  <2> QED BY <2>1, <2>2, <2>3, <2>4
<1>4. ASSUME NEW p \in 1..MaxPrompts, NEW a \in Answers, Answer(p, a) PROVE RequestInv'
  <2>1. UNCHANGED <<prompts, policy, enabled, pc, request>>
    BY <1>4 DEF Answer
  <2>2. ASSUME NEW d \in Calls, pc[d] = "received", request[d].prompt # NoPrompt,
               request[d].response # "missing"
        PROVE  answers'[request[d].prompt] = answers[request[d].prompt]
    <3>1. request[d] \in Requests /\ request[d].response = answers[request[d].prompt]
      BY <2>2
    <3>2. request[d].prompt \in 1..MaxPrompts /\ request[d].response \in Answers
      BY <2>2, <3>1, Fields
    <3>3. answers[request[d].prompt] # "none"
      BY <3>1, <3>2 DEF Answers
    <3> QED BY <1>0, <3>2, <3>3 DEF PromptsGrow
  <2> QED BY <1>0, <2>1, <2>2 DEF PromptsGrow
<1>5. CASE Restart
  BY <1>5 DEF Restart
<1>6. CASE Tick
  BY <1>6 DEF Tick
<1>7. CASE UNCHANGED vars
  BY <1>7 DEF vars
<1> QED BY <1>1, <1>2, <1>3, <1>4, <1>5, <1>6, <1>7 DEF Next, Decided

\* A call without a decision has no audit entry but that of its prompt.
LEMMA AuditStep ==
    ASSUME TypeOK, AuditInv, [Next]_vars
    PROVE  AuditInv'
<1> USE DEF TypeOK, AuditInv, callVars
<1>1. ASSUME NEW c \in Calls, Receive(c) PROVE AuditInv'
  BY <1>1 DEF Receive
<1>2. ASSUME NEW c \in Calls, Decided(c) PROVE AuditInv'
  BY <1>2 DEF Decided, Bypass, NoHuman, RefuseUnanswered, Resume, Handler, Refuse
<1>3. ASSUME NEW c \in Calls, Ask(c) PROVE AuditInv'
  BY <1>3 DEF Ask
<1>4. ASSUME NEW p \in 1..MaxPrompts, NEW a \in Answers, Answer(p, a) PROVE AuditInv'
  BY <1>4 DEF Answer
<1>5. CASE Restart
  BY <1>5 DEF Restart
<1>6. CASE Tick
  BY <1>6 DEF Tick
<1>7. CASE UNCHANGED vars
  BY <1>7 DEF vars
<1> QED BY <1>1, <1>2, <1>3, <1>4, <1>5, <1>6, <1>7 DEF Next, Decided

\* An acceptance that a verified state brings is a human's, of this very call.
LEMMA VerifiedIsApproved ==
    ASSUME TypeOK, RequestInv, NEW d \in Calls, pc[d] = "received",
           request[d].response = "accept", Verified(request[d])
    PROVE  Approved(request[d])
<1>1. request[d] \in Requests /\ request[d].prompt <= Len(prompts)
  BY DEF RequestInv
<1>2. request[d].prompt \in 1..Len(prompts)
  BY <1>1, Fields DEF Verified, NoPrompt, TypeOK
<1>3. answers[request[d].prompt] = "accept"
  BY DEF RequestInv, Verified
<1> QED BY <1>2, <1>3 DEF Approved, Verified, Bound

\* The claim of RunsArePermitted for one call.
PermittedCall(c) ==
    \/ request[c].policy = "allow"
    \/ request[c].policy \in {"confirm", "elicit"} /\ Approved(request[c])
    \/ /\ request[c].policy = "confirm" /\ request[c].confirm
       /\ ~(request[c].enabled /\ request[c].capable)

LEMMA PermittedStep ==
    ASSUME TypeOK, RequestInv, RunsArePermitted, [Next]_vars
    PROVE  RunsArePermitted'
<1> SUFFICES ASSUME NEW d \in Calls, pc'[d] = "ran", Gated(d)' PROVE PermittedCall(d)'
  BY DEF RunsArePermitted, PermittedCall
<1>1. Kept(d) \/ Decided(d)
  BY Outcome
<1>2. CASE Kept(d)
  <2>1. request[d] \in Requests /\ PermittedCall(d)
    BY <1>2 DEF Kept, RequestInv, Gated, RunsArePermitted, PermittedCall
  <2>2. PICK r \in Requests : r = request[d] /\ r = request'[d]
    BY <1>2, <2>1 DEF Kept
  <2>3. Approved(r) => Approved(r)'
    BY Growth, ApprovedStays
  <2>4. Approved(request[d]) => Approved(request[d])'
    BY <2>2, <2>3 DEF Approved
  <2> QED BY <2>1, <2>2, <2>4 DEF PermittedCall
<1>3. CASE Decided(d)
  <2>1. /\ pc[d] = "received" /\ UNCHANGED <<request, prompts, answers>>
        /\ request[d].policy = policy /\ request[d].enabled = enabled
        /\ request[d].target \in Destructive
    BY <1>3, DecisionKeeps DEF RequestInv, Gated
  <2>2. Approved(request[d]) => Approved(request[d])'
    BY <2>1 DEF Approved
  <2>3. CASE Bypass(d)
    BY <1>3, <2>1, <2>3 DEF Bypass, Wrapped, Handler, Passes, TypeOK, Policies, PermittedCall
  <2>4. CASE NoHuman(d)
    BY <2>1, <2>4 DEF NoHuman, Reachable, Handler, Refuse, Passes, TypeOK, PermittedCall
  <2>5. CASE RefuseUnanswered(d)
    BY <2>5 DEF RefuseUnanswered, Refuse, TypeOK
  <2>6. CASE Resume(d)
    <3>1. Verified(request[d]) /\ request[d].response = "accept" /\ policy \in {"confirm", "elicit"}
      BY <2>6 DEF Resume, Wrapped, Refuse, TypeOK
    <3> QED BY <2>1, <2>2, <3>1, VerifiedIsApproved DEF PermittedCall
  <2> QED BY <1>3, <2>3, <2>4, <2>5, <2>6 DEF Decided
<1> QED BY <1>1, <1>2, <1>3

\* The claim of AuditNamesApprover for one call.
NamedApprover(c) ==
    /\ audit[c] = "accepted" => pc[c] = "ran" /\ Approved(request[c])
    /\ audit[c] = "fallback_accepted" =>
           pc[c] = "ran" /\ request[c].confirm /\ request[c].policy = "confirm"
    /\ pc[c] = "ran" /\ audit[c] \notin {"accepted", "fallback_accepted"} =>
           request[c].policy = "allow"

LEMMA ApproverStep ==
    ASSUME TypeOK, RequestInv, AuditInv, AuditNamesApprover, [Next]_vars
    PROVE  AuditNamesApprover'
<1>0. TypeOK' /\ AuditInv'
  BY TypeStep, AuditStep
<1> SUFFICES ASSUME NEW d \in Calls, Gated(d)' PROVE NamedApprover(d)'
  BY DEF AuditNamesApprover, NamedApprover
<1>1. CASE pc'[d] \notin {"ran", "refused"}
  BY <1>0, <1>1 DEF AuditInv, TypeOK, NamedApprover
<1>2. CASE pc'[d] \in {"ran", "refused"} /\ Kept(d)
  <2>1. request[d] \in Requests /\ NamedApprover(d)
    BY <1>2 DEF Kept, RequestInv, Gated, AuditNamesApprover, NamedApprover
  <2>2. PICK r \in Requests : r = request[d] /\ r = request'[d]
    BY <1>2, <2>1 DEF Kept
  <2>3. Approved(r) => Approved(r)'
    BY Growth, ApprovedStays
  <2>4. Approved(request[d]) => Approved(request[d])'
    BY <2>2, <2>3 DEF Approved
  <2> QED BY <1>2, <2>1, <2>2, <2>4 DEF NamedApprover, Kept
<1>3. CASE pc'[d] \in {"ran", "refused"} /\ Decided(d)
  <2>1. /\ pc[d] = "received" /\ UNCHANGED <<request, prompts, answers>>
        /\ request[d].policy = policy /\ request[d].target \in Destructive
        /\ audit[d] = "none"
    BY <1>3, DecisionKeeps DEF RequestInv, AuditInv, Gated
  <2>2. Approved(request[d]) => Approved(request[d])'
    BY <2>1 DEF Approved
  <2>3. CASE Bypass(d)
    BY <2>1, <2>3 DEF Bypass, Wrapped, Handler, Passes, TypeOK, Policies, NamedApprover
  <2>4. CASE NoHuman(d)
    BY <2>1, <2>4 DEF NoHuman, Handler, Refuse, Passes, TypeOK, NamedApprover
  <2>5. CASE RefuseUnanswered(d)
    BY <2>5 DEF RefuseUnanswered, Refuse, TypeOK, NamedApprover
  <2>6. CASE Resume(d)
    <3>1. CASE Verified(request[d]) /\ request[d].response = "accept"
      <4>1. Approved(request[d])'
        BY <2>1, <2>2, <3>1, VerifiedIsApproved
      <4>2. pc'[d] = "ran" /\ audit'[d] = "accepted"
        BY <2>6, <3>1 DEF Resume, Wrapped, Handler, Passes, TypeOK
      <4> QED BY <4>1, <4>2 DEF NamedApprover
    <3>2. CASE ~(Verified(request[d]) /\ request[d].response = "accept")
      <4>1. pc'[d] = "refused" /\ audit'[d] \in {"refused", "declined", "cancelled"}
        BY <2>6, <3>2 DEF Resume, Refuse, Refusal, TypeOK
      <4> QED BY <4>1 DEF NamedApprover
    <3> QED BY <3>1, <3>2
  <2> QED BY <1>3, <2>3, <2>4, <2>5, <2>6 DEF Decided
<1> QED BY <1>1, <1>2, <1>3, Outcome

\* The claim of ApprovalsAreHonoured for one call.
Honoured(r) ==
    ~(/\ r.policy \in {"confirm", "elicit"} /\ r.enabled /\ r.capable
      /\ r.prompt # NoPrompt /\ r.response = "accept"
      /\ prompts[r.prompt].of.target = r.target
      /\ prompts[r.prompt].of.cred = r.cred
      /\ now <= prompts[r.prompt].at + MaxAge)

LEMMA HonouredStep ==
    ASSUME TypeOK, RequestInv, ApprovalsAreHonoured, [Next]_vars
    PROVE  ApprovalsAreHonoured'
<1> SUFFICES ASSUME NEW d \in Calls, pc'[d] = "refused" PROVE Honoured(request[d])'
  BY DEF ApprovalsAreHonoured, Honoured
<1>1. CASE Kept(d)
  <2>1. /\ request[d] \in Requests /\ request[d].prompt <= Len(prompts)
        /\ Honoured(request[d]) /\ request'[d] = request[d]
    BY <1>1 DEF Kept, RequestInv, ApprovalsAreHonoured, Honoured
  <2>2. CASE request[d].prompt = NoPrompt
    BY <2>1, <2>2 DEF Honoured
  <2>3. CASE request[d].prompt # NoPrompt
    <3>1. request[d].prompt \in 1..Len(prompts)
      BY <2>1, <2>3, Fields DEF NoPrompt, TypeOK
    <3>2. prompts'[request[d].prompt] = prompts[request[d].prompt]
      BY <3>1, Growth DEF PromptsGrow
    <3>3. prompts[request[d].prompt].at \in Nat /\ now \in Nat /\ MaxAge \in Nat
      <4>1. prompts[request[d].prompt] \in [of : Requests, at : 0..MaxTime]
        BY <3>1, ElementOfSeq DEF TypeOK
      <4>2. 0..MaxTime \subseteq Nat
        BY TimesAreNatural
      <4> QED BY <4>1, <4>2, TimesAreNatural DEF TypeOK
    <3>4. now' \in Nat /\ now <= now'
      <4>1. now' = now \/ now' = now + 1
        BY DEF Next, Receive, Bypass, NoHuman, Ask, RefuseUnanswered, Resume, Handler,
           Refuse, Answer, Restart, Tick, vars
      <4> QED BY <3>3, <4>1
    <3> QED BY <2>1, <3>2, <3>3, <3>4 DEF Honoured
  <2> QED BY <2>2, <2>3
<1>2. CASE Decided(d)
  <2>1. /\ pc[d] = "received" /\ UNCHANGED <<request, prompts, now>>
        /\ request[d].policy = policy /\ request[d].enabled = enabled
    BY <1>2, DecisionKeeps DEF RequestInv
  <2> SUFFICES ASSUME ~Honoured(request[d]) PROVE FALSE
    BY <2>1 DEF Honoured
  <2>2. /\ policy \in {"confirm", "elicit"} /\ Reachable(d) /\ Verified(request[d])
        /\ request[d].response = "accept"
    BY <2>1 DEF Honoured, Reachable, Verified, Bound
  <2>3. CASE Bypass(d)
    BY <2>1, <2>2, <2>3 DEF Bypass, Wrapped, Handler, Passes, TypeOK
  <2>4. CASE NoHuman(d) \/ RefuseUnanswered(d)
    BY <2>2, <2>4 DEF NoHuman, RefuseUnanswered
  <2>5. CASE Resume(d)
    BY <2>2, <2>5 DEF Resume, Handler, Passes, TypeOK
  <2> QED BY <1>2, <2>3, <2>4, <2>5 DEF Decided
<1> QED BY <1>1, <1>2, Outcome

-----------------------------------------------------------------------------
\* Before any call there is nothing to permit, to attribute or to honour.
LEMMA InitIInv == Init => IInv
<1> SUFFICES ASSUME Init PROVE IInv
  OBVIOUS
<1> USE TimesAreNatural DEF Init
<1>1. TypeOK
  BY DEF TypeOK
<1>2. RequestInv /\ AuditInv
  BY DEF RequestInv, AuditInv
<1>3. RunsArePermitted /\ AuditNamesApprover /\ ApprovalsAreHonoured
  BY DEF RunsArePermitted, AuditNamesApprover, ApprovalsAreHonoured
<1> QED BY <1>1, <1>2, <1>3 DEF IInv

\* The invariant holds in every reachable state.
THEOREM Inductive == Spec => []IInv
<1>1. IInv /\ [Next]_vars => IInv'
  BY TypeStep, RequestStep, AuditStep, PermittedStep, ApproverStep, HonouredStep DEF IInv
<1> QED BY InitIInv, <1>1, PTL DEF Spec

\* The variables keep their types.
THEOREM TypeCorrect == Spec => []TypeOK
<1>1. IInv => TypeOK
  BY DEF IInv
<1> QED BY Inductive, <1>1, PTL

\* Nothing destructive runs without what the policy in force asks for: late,
\* repeated and altered follow-ups and restarts included.
THEOREM Permitted == Spec => []RunsArePermitted
<1>1. IInv => RunsArePermitted
  BY DEF IInv
<1> QED BY Inductive, <1>1, PTL

\* What the audit says of the approver is so, although the wrapper records the
\* decision and the gate takes it.
THEOREM ApproverNamed == Spec => []AuditNamesApprover
<1>1. IInv => AuditNamesApprover
  BY DEF IInv
<1> QED BY Inductive, <1>1, PTL

\* A human's approval is honoured as long as its state is young.
THEOREM ApprovalsHonoured == Spec => []ApprovalsAreHonoured
<1>1. IInv => ApprovalsAreHonoured
  BY DEF IInv
<1> QED BY Inductive, <1>1, PTL
====
