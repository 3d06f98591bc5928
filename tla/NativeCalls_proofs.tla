---- MODULE NativeCalls_proofs ----
(***************************************************************************)
(* What holds of NativeCalls for any calls, retries and tokens.  The       *)
(* inductive invariant has four independent layers over the types: aborts, *)
(* the place of the token on its way, refused tokens, and the fate of each *)
(* write.                                                                  *)
(***************************************************************************)
EXTENDS NativeCalls, TLAPS

\* B2 numbers its tokens in the order of issue.
TokensInv ==
    /\ cachedAuth <= minted /\ sdkAuth <= minted /\ issued <= minted
    /\ \A c \in Calls : token[c] <= minted

\* The token of the authorization in flight is in nobody's hands yet.
IssuedInv ==
    issued # NoToken =>
        /\ inflight
        /\ issued # cachedAuth /\ issued # sdkAuth
        /\ \A c \in Calls : issued # token[c]

\* A refused token is neither in a cache nor on its way to one.
RefusedInv ==
    \A c \in Calls : refused[c] # NoToken =>
        /\ refused[c] <= minted
        /\ refused[c] # cachedAuth /\ refused[c] # sdkAuth
        /\ refused[c] # issued /\ refused[c] # token[c]

\* B2 has not carried out the write of w and will not.
Untouched(w) == applied[w] = 0 /\ \A t \in Token : <<w, t>> \notin stray

\* B2 has carried out the write of w, once and for all.
Written(w) == applied[w] = 1 /\ \A t \in Token : <<w, t>> \notin stray

\* B2 may still carry out the write of w, with the one request it was given.
Pending(w) == /\ applied[w] = 0
              /\ \A s, t \in Token : <<w, s>> \in stray /\ <<w, t>> \in stray => s = t

WireInv ==
    \A c \in Calls :
        /\ wire[c] # "none" => token[c] # NoToken
        /\ pc[c] = "sent" => wire[c] # "none"
        /\ pc[c] = "reading" => wire[c] \in Replies
        /\ pc[c] \notin {"sent", "reading"} => wire[c] = "none"
        /\ pc[c] \in {"settling", "done"} => result[c] # "none"
        /\ pc[c] \in {"idle", "firing", "waiting", "sent", "reading"} => result[c] = "none"

WriteInv ==
    \A w \in Writers :
        /\ pc[w] \in {"idle", "firing", "waiting"} => Untouched(w)
        /\ pc[w] \in {"sent", "reading"} =>
               /\ wire[w] = "ok" => Written(w)
               /\ wire[w] = "trouble" => Written(w) \/ Untouched(w)
               /\ wire[w] \notin {"ok", "trouble"} => Untouched(w)
        /\ pc[w] \in {"settling", "done"} =>
               /\ result[w] = "ok" => Written(w)
               /\ result[w] \in Definite => Untouched(w)
               /\ Written(w) \/ Pending(w)

IInv ==
    /\ TypeOK /\ AbortsArePrivate /\ TokensInv /\ IssuedInv /\ RefusedInv
    /\ WireInv /\ WriteInv

-----------------------------------------------------------------------------
\* The authorization that a sync leaves in the manager's cache.
LEMMA SyncedType ==
    ASSUME TypeOK
    PROVE  SyncedAuth \in {cachedAuth, sdkAuth} /\ SyncedFresh \in BOOLEAN
  BY DEF TypeOK, SyncedAuth, SyncedFresh, SdkNews

\* Every step keeps the types.
LEMMA TypeStep ==
    ASSUME TypeOK, WireInv, [Next]_vars
    PROVE  TypeOK'
<1> USE BoundsAreNatural, KindsAreDisjoint DEF managerVars, b2Vars, callVars, Calls,
        Circuited, Token, NoToken, TypeOK, Results, Definite, Replies, WireInv
<1>1. ASSUME NEW c \in Calls, Start(c) PROVE TypeOK'
  BY <1>1 DEF Start
<1>2. ASSUME NEW c \in Calls, GetAuth(c) PROVE TypeOK'
  <2>1. SyncedAuth \in Token \cup {NoToken} /\ SyncedFresh \in BOOLEAN
    BY SyncedType
  <2>2. cachedAuth' = SyncedAuth /\ fresh' = SyncedFresh
    BY <1>2 DEF GetAuth
  <2>3. CASE SyncedAuth # NoToken /\ SyncedFresh
    BY <1>2, <2>1, <2>2, <2>3 DEF GetAuth, Send, EndAttempt
  <2>4. CASE ~(SyncedAuth # NoToken /\ SyncedFresh)
    <3>1. inflight' = TRUE /\ UNCHANGED <<sdkAuth, issued, attempt, aborted, refused, token>>
      BY <1>2, <2>4 DEF GetAuth
    <3>2. UNCHANGED <<minted, live, applied, stray>>
      BY <1>2 DEF GetAuth
    <3>3. \/ EndAttempt(c, "aborted")
          \/ pc' = [pc EXCEPT ![c] = "waiting"] /\ UNCHANGED <<result, wire, retries>>
      BY <1>2, <2>4 DEF GetAuth
    <3> QED BY <2>1, <2>2, <3>1, <3>2, <3>3 DEF EndAttempt
  <2> QED BY <2>3, <2>4
<1>3. ASSUME NEW c \in Calls, ForceRefresh(c) PROVE TypeOK'
  BY <1>3 DEF ForceRefresh, Invalidate
<1>4. ASSUME NEW c \in Calls, CircuitOpen(c) PROVE TypeOK'
  BY <1>4 DEF CircuitOpen, EndAttempt
<1>5. ASSUME NEW c \in Calls, Headers(c) PROVE TypeOK'
  BY <1>5 DEF Headers
<1>6. ASSUME NEW c \in Calls, Body(c) PROVE TypeOK'
  BY <1>6 DEF Body, EndAttempt
<1>7. ASSUME NEW c \in Calls, BodyLost(c) PROVE TypeOK'
  BY <1>7 DEF BodyLost, EndAttempt, Interrupted
<1>8. ASSUME NEW c \in Calls, SdkRefresh(c) PROVE TypeOK'
  BY <1>8 DEF SdkRefresh
<1>9. ASSUME NEW c \in Calls, Retry(c) PROVE TypeOK'
  BY <1>9 DEF Retry
<1>10. ASSUME NEW c \in Calls, Timeout(c) PROVE TypeOK'
  BY <1>10 DEF Timeout, EndAttempt, Interrupted, GiveUp, Strays
<1>11. ASSUME NEW c \in Calls, CircuitTimeout(c) PROVE TypeOK'
  BY <1>11 DEF CircuitTimeout, EndAttempt, GiveUp, Strays
<1>12. ASSUME NEW c \in Calls, AttemptAgain(c) PROVE TypeOK'
  <2>1. attempt' = [attempt EXCEPT ![c] = 1]
    BY <1>12 DEF AttemptAgain, TriesAgain
  <2> QED BY <1>12, <2>1 DEF AttemptAgain, Invalidate
<1>13. ASSUME NEW c \in Calls, Answer(c) PROVE TypeOK'
  <2>1. /\ cachedAuth' \in Token \cup {NoToken} /\ fresh' \in BOOLEAN
        /\ UNCHANGED <<sdkAuth, inflight, issued>>
    BY <1>13, SyncedType DEF Answer, Sync
  <2>2. pc' \in [Calls -> {"idle", "firing", "waiting", "sent", "reading",
                           "settling", "done"}]
    BY <1>13 DEF Answer
  <2>3. aborted' \in [Calls -> BOOLEAN] /\ result' \in [Calls -> {"none"} \cup Results]
    BY <1>13 DEF Answer
  <2>4. UNCHANGED <<minted, live, applied, stray, retries, wire>>
    BY <1>13 DEF Answer
  <2>5. /\ token' \in [Calls -> Token \cup {NoToken}]
        /\ refused' \in [Calls -> Token \cup {NoToken}]
        /\ attempt' \in [Calls -> {0, 1}]
    BY <1>13 DEF Answer
  <2> QED BY <2>1, <2>2, <2>3, <2>4, <2>5
<1>14. ASSUME NEW c \in Calls, AbortWaiting(c) PROVE TypeOK'
  <2>1. UNCHANGED <<attempt, token, refused>> /\ UNCHANGED managerVars /\ UNCHANGED b2Vars
    BY <1>14 DEF AbortWaiting
  <2>2. CASE aborted' = [aborted EXCEPT ![c] = TRUE] /\ EndAttempt(c, "aborted")
    BY <2>1, <2>2 DEF EndAttempt
  <2>3. CASE pc' = [pc EXCEPT ![c] = "idle"] /\ UNCHANGED <<retries, aborted, wire, result>>
    BY <2>1, <2>3
  <2> QED BY <1>14, <2>2, <2>3 DEF AbortWaiting
<1>15. ASSUME NEW c \in Calls, AbortSent(c) PROVE TypeOK'
  BY <1>15 DEF AbortSent, EndAttempt, Interrupted, GiveUp, Strays
<1>16. ASSUME NEW c \in Calls, AbortElsewhere(c) PROVE TypeOK'
  BY <1>16 DEF AbortElsewhere, TriesAgain
<1>17. ASSUME NEW c \in Calls, Serve(c) PROVE TypeOK'
  BY <1>17 DEF Serve
<1>18. ASSUME NEW s \in stray, ServeStray(s) PROVE TypeOK'
  BY <1>18 DEF ServeStray
<1>19. CASE AuthIssued
  BY <1>19 DEF AuthIssued
<1>20. CASE AuthArrives
  BY <1>20 DEF AuthArrives
<1>21. ASSUME NEW r \in {"unauthorized", "trouble"}, AuthFails(r) PROVE TypeOK'
  BY <1>21 DEF AuthFails
<1>22. CASE AgeOut
  BY <1>22 DEF AgeOut
<1>23. ASSUME NEW t \in live, Expire(t) PROVE TypeOK'
  BY <1>23 DEF Expire
<1>24. CASE UNCHANGED vars
  BY <1>24 DEF vars
<1> QED
  BY <1>1, <1>2, <1>3, <1>4, <1>5, <1>6, <1>7, <1>8, <1>9, <1>10, <1>11, <1>12, <1>13,
     <1>14, <1>15, <1>16, <1>17, <1>18, <1>19, <1>20, <1>21, <1>22, <1>23, <1>24 DEF Next,
     CallStep

\* A call is answered as aborted only when its own caller left.
LEMMA AbortStep ==
    ASSUME TypeOK, AbortsArePrivate, [Next]_vars
    PROVE  AbortsArePrivate'
<1> USE BoundsAreNatural, KindsAreDisjoint DEF managerVars, b2Vars, callVars, Calls,
        Circuited, Token, NoToken, TypeOK, Results, Definite, Replies, AbortsArePrivate
<1>1. ASSUME NEW c \in Calls, Start(c) PROVE AbortsArePrivate'
  BY <1>1 DEF Start
<1>2. ASSUME NEW c \in Calls, GetAuth(c) PROVE AbortsArePrivate'
  BY <1>2 DEF GetAuth, Send, EndAttempt, SyncedAuth, SyncedFresh, SdkNews
<1>3. ASSUME NEW c \in Calls, ForceRefresh(c) PROVE AbortsArePrivate'
  BY <1>3 DEF ForceRefresh, Invalidate
<1>4. ASSUME NEW c \in Calls, CircuitOpen(c) PROVE AbortsArePrivate'
  BY <1>4 DEF CircuitOpen, EndAttempt
<1>5. ASSUME NEW c \in Calls, Headers(c) PROVE AbortsArePrivate'
  BY <1>5 DEF Headers
<1>6. ASSUME NEW c \in Calls, Body(c) PROVE AbortsArePrivate'
  BY <1>6 DEF Body, EndAttempt
<1>7. ASSUME NEW c \in Calls, BodyLost(c) PROVE AbortsArePrivate'
  BY <1>7 DEF BodyLost, EndAttempt, Interrupted
<1>8. ASSUME NEW c \in Calls, SdkRefresh(c) PROVE AbortsArePrivate'
  BY <1>8 DEF SdkRefresh
<1>9. ASSUME NEW c \in Calls, Retry(c) PROVE AbortsArePrivate'
  BY <1>9 DEF Retry
<1>10. ASSUME NEW c \in Calls, Timeout(c) PROVE AbortsArePrivate'
  BY <1>10 DEF Timeout, EndAttempt, Interrupted, GiveUp, Strays
<1>11. ASSUME NEW c \in Calls, CircuitTimeout(c) PROVE AbortsArePrivate'
  BY <1>11 DEF CircuitTimeout, EndAttempt, GiveUp, Strays
<1>12. ASSUME NEW c \in Calls, AttemptAgain(c) PROVE AbortsArePrivate'
  BY <1>12 DEF AttemptAgain, TriesAgain, Invalidate
<1>13. ASSUME NEW c \in Calls, Answer(c) PROVE AbortsArePrivate'
  BY <1>13 DEF Answer, Sync, SyncedAuth, SyncedFresh, SdkNews
<1>14. ASSUME NEW c \in Calls, AbortWaiting(c) PROVE AbortsArePrivate'
  BY <1>14 DEF AbortWaiting, EndAttempt
<1>15. ASSUME NEW c \in Calls, AbortSent(c) PROVE AbortsArePrivate'
  BY <1>15 DEF AbortSent, EndAttempt, Interrupted, GiveUp, Strays
<1>16. ASSUME NEW c \in Calls, AbortElsewhere(c) PROVE AbortsArePrivate'
  BY <1>16 DEF AbortElsewhere, TriesAgain
<1>17. ASSUME NEW c \in Calls, Serve(c) PROVE AbortsArePrivate'
  BY <1>17 DEF Serve
<1>18. ASSUME NEW s \in stray, ServeStray(s) PROVE AbortsArePrivate'
  BY <1>18 DEF ServeStray
<1>19. CASE AuthIssued
  BY <1>19 DEF AuthIssued
<1>20. CASE AuthArrives
  BY <1>20 DEF AuthArrives
<1>21. ASSUME NEW r \in {"unauthorized", "trouble"}, AuthFails(r) PROVE AbortsArePrivate'
  BY <1>21 DEF AuthFails
<1>22. CASE AgeOut
  BY <1>22 DEF AgeOut
<1>23. ASSUME NEW t \in live, Expire(t) PROVE AbortsArePrivate'
  BY <1>23 DEF Expire
<1>24. CASE UNCHANGED vars
  BY <1>24 DEF vars
<1> QED
  BY <1>1, <1>2, <1>3, <1>4, <1>5, <1>6, <1>7, <1>8, <1>9, <1>10, <1>11, <1>12, <1>13,
     <1>14, <1>15, <1>16, <1>17, <1>18, <1>19, <1>20, <1>21, <1>22, <1>23, <1>24 DEF Next,
     CallStep

\* A request is on the wire exactly while its attempt waits for it.
LEMMA WireStep ==
    ASSUME TypeOK, WireInv, [Next]_vars
    PROVE  WireInv'
<1> USE BoundsAreNatural, KindsAreDisjoint DEF managerVars, b2Vars, callVars, Calls,
        Circuited, Token, NoToken, TypeOK, Results, Definite, Replies, WireInv
<1>1. ASSUME NEW c \in Calls, Start(c) PROVE WireInv'
  BY <1>1 DEF Start
<1>2. ASSUME NEW c \in Calls, GetAuth(c) PROVE WireInv'
  BY <1>2 DEF GetAuth, Send, EndAttempt, SyncedAuth, SyncedFresh, SdkNews
<1>3. ASSUME NEW c \in Calls, ForceRefresh(c) PROVE WireInv'
  BY <1>3 DEF ForceRefresh, Invalidate
<1>4. ASSUME NEW c \in Calls, CircuitOpen(c) PROVE WireInv'
  BY <1>4 DEF CircuitOpen, EndAttempt
<1>5. ASSUME NEW c \in Calls, Headers(c) PROVE WireInv'
  BY <1>5 DEF Headers
<1>6. ASSUME NEW c \in Calls, Body(c) PROVE WireInv'
  BY <1>6 DEF Body, EndAttempt
<1>7. ASSUME NEW c \in Calls, BodyLost(c) PROVE WireInv'
  BY <1>7 DEF BodyLost, EndAttempt, Interrupted
<1>8. ASSUME NEW c \in Calls, SdkRefresh(c) PROVE WireInv'
  BY <1>8 DEF SdkRefresh
<1>9. ASSUME NEW c \in Calls, Retry(c) PROVE WireInv'
  BY <1>9 DEF Retry
<1>10. ASSUME NEW c \in Calls, Timeout(c) PROVE WireInv'
  BY <1>10 DEF Timeout, EndAttempt, Interrupted, GiveUp, Strays
<1>11. ASSUME NEW c \in Calls, CircuitTimeout(c) PROVE WireInv'
  BY <1>11 DEF CircuitTimeout, EndAttempt, GiveUp, Strays
<1>12. ASSUME NEW c \in Calls, AttemptAgain(c) PROVE WireInv'
  BY <1>12 DEF AttemptAgain, TriesAgain, Invalidate
<1>13. ASSUME NEW c \in Calls, Answer(c) PROVE WireInv'
  BY <1>13 DEF Answer, Sync, SyncedAuth, SyncedFresh, SdkNews
<1>14. ASSUME NEW c \in Calls, AbortWaiting(c) PROVE WireInv'
  BY <1>14 DEF AbortWaiting, EndAttempt
<1>15. ASSUME NEW c \in Calls, AbortSent(c) PROVE WireInv'
  BY <1>15 DEF AbortSent, EndAttempt, Interrupted, GiveUp, Strays
<1>16. ASSUME NEW c \in Calls, AbortElsewhere(c) PROVE WireInv'
  BY <1>16 DEF AbortElsewhere, TriesAgain
<1>17. ASSUME NEW c \in Calls, Serve(c) PROVE WireInv'
  BY <1>17 DEF Serve
<1>18. ASSUME NEW s \in stray, ServeStray(s) PROVE WireInv'
  BY <1>18 DEF ServeStray
<1>19. CASE AuthIssued
  BY <1>19 DEF AuthIssued
<1>20. CASE AuthArrives
  BY <1>20 DEF AuthArrives
<1>21. ASSUME NEW r \in {"unauthorized", "trouble"}, AuthFails(r) PROVE WireInv'
  BY <1>21 DEF AuthFails
<1>22. CASE AgeOut
  BY <1>22 DEF AgeOut
<1>23. ASSUME NEW t \in live, Expire(t) PROVE WireInv'
  BY <1>23 DEF Expire
<1>24. CASE UNCHANGED vars
  BY <1>24 DEF vars
<1> QED
  BY <1>1, <1>2, <1>3, <1>4, <1>5, <1>6, <1>7, <1>8, <1>9, <1>10, <1>11, <1>12, <1>13,
     <1>14, <1>15, <1>16, <1>17, <1>18, <1>19, <1>20, <1>21, <1>22, <1>23, <1>24 DEF Next,
     CallStep

\* No token is known before B2 issues it.
LEMMA TokensStep ==
    ASSUME TypeOK, TokensInv, [Next]_vars
    PROVE  TokensInv'
<1> USE BoundsAreNatural, KindsAreDisjoint DEF managerVars, b2Vars, callVars, Calls,
        Circuited, Token, NoToken, TypeOK, TokensInv
<1>1. ASSUME NEW c \in Calls, Start(c) PROVE TokensInv'
  BY <1>1 DEF Start
<1>2. ASSUME NEW c \in Calls, GetAuth(c) PROVE TokensInv'
  BY <1>2 DEF GetAuth, Send, EndAttempt, SyncedAuth, SyncedFresh, SdkNews
<1>3. ASSUME NEW c \in Calls, ForceRefresh(c) PROVE TokensInv'
  BY <1>3 DEF ForceRefresh, Invalidate
<1>4. ASSUME NEW c \in Calls, CircuitOpen(c) PROVE TokensInv'
  BY <1>4 DEF CircuitOpen, EndAttempt
<1>5. ASSUME NEW c \in Calls, Headers(c) PROVE TokensInv'
  BY <1>5 DEF Headers
<1>6. ASSUME NEW c \in Calls, Body(c) PROVE TokensInv'
  BY <1>6 DEF Body, EndAttempt
<1>7. ASSUME NEW c \in Calls, BodyLost(c) PROVE TokensInv'
  BY <1>7 DEF BodyLost, EndAttempt, Interrupted
<1>8. ASSUME NEW c \in Calls, SdkRefresh(c) PROVE TokensInv'
  BY <1>8 DEF SdkRefresh
<1>9. ASSUME NEW c \in Calls, Retry(c) PROVE TokensInv'
  BY <1>9 DEF Retry
<1>10. ASSUME NEW c \in Calls, Timeout(c) PROVE TokensInv'
  BY <1>10 DEF Timeout, EndAttempt, Interrupted, GiveUp, Strays
<1>11. ASSUME NEW c \in Calls, CircuitTimeout(c) PROVE TokensInv'
  BY <1>11 DEF CircuitTimeout, EndAttempt, GiveUp, Strays
<1>12. ASSUME NEW c \in Calls, AttemptAgain(c) PROVE TokensInv'
  BY <1>12 DEF AttemptAgain, TriesAgain, Invalidate
<1>13. ASSUME NEW c \in Calls, Answer(c) PROVE TokensInv'
  BY <1>13 DEF Answer, Sync, SyncedAuth, SyncedFresh, SdkNews
<1>14. ASSUME NEW c \in Calls, AbortWaiting(c) PROVE TokensInv'
  BY <1>14 DEF AbortWaiting, EndAttempt
<1>15. ASSUME NEW c \in Calls, AbortSent(c) PROVE TokensInv'
  BY <1>15 DEF AbortSent, EndAttempt, Interrupted, GiveUp, Strays
<1>16. ASSUME NEW c \in Calls, AbortElsewhere(c) PROVE TokensInv'
  BY <1>16 DEF AbortElsewhere, TriesAgain
<1>17. ASSUME NEW c \in Calls, Serve(c) PROVE TokensInv'
  BY <1>17 DEF Serve
<1>18. ASSUME NEW s \in stray, ServeStray(s) PROVE TokensInv'
  BY <1>18 DEF ServeStray
<1>19. CASE AuthIssued
  BY <1>19 DEF AuthIssued
<1>20. CASE AuthArrives
  BY <1>20 DEF AuthArrives
<1>21. ASSUME NEW r \in {"unauthorized", "trouble"}, AuthFails(r) PROVE TokensInv'
  BY <1>21 DEF AuthFails
<1>22. CASE AgeOut
  BY <1>22 DEF AgeOut
<1>23. ASSUME NEW t \in live, Expire(t) PROVE TokensInv'
  BY <1>23 DEF Expire
<1>24. CASE UNCHANGED vars
  BY <1>24 DEF vars
<1> QED
  BY <1>1, <1>2, <1>3, <1>4, <1>5, <1>6, <1>7, <1>8, <1>9, <1>10, <1>11, <1>12, <1>13,
     <1>14, <1>15, <1>16, <1>17, <1>18, <1>19, <1>20, <1>21, <1>22, <1>23, <1>24 DEF Next,
     CallStep

\* The token on its way stays unknown until it arrives.
LEMMA IssuedStep ==
    ASSUME TypeOK, TokensInv, IssuedInv, [Next]_vars
    PROVE  IssuedInv'
<1> USE BoundsAreNatural, KindsAreDisjoint DEF managerVars, b2Vars, callVars, Calls,
        Circuited, Token, NoToken, TypeOK, TokensInv, IssuedInv
<1>1. ASSUME NEW c \in Calls, Start(c) PROVE IssuedInv'
  BY <1>1 DEF Start
<1>2. ASSUME NEW c \in Calls, GetAuth(c) PROVE IssuedInv'
  <2>1. issued # NoToken => issued # SyncedAuth
    BY SyncedType
  <2>2. UNCHANGED <<sdkAuth, issued>> /\ cachedAuth' = SyncedAuth /\ (inflight => inflight')
    BY <1>2 DEF GetAuth
  <2>3. \A d \in Calls : token'[d] \in {token[d], SyncedAuth}
    BY <1>2 DEF GetAuth, Send
  <2> QED BY <2>1, <2>2, <2>3
<1>3. ASSUME NEW c \in Calls, ForceRefresh(c) PROVE IssuedInv'
  BY <1>3 DEF ForceRefresh, Invalidate
<1>4. ASSUME NEW c \in Calls, CircuitOpen(c) PROVE IssuedInv'
  BY <1>4 DEF CircuitOpen, EndAttempt
<1>5. ASSUME NEW c \in Calls, Headers(c) PROVE IssuedInv'
  BY <1>5 DEF Headers
<1>6. ASSUME NEW c \in Calls, Body(c) PROVE IssuedInv'
  BY <1>6 DEF Body, EndAttempt
<1>7. ASSUME NEW c \in Calls, BodyLost(c) PROVE IssuedInv'
  BY <1>7 DEF BodyLost, EndAttempt, Interrupted
<1>8. ASSUME NEW c \in Calls, SdkRefresh(c) PROVE IssuedInv'
  BY <1>8 DEF SdkRefresh
<1>9. ASSUME NEW c \in Calls, Retry(c) PROVE IssuedInv'
  BY <1>9 DEF Retry
<1>10. ASSUME NEW c \in Calls, Timeout(c) PROVE IssuedInv'
  BY <1>10 DEF Timeout, EndAttempt, Interrupted, GiveUp, Strays
<1>11. ASSUME NEW c \in Calls, CircuitTimeout(c) PROVE IssuedInv'
  BY <1>11 DEF CircuitTimeout, EndAttempt, GiveUp, Strays
<1>12. ASSUME NEW c \in Calls, AttemptAgain(c) PROVE IssuedInv'
  BY <1>12 DEF AttemptAgain, TriesAgain, Invalidate
<1>13. ASSUME NEW c \in Calls, Answer(c) PROVE IssuedInv'
  BY <1>13 DEF Answer, Sync, SyncedAuth, SyncedFresh, SdkNews
<1>14. ASSUME NEW c \in Calls, AbortWaiting(c) PROVE IssuedInv'
  BY <1>14 DEF AbortWaiting, EndAttempt
<1>15. ASSUME NEW c \in Calls, AbortSent(c) PROVE IssuedInv'
  BY <1>15 DEF AbortSent, EndAttempt, Interrupted, GiveUp, Strays
<1>16. ASSUME NEW c \in Calls, AbortElsewhere(c) PROVE IssuedInv'
  BY <1>16 DEF AbortElsewhere, TriesAgain
<1>17. ASSUME NEW c \in Calls, Serve(c) PROVE IssuedInv'
  BY <1>17 DEF Serve
<1>18. ASSUME NEW s \in stray, ServeStray(s) PROVE IssuedInv'
  BY <1>18 DEF ServeStray
<1>19. CASE AuthIssued
  BY <1>19 DEF AuthIssued
<1>20. CASE AuthArrives
  BY <1>20 DEF AuthArrives
<1>21. ASSUME NEW r \in {"unauthorized", "trouble"}, AuthFails(r) PROVE IssuedInv'
  BY <1>21 DEF AuthFails
<1>22. CASE AgeOut
  BY <1>22 DEF AgeOut
<1>23. ASSUME NEW t \in live, Expire(t) PROVE IssuedInv'
  BY <1>23 DEF Expire
<1>24. CASE UNCHANGED vars
  BY <1>24 DEF vars
<1> QED
  BY <1>1, <1>2, <1>3, <1>4, <1>5, <1>6, <1>7, <1>8, <1>9, <1>10, <1>11, <1>12, <1>13,
     <1>14, <1>15, <1>16, <1>17, <1>18, <1>19, <1>20, <1>21, <1>22, <1>23, <1>24 DEF Next,
     CallStep

\* A refused token never comes back.
LEMMA RefusedStep ==
    ASSUME TypeOK, TokensInv, IssuedInv, RefusedInv, [Next]_vars
    PROVE  RefusedInv'
<1> USE BoundsAreNatural, KindsAreDisjoint DEF managerVars, b2Vars, callVars, Calls,
        Circuited, Token, NoToken, TypeOK, TokensInv, IssuedInv, RefusedInv
<1>1. ASSUME NEW c \in Calls, Start(c) PROVE RefusedInv'
  BY <1>1 DEF Start
<1>2. ASSUME NEW c \in Calls, GetAuth(c) PROVE RefusedInv'
  BY <1>2 DEF GetAuth, Send, EndAttempt, SyncedAuth, SyncedFresh, SdkNews
<1>3. ASSUME NEW c \in Calls, ForceRefresh(c) PROVE RefusedInv'
  BY <1>3 DEF ForceRefresh, Invalidate
<1>4. ASSUME NEW c \in Calls, CircuitOpen(c) PROVE RefusedInv'
  BY <1>4 DEF CircuitOpen, EndAttempt
<1>5. ASSUME NEW c \in Calls, Headers(c) PROVE RefusedInv'
  BY <1>5 DEF Headers
<1>6. ASSUME NEW c \in Calls, Body(c) PROVE RefusedInv'
  BY <1>6 DEF Body, EndAttempt
<1>7. ASSUME NEW c \in Calls, BodyLost(c) PROVE RefusedInv'
  BY <1>7 DEF BodyLost, EndAttempt, Interrupted
<1>8. ASSUME NEW c \in Calls, SdkRefresh(c) PROVE RefusedInv'
  BY <1>8 DEF SdkRefresh
<1>9. ASSUME NEW c \in Calls, Retry(c) PROVE RefusedInv'
  BY <1>9 DEF Retry
<1>10. ASSUME NEW c \in Calls, Timeout(c) PROVE RefusedInv'
  BY <1>10 DEF Timeout, EndAttempt, Interrupted, GiveUp, Strays
<1>11. ASSUME NEW c \in Calls, CircuitTimeout(c) PROVE RefusedInv'
  BY <1>11 DEF CircuitTimeout, EndAttempt, GiveUp, Strays
<1>12. ASSUME NEW c \in Calls, AttemptAgain(c) PROVE RefusedInv'
  BY <1>12 DEF AttemptAgain, TriesAgain, Invalidate
<1>13. ASSUME NEW c \in Calls, Answer(c) PROVE RefusedInv'
  BY <1>13 DEF Answer, Sync, SyncedAuth, SyncedFresh, SdkNews
<1>14. ASSUME NEW c \in Calls, AbortWaiting(c) PROVE RefusedInv'
  BY <1>14 DEF AbortWaiting, EndAttempt
<1>15. ASSUME NEW c \in Calls, AbortSent(c) PROVE RefusedInv'
  BY <1>15 DEF AbortSent, EndAttempt, Interrupted, GiveUp, Strays
<1>16. ASSUME NEW c \in Calls, AbortElsewhere(c) PROVE RefusedInv'
  BY <1>16 DEF AbortElsewhere, TriesAgain
<1>17. ASSUME NEW c \in Calls, Serve(c) PROVE RefusedInv'
  BY <1>17 DEF Serve
<1>18. ASSUME NEW s \in stray, ServeStray(s) PROVE RefusedInv'
  BY <1>18 DEF ServeStray
<1>19. CASE AuthIssued
  BY <1>19 DEF AuthIssued
<1>20. CASE AuthArrives
  BY <1>20 DEF AuthArrives
<1>21. ASSUME NEW r \in {"unauthorized", "trouble"}, AuthFails(r) PROVE RefusedInv'
  BY <1>21 DEF AuthFails
<1>22. CASE AgeOut
  BY <1>22 DEF AgeOut
<1>23. ASSUME NEW t \in live, Expire(t) PROVE RefusedInv'
  BY <1>23 DEF Expire
<1>24. CASE UNCHANGED vars
  BY <1>24 DEF vars
<1> QED
  BY <1>1, <1>2, <1>3, <1>4, <1>5, <1>6, <1>7, <1>8, <1>9, <1>10, <1>11, <1>12, <1>13,
     <1>14, <1>15, <1>16, <1>17, <1>18, <1>19, <1>20, <1>21, <1>22, <1>23, <1>24 DEF Next,
     CallStep

\* Every step keeps the account of each write.
LEMMA WriteStep ==
    ASSUME TypeOK, WireInv, WriteInv, [Next]_vars
    PROVE  WriteInv'
<1> USE BoundsAreNatural, KindsAreDisjoint DEF managerVars, b2Vars, callVars, Calls,
        Circuited, Token, NoToken, TypeOK, Results, Definite, Replies, WireInv, WriteInv,
        Untouched, Written, Pending
<1>1. ASSUME NEW c \in Calls, Start(c) PROVE WriteInv'
  BY <1>1 DEF Start
<1>2. ASSUME NEW c \in Calls, GetAuth(c) PROVE WriteInv'
  BY <1>2 DEF GetAuth, Send, EndAttempt, SyncedAuth, SyncedFresh, SdkNews
<1>3. ASSUME NEW c \in Calls, ForceRefresh(c) PROVE WriteInv'
  BY <1>3 DEF ForceRefresh, Invalidate
<1>4. ASSUME NEW c \in Calls, CircuitOpen(c) PROVE WriteInv'
  BY <1>4 DEF CircuitOpen, EndAttempt
<1>5. ASSUME NEW c \in Calls, Headers(c) PROVE WriteInv'
  BY <1>5 DEF Headers
<1>6. ASSUME NEW c \in Calls, Body(c) PROVE WriteInv'
  BY <1>6 DEF Body, EndAttempt
<1>7. ASSUME NEW c \in Calls, BodyLost(c) PROVE WriteInv'
  BY <1>7 DEF BodyLost, EndAttempt, Interrupted
<1>8. ASSUME NEW c \in Calls, SdkRefresh(c) PROVE WriteInv'
  BY <1>8 DEF SdkRefresh
<1>9. ASSUME NEW c \in Calls, Retry(c) PROVE WriteInv'
  BY <1>9 DEF Retry
<1>10. ASSUME NEW c \in Calls, Timeout(c) PROVE WriteInv'
  BY <1>10 DEF Timeout, EndAttempt, Interrupted, GiveUp, Strays
<1>11. ASSUME NEW c \in Calls, CircuitTimeout(c) PROVE WriteInv'
  BY <1>11 DEF CircuitTimeout, EndAttempt, GiveUp, Strays
<1>12. ASSUME NEW c \in Calls, AttemptAgain(c) PROVE WriteInv'
  BY <1>12 DEF AttemptAgain, TriesAgain, Invalidate
<1>13. ASSUME NEW c \in Calls, Answer(c) PROVE WriteInv'
  BY <1>13 DEF Answer, Sync, SyncedAuth, SyncedFresh, SdkNews
<1>14. ASSUME NEW c \in Calls, AbortWaiting(c) PROVE WriteInv'
  BY <1>14 DEF AbortWaiting, EndAttempt
<1>15. ASSUME NEW c \in Calls, AbortSent(c) PROVE WriteInv'
  BY <1>15 DEF AbortSent, EndAttempt, Interrupted, GiveUp, Strays
<1>16. ASSUME NEW c \in Calls, AbortElsewhere(c) PROVE WriteInv'
  BY <1>16 DEF AbortElsewhere, TriesAgain
<1>17. ASSUME NEW c \in Calls, Serve(c) PROVE WriteInv'
  BY <1>17 DEF Serve
<1>18. ASSUME NEW s \in stray, ServeStray(s) PROVE WriteInv'
  BY <1>18 DEF ServeStray
<1>19. CASE AuthIssued
  BY <1>19 DEF AuthIssued
<1>20. CASE AuthArrives
  BY <1>20 DEF AuthArrives
<1>21. ASSUME NEW r \in {"unauthorized", "trouble"}, AuthFails(r) PROVE WriteInv'
  BY <1>21 DEF AuthFails
<1>22. CASE AgeOut
  BY <1>22 DEF AgeOut
<1>23. ASSUME NEW t \in live, Expire(t) PROVE WriteInv'
  BY <1>23 DEF Expire
<1>24. CASE UNCHANGED vars
  BY <1>24 DEF vars
<1> QED
  BY <1>1, <1>2, <1>3, <1>4, <1>5, <1>6, <1>7, <1>8, <1>9, <1>10, <1>11, <1>12, <1>13,
     <1>14, <1>15, <1>16, <1>17, <1>18, <1>19, <1>20, <1>21, <1>22, <1>23, <1>24 DEF Next,
     CallStep

-----------------------------------------------------------------------------
\* A manager just created holds no token and has made no call.
LEMMA InitIInv == Init => IInv
<1> SUFFICES ASSUME Init PROVE IInv
  OBVIOUS
<1> USE BoundsAreNatural, KindsAreDisjoint DEF Init, Calls, Circuited, Token, NoToken
<1>1. TypeOK
  <2>1. 0 \in 0..MaxTokens /\ 0 \in 0..MaxRetries
    OBVIOUS
  <2>2. /\ retries \in [Calls -> 0..MaxRetries]
        /\ applied \in [Writers -> Nat] /\ attempt \in [Calls -> {0, 1}]
    BY <2>1
  <2>3. /\ token \in [Calls -> Token \cup {NoToken}]
        /\ refused \in [Calls -> Token \cup {NoToken}]
        /\ aborted \in [Calls -> BOOLEAN]
    OBVIOUS
  <2>4. /\ pc \in [Calls -> {"idle", "firing", "waiting", "sent", "reading",
                            "settling", "done"}]
        /\ wire \in [Calls -> {"none", "flying"} \cup Replies]
        /\ result \in [Calls -> {"none"} \cup Results]
    OBVIOUS
  <2>5. cachedAuth \in Token \cup {NoToken} /\ sdkAuth \in Token \cup {NoToken}
        /\ issued \in Token \cup {NoToken} /\ minted \in 0..MaxTokens
    BY <2>1
  <2>6. /\ fresh \in BOOLEAN /\ inflight \in BOOLEAN
        /\ live \subseteq Token /\ stray \subseteq (Writers \X Token)
    OBVIOUS
  <2> QED BY <2>2, <2>3, <2>4, <2>5, <2>6 DEF TypeOK
<1>2. AbortsArePrivate
  BY DEF AbortsArePrivate
<1>3. TokensInv /\ IssuedInv /\ RefusedInv
  BY DEF TokensInv, IssuedInv, RefusedInv
<1>4. WireInv /\ WriteInv
  BY DEF WireInv, WriteInv, Untouched
<1> QED BY <1>1, <1>2, <1>3, <1>4 DEF IInv

\* The layers hold together in every state the calls can reach.
THEOREM Inductive == Spec => []IInv
<1>1. IInv /\ [Next]_vars => IInv'
  BY TypeStep, AbortStep, WireStep, TokensStep, IssuedStep, RefusedStep, WriteStep DEF IInv
<1> QED BY InitIInv, <1>1, PTL DEF Spec

\* The manager, B2 and every call stay within their types; the attempts of a
\* call in withNativeCircuit number at most two.
THEOREM TypeCorrect == Spec => []TypeOK
<1>1. IInv => TypeOK
  BY DEF IInv
<1> QED BY Inductive, <1>1, PTL

\* No interleaving of lost answers, aborts, circuit timeouts, token renewals by
\* the SDK and second attempts carries a write out twice.
THEOREM WritesOnce == Spec => []WritesHappenOnce
<1>1. IInv => WritesHappenOnce
  <2> SUFFICES ASSUME IInv, NEW w \in Writers PROVE applied[w] <= 1
    BY DEF WritesHappenOnce
  <2>1. pc[w] \in {"idle", "firing", "waiting", "sent", "reading", "settling", "done"}
    BY DEF IInv, TypeOK, Calls, Circuited
  <2>2. Untouched(w) \/ Written(w) \/ Pending(w)
    BY <2>1 DEF IInv, WriteInv
  <2> QED BY <2>2 DEF Untouched, Written, Pending
<1> QED BY Inductive, <1>1, PTL

\* A write refused with a status below 500 other than 408, aborted before it was
\* sent or stopped by the open circuit did not and will not happen; one reported
\* as done did.
THEOREM TrueAnswers == Spec => []AnswersAreTrue
<1>1. IInv => AnswersAreTrue
  BY DEF IInv, WriteInv, AnswersAreTrue, Untouched, Written
<1> QED BY Inductive, <1>1, PTL

\* A caller that leaves a shared authorization takes nobody else with it.
THEOREM PrivateAborts == Spec => []AbortsArePrivate
<1>1. IInv => AbortsArePrivate
  BY DEF IInv
<1> QED BY Inductive, <1>1, PTL

\* The token that a 401 refused reaches the second attempt from neither cache,
\* nor from an authorization that other calls have in flight.
THEOREM RefusedStaysOut == Spec => []RefusedTokenStaysOut
<1>1. IInv => RefusedTokenStaysOut
  BY DEF IInv, RefusedInv, RefusedTokenStaysOut
<1> QED BY Inductive, <1>1, PTL
====
