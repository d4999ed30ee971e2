------------------------ MODULE KeystoneClientProofs ------------------------
(* Proofs about KeystoneClient for any number of requests and tokens, any    *)
(* lifetimes and any number of revocations.                                  *)
EXTENDS KeystoneClient, TLAPS

(* A request holds Keystone's answer only after its call, and a positive one *)
(* only for a token that was confirmed.                                      *)
RepliesSound ==
    \A r \in Requests :
        /\ pc[r] \notin {"answered", "caching", "accepted", "rejected"} => reply[r] = "none"
        /\ pc[r] = "caching" => reply[r] = "200"
        /\ reply[r] = "200" => presented[r] \in confirmed

AdmissionInv == TypeOK /\ RepliesSound /\ AdmittedWasConfirmed

(* The token sent with a validation outlives the call, and one on its way to *)
(* the client has lost no more of its lifetime than the call has lasted.     *)
Margin ==
    \A r \in Requests :
        /\ pc[r] = "validating" => held[r].left > wait[r]
        /\ pc[r] = "issued" => held[r].left + Timeout >= Lifetime + wait[r]

AmpleLife == Skew >= Timeout /\ Lifetime > 2 * Timeout
-----------------------------------------------------------------------------
LEMMA TokenTypes ==
    /\ NoToken \in ServiceTokens
    /\ FreshToken \in ServiceTokens
    /\ FreshToken.left = Lifetime
    /\ \A token \in ServiceTokens :
          Older(token) \in ServiceTokens /\ Revoked(token) \in ServiceTokens
    /\ \A token \in SubjectTokens :
          Older(token) \in SubjectTokens /\ Revoked(token) \in SubjectTokens
<1> USE KeystoneAssumption
<1>1. NoToken \in ServiceTokens
  BY DEF NoToken, ServiceTokens
<1>2. FreshToken \in ServiceTokens /\ FreshToken.left = Lifetime
  BY DEF FreshToken, ServiceTokens
<1>3. ASSUME NEW max \in Nat, NEW token \in [left : 0..max, good : BOOLEAN]
      PROVE  /\ Older(token) \in [left : 0..max, good : BOOLEAN]
             /\ Revoked(token) \in [left : 0..max, good : BOOLEAN]
  <2>1. Older(token) = [left |-> IF token.left > 0 THEN token.left - 1 ELSE 0,
                        good |-> token.good]
    BY DEF Older
  <2>2. Revoked(token) \in [left : 0..max, good : BOOLEAN]
    BY DEF Revoked
  <2> QED BY <2>1, <2>2
<1> QED BY <1>1, <1>2, <1>3 DEF ServiceTokens, SubjectTokens

(* One tick takes at most one from a token's life; revoking takes nothing.   *)
LEMMA Ageing ==
    ASSUME NEW token \in ServiceTokens
    PROVE  /\ Older(token).left + 1 >= token.left
           /\ Older(token).left \in Nat
           /\ Revoked(token).left = token.left
  BY KeystoneAssumption DEF ServiceTokens, Older, Revoked

LEMMA TypeInit == Init => TypeOK
  BY KeystoneAssumption, TokenTypes DEF Init, TypeOK, Stations

LEMMA TypeNext == TypeOK /\ [Next]_vars => TypeOK'
<1> SUFFICES ASSUME TypeOK, [Next]_vars PROVE TypeOK'
  OBVIOUS
<1> USE KeystoneAssumption DEF TypeOK, Stations, Goto, StartCall, client, keystone
<1>1. ASSUME NEW r \in Requests, Lookup(r) PROVE TypeOK'
  BY <1>1 DEF Lookup, CacheHit, CacheMiss
<1>2. ASSUME NEW r \in Requests, ReadService(r) PROVE TypeOK'
  BY <1>2 DEF ReadService
<1>3. ASSUME NEW r \in Requests, UseCached(r) \/ Authenticate(r) PROVE TypeOK'
  BY <1>3 DEF UseCached, Authenticate
<1>4. ASSUME NEW r \in Requests, StoreToken(r) PROVE TypeOK'
  BY <1>4 DEF StoreToken
<1>5. ASSUME NEW r \in Requests, Accept(r) PROVE TypeOK'
  BY <1>5 DEF Accept
<1>15. ASSUME NEW r \in Requests, CacheContext(r) PROVE TypeOK'
  BY <1>15 DEF CacheContext
<1>6. ASSUME NEW r \in Requests, Reject(r) \/ GiveUp(r) \/ CallFails(r) PROVE TypeOK'
  BY <1>6 DEF Reject, GiveUp, CallFails
<1>7. ASSUME NEW r \in Requests, NEW t \in Subjects, Arrive(r, t) PROVE TypeOK'
  BY <1>7 DEF Arrive
<1>8. ASSUME NEW r \in Requests, Return(r) PROVE TypeOK'
  BY <1>8, TokenTypes DEF Return
<1>9. ASSUME NEW r \in Requests, IssueToken(r) PROVE TypeOK'
  BY <1>9, TokenTypes DEF IssueToken
<1>10. ASSUME NEW r \in Requests, AnswerValidation(r) PROVE TypeOK'
  <2>1. Verdict(r) \in {"200", "401", "404"}
    BY DEF Verdict
  <2> QED BY <1>10, <2>1 DEF AnswerValidation
<1>11. CASE RevokeService
  BY <1>11, TokenTypes DEF RevokeService
<1>12. ASSUME NEW t \in Subjects, RevokeSubject(t) PROVE TypeOK'
  BY <1>12, TokenTypes DEF RevokeSubject
<1>13. CASE Tick
  <2>1. wait' \in [Requests -> 0..Timeout]
    BY <1>13 DEF Tick
  <2>2. service' \in ServiceTokens /\ held' \in [Requests -> ServiceTokens]
    BY <1>13, TokenTypes DEF Tick
  <2>3. subject' \in [Subjects -> SubjectTokens]
    BY <1>13, TokenTypes DEF Tick
  <2> QED BY <1>13, <2>1, <2>2, <2>3 DEF Tick
<1>14. CASE UNCHANGED vars
  BY <1>14 DEF vars
<1> QED BY <1>1, <1>2, <1>3, <1>4, <1>5, <1>6, <1>7, <1>8, <1>9, <1>10, <1>11,
           <1>12, <1>13, <1>14, <1>15 DEF Next, ClientStep, ServiceAuth, Conclude

(* Every reachable state is well typed, for all lifetimes and timeouts.      *)
THEOREM TypeCorrect == Spec => []TypeOK
  BY TypeInit, TypeNext, PTL DEF Spec
-----------------------------------------------------------------------------
LEMMA AdmissionNext == AdmissionInv /\ [Next]_vars => AdmissionInv'
<1> SUFFICES ASSUME AdmissionInv, [Next]_vars
             PROVE  RepliesSound' /\ AdmittedWasConfirmed'
  BY TypeNext DEF AdmissionInv
<1> USE DEF AdmissionInv, TypeOK, RepliesSound, AdmittedWasConfirmed, Goto, StartCall,
            client, keystone
<1> DEFINE Goal == RepliesSound' /\ AdmittedWasConfirmed'
<1>1. ASSUME NEW r \in Requests, Lookup(r) PROVE Goal
  BY <1>1 DEF Lookup, CacheHit, CacheMiss
<1>2. ASSUME NEW r \in Requests, ServiceAuth(r) PROVE Goal
  BY <1>2 DEF ServiceAuth, ReadService, UseCached, Authenticate, StoreToken
<1>3. ASSUME NEW r \in Requests, Accept(r) PROVE Goal
  BY <1>3 DEF Accept, Accepted
<1>11. ASSUME NEW r \in Requests, CacheContext(r) PROVE Goal
  BY <1>11 DEF CacheContext
<1>4. ASSUME NEW r \in Requests, Reject(r) \/ GiveUp(r) \/ CallFails(r) PROVE Goal
  BY <1>4 DEF Reject, GiveUp, CallFails
<1>5. ASSUME NEW r \in Requests, NEW t \in Subjects, Arrive(r, t) PROVE Goal
  BY <1>5 DEF Arrive
<1>6. ASSUME NEW r \in Requests, Return(r) PROVE Goal
  BY <1>6 DEF Return
<1>7. ASSUME NEW r \in Requests, IssueToken(r) PROVE Goal
  BY <1>7 DEF IssueToken
<1>8. ASSUME NEW r \in Requests, AnswerValidation(r) PROVE Goal
  BY <1>8 DEF AnswerValidation
<1>9. CASE RevokeService \/ Tick \/ \E t \in Subjects : RevokeSubject(t)
  BY <1>9 DEF RevokeService, Tick, RevokeSubject
<1>10. CASE UNCHANGED vars
  BY <1>10 DEF vars
<1> QED BY <1>1, <1>2, <1>3, <1>4, <1>5, <1>6, <1>7, <1>8, <1>9, <1>10, <1>11
        DEF Next, ClientStep, Conclude

(* No request is ever admitted with a token Keystone has not confirmed.      *)
THEOREM AdmittedAlwaysConfirmed == Spec => []AdmittedWasConfirmed
<1>1. Init => AdmissionInv
  BY TypeInit DEF Init, AdmissionInv, RepliesSound, AdmittedWasConfirmed
<1>2. AdmissionInv => AdmittedWasConfirmed
  BY DEF AdmissionInv
<1> QED BY <1>1, <1>2, AdmissionNext, PTL DEF Spec

(* Tokens only get worse. *)
LEMMA NeverBetter ==
    ASSUME NEW token \in SubjectTokens
    PROVE  /\ Valid(Older(token)) => Valid(token)
           /\ Valid(Revoked(token)) => Valid(token)
           /\ Older(token).left > 0 => token.left > 0
           /\ Revoked(token).left = token.left
  BY KeystoneAssumption DEF SubjectTokens, Valid, Older, Revoked

LEMMA GoneNext ==
    ASSUME TypeOK, [Next]_vars, NEW t \in Subjects, Gone(t)
    PROVE  Gone(t)'
<1> USE DEF TypeOK, Gone, MayCache, Goto, StartCall, client, keystone
<1>1. ASSUME NEW r \in Requests, Lookup(r) PROVE Gone(t)'
  BY <1>1 DEF Lookup, CacheHit, CacheMiss
<1>2. ASSUME NEW r \in Requests, ServiceAuth(r) PROVE Gone(t)'
  BY <1>2 DEF ServiceAuth, ReadService, UseCached, Authenticate, StoreToken
<1>3. ASSUME NEW r \in Requests, Accept(r) PROVE Gone(t)'
  BY <1>3 DEF Accept, Accepted, WorthCaching
<1>4. ASSUME NEW r \in Requests, CacheContext(r) PROVE Gone(t)'
  BY <1>4 DEF CacheContext
<1>5. ASSUME NEW r \in Requests, Reject(r) \/ GiveUp(r) \/ CallFails(r) PROVE Gone(t)'
  BY <1>5 DEF Reject, GiveUp, CallFails
<1>6. ASSUME NEW r \in Requests, NEW s \in Subjects, Arrive(r, s) PROVE Gone(t)'
  BY <1>6 DEF Arrive
<1>7. ASSUME NEW r \in Requests, Return(r) \/ IssueToken(r) PROVE Gone(t)'
  BY <1>7 DEF Return, IssueToken
<1>8. ASSUME NEW r \in Requests, AnswerValidation(r) PROVE Gone(t)'
  BY <1>8 DEF AnswerValidation, Verdict
<1>9. CASE RevokeService
  BY <1>9 DEF RevokeService
<1>10. ASSUME NEW s \in Subjects, RevokeSubject(s) PROVE Gone(t)'
  <2>1. subject'[t] = subject[t] \/ subject'[t] = Revoked(subject[t])
    BY <1>10 DEF RevokeSubject
  <2> QED BY <1>10, <2>1, NeverBetter DEF RevokeSubject
<1>11. CASE Tick
  <2>1. subject'[t] = Older(subject[t])
    BY <1>11 DEF Tick
  <2> QED BY <1>11, <2>1, NeverBetter DEF Tick
<1>12. CASE UNCHANGED vars
  BY <1>12 DEF vars
<1> QED BY <1>1, <1>2, <1>3, <1>4, <1>5, <1>6, <1>7, <1>8, <1>9, <1>10, <1>11, <1>12
        DEF Next, ClientStep, Conclude

(* A token Keystone no longer honours, and for which no good answer is on    *)
(* its way, never enters the cache any more.                                 *)
THEOREM GoneForGood == Spec => GoneStaysGone
<1>1. TypeOK /\ [Next]_vars => [\A t \in Subjects : Gone(t) => Gone(t)']_vars
  BY GoneNext
<1> QED BY <1>1, TypeCorrect, PTL DEF Spec, GoneStaysGone
-----------------------------------------------------------------------------
LEMMA MarginNext ==
    ASSUME AmpleLife, TypeOK, Margin, [Next]_vars
    PROVE  Margin'
<1> USE KeystoneAssumption DEF TypeOK, Margin, Goto, StartCall, client, keystone
<1>0. \A r \in Requests : held[r].left \in Nat /\ wait[r] \in Nat /\ wait[r] <= Timeout
  BY DEF ServiceTokens
<1>1. ASSUME NEW r \in Requests, Lookup(r) PROVE Margin'
  BY <1>1 DEF Lookup, CacheHit, CacheMiss
<1>2. ASSUME NEW r \in Requests, ReadService(r) PROVE Margin'
  BY <1>2 DEF ReadService
<1>3. ASSUME NEW r \in Requests, UseCached(r) PROVE Margin'
  BY <1>0, <1>3 DEF UseCached, Usable, AmpleLife
<1>4. ASSUME NEW r \in Requests, Authenticate(r) PROVE Margin'
  BY <1>4 DEF Authenticate
<1>5. ASSUME NEW r \in Requests, StoreToken(r) PROVE Margin'
  <2>1. held[r].left > Timeout
    BY <1>0, <1>5 DEF StoreToken, AmpleLife
  <2> QED BY <1>5, <2>1 DEF StoreToken
<1>6. ASSUME NEW r \in Requests, Conclude(r) \/ CallFails(r) PROVE Margin'
  BY <1>6 DEF Conclude, Accept, CacheContext, Reject, GiveUp, CallFails
<1>7. ASSUME NEW r \in Requests, NEW t \in Subjects, Arrive(r, t) PROVE Margin'
  BY <1>7 DEF Arrive
<1>8. ASSUME NEW r \in Requests, Return(r) PROVE Margin'
  BY <1>8 DEF Return
<1>9. ASSUME NEW r \in Requests, IssueToken(r) PROVE Margin'
  BY <1>0, <1>9, TokenTypes DEF IssueToken
<1>10. ASSUME NEW r \in Requests, AnswerValidation(r) PROVE Margin'
  BY <1>10 DEF AnswerValidation
<1>11. CASE RevokeService
  BY <1>11, Ageing DEF RevokeService
<1>12. CASE Tick
  <2> SUFFICES ASSUME NEW r \in Requests
               PROVE  /\ pc[r] = "validating" => held'[r].left > wait'[r]
                      /\ pc[r] = "issued" => held'[r].left + Timeout >= Lifetime + wait'[r]
    BY <1>12 DEF Tick
  <2>1. pc[r] \in Calling => wait'[r] = wait[r] - 1
    BY <1>12 DEF Tick
  <2>2. held'[r].left + 1 >= held[r].left /\ held'[r].left \in Nat
    BY <1>12, Ageing DEF Tick
  <2> QED BY <1>0, <2>1, <2>2 DEF Calling
<1>13. CASE (\E t \in Subjects : RevokeSubject(t)) \/ UNCHANGED vars
  BY <1>13 DEF RevokeSubject, vars
<1> QED BY <1>1, <1>2, <1>3, <1>4, <1>5, <1>6, <1>7, <1>8, <1>9, <1>10, <1>11,
           <1>12, <1>13 DEF Next, ClientStep, ServiceAuth

(* If the margin before expiry is at least the HTTP timeout, and Keystone's  *)
(* tokens live longer than two calls, then no validation is ever under way   *)
(* with a service token that has expired.                                    *)
THEOREM ServiceTokenAlwaysLive ==
    ASSUME AmpleLife
    PROVE  Spec => []ServiceTokenLiveAtUse
<1>1. Init => Margin
  BY DEF Init, Margin
<1>2. TypeOK /\ Margin => ServiceTokenLiveAtUse
  BY DEF TypeOK, Margin, ServiceTokenLiveAtUse, ServiceTokens
<1>3. TypeOK /\ Margin /\ [Next]_vars => Margin'
  BY MarginNext
<1> QED BY <1>1, <1>2, <1>3, TypeCorrect, PTL DEF Spec
=============================================================================
