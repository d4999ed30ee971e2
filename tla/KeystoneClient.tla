--------------------------- MODULE KeystoneClient ---------------------------
(* internal/keystone/client.go and authMiddleware of internal/server: the    *)
(* admission of requests.  The client keeps the token of its own service     *)
(* user and the context of every subject token Keystone has confirmed; both  *)
(* are shared by all requests, and every HTTP call to Keystone is made       *)
(* outside the lock.                                                         *)
(*                                                                           *)
(* Time is discrete and relative: a token is its remaining lifetime and      *)
(* whether Keystone still honours it, and the passing of time ages every     *)
(* token and every pending call by one.  The proxy and Keystone agree on the *)
(* time.  What a context says of its user is abstracted to its token.        *)
EXTENDS Naturals

CONSTANTS
    Requests,       \* HTTP requests in service at a time
    Subjects,       \* tokens that clients present
    SubjectLife,    \* longest remaining lifetime of a subject token
    Lifetime,       \* lifetime of a fresh service token
    Timeout,        \* httpClient.Timeout (20 s)
    Skew,           \* keystone.service_token_skew (30 s by default)
    MaxRevocations  \* bound on revocations by Keystone's operators

ASSUME KeystoneAssumption ==
    /\ SubjectLife \in Nat
    /\ Lifetime \in Nat
    /\ Timeout \in Nat
    /\ Skew \in Nat
    /\ MaxRevocations \in Nat

VARIABLES
    service,      \* Client.serviceToken
    tokenCache,   \* Client.tokenCache: the subject tokens it has contexts for
    subject,      \* Keystone's view of each subject token
    confirmed,    \* history: subject tokens Keystone has answered 200 for
    revocations,  \* revocations so far
    pc,           \* where each request is
    presented,    \* the X-Auth-Token of each request
    held,         \* the service token each request works with
    wait,         \* time left before the HTTP client gives up on its call
    reply         \* Keystone's answer to each request's validation

vars == <<service, tokenCache, subject, confirmed, revocations, pc, presented,
          held, wait, reply>>

client == <<service, tokenCache>>
keystone == <<subject, confirmed, revocations>>

ServiceTokens == [left : 0..Lifetime, good : BOOLEAN]
SubjectTokens == [left : 0..SubjectLife, good : BOOLEAN]

NoToken == [left |-> 0, good |-> FALSE]        \* cachedServiceToken{}
FreshToken == [left |-> Lifetime, good |-> TRUE]

Stations == {"idle", "lookup", "service", "check", "authenticating", "issued",
             "validating", "answered", "caching", "accepted", "rejected"}

(* An HTTP call to Keystone is under way. *)
Calling == {"authenticating", "issued", "validating", "answered"}

(* What Keystone itself thinks of a token. *)
Valid(token) == token.left > 0 /\ token.good

Older(token) == [token EXCEPT !.left = IF @ > 0 THEN @ - 1 ELSE 0]
Revoked(token) == [token EXCEPT !.good = FALSE]
-----------------------------------------------------------------------------
Init ==
    /\ service = NoToken
    /\ tokenCache = {}
    /\ subject \in [Subjects -> SubjectTokens]
    /\ confirmed = {}
    /\ revocations = 0
    /\ pc = [r \in Requests |-> "idle"]
    /\ presented \in [Requests -> Subjects]
    /\ held = [r \in Requests |-> NoToken]
    /\ wait = [r \in Requests |-> 0]
    /\ reply = [r \in Requests |-> "none"]

Goto(r, station) == pc' = [pc EXCEPT ![r] = station]

(* ---- ValidateToken ------------------------------------------------------ *)

(* A request with a non-empty X-Auth-Token reaches authMiddleware. *)
Arrive(r, t) ==
    /\ pc[r] = "idle"
    /\ presented' = [presented EXCEPT ![r] = t]
    /\ Goto(r, "lookup")
    /\ UNCHANGED <<client, keystone, held, wait, reply>>

(* A cached context is used for as long as the process lives. *)
CacheHit(r) ==
    /\ pc[r] = "lookup" /\ presented[r] \in tokenCache
    /\ Goto(r, "accepted")
    /\ UNCHANGED <<client, keystone, presented, held, wait, reply>>

CacheMiss(r) ==
    /\ pc[r] = "lookup" /\ presented[r] \notin tokenCache
    /\ Goto(r, "service")
    /\ UNCHANGED <<client, keystone, presented, held, wait, reply>>

(* Mutant: the remaining lifetime is not looked at. *)
WorthCachingAlways(t) == TRUE

WorthCaching(t) == subject[t].left > 0

(* Mutant: the status of the response is not looked at. *)
AcceptedUnchecked(r) == reply[r] # "none"

Accepted(r) == reply[r] = "200"

(* Keystone has answered 200 and the response is read.  The context is to be *)
(* cached unless the token ran out while the answer was on its way ...       *)
Accept(r) ==
    /\ pc[r] = "answered" /\ Accepted(r)
    /\ Goto(r, IF WorthCaching(presented[r]) THEN "caching" ELSE "accepted")
    /\ UNCHANGED <<client, keystone, presented, held, wait, reply>>

(* ... and is stored when the lock is had, however long that takes.          *)
CacheContext(r) ==
    /\ pc[r] = "caching"
    /\ tokenCache' = tokenCache \cup {presented[r]}
    /\ Goto(r, "accepted")
    /\ UNCHANGED <<service, keystone, presented, held, wait, reply>>

Reject(r) ==
    /\ pc[r] = "answered" /\ ~ Accepted(r)
    /\ Goto(r, "rejected")
    /\ UNCHANGED <<client, keystone, presented, held, wait, reply>>

(* ---- serviceAuthToken --------------------------------------------------- *)

(* The cached service token is copied under the read lock ... *)
ReadService(r) ==
    /\ pc[r] = "service"
    /\ held' = [held EXCEPT ![r] = service]
    /\ Goto(r, "check")
    /\ UNCHANGED <<client, keystone, presented, wait, reply>>

(* Mutant: the margin before expiry is not observed. *)
UsableToTheEnd(token) == token.left > 0

(* Mutant: a cached token is used whatever its age. *)
UsableIfCached(token) == token # NoToken

Usable(token) == token.left > Skew

(* Mutant: the timeout of a call starts only after it was sent. *)
StartCallLate(r, station) ==
    /\ wait' = [wait EXCEPT ![r] = Timeout + 1]
    /\ Goto(r, station)

StartCall(r, station) ==
    /\ wait' = [wait EXCEPT ![r] = Timeout]
    /\ Goto(r, station)

(* ... and its age is looked at after the unlock, on the copy. *)
UseCached(r) ==
    /\ pc[r] = "check" /\ Usable(held[r])
    /\ StartCall(r, "validating")
    /\ UNCHANGED <<client, keystone, presented, held, reply>>

Authenticate(r) ==
    /\ pc[r] = "check" /\ ~ Usable(held[r])
    /\ StartCall(r, "authenticating")
    /\ UNCHANGED <<client, keystone, presented, held, reply>>

(* The response with the new token is read, the token is stored, whatever    *)
(* another request has stored meanwhile, and the validation is sent.         *)
StoreToken(r) ==
    /\ pc[r] = "issued"
    /\ service' = held[r]
    /\ StartCall(r, "validating")
    /\ UNCHANGED <<tokenCache, keystone, presented, held, reply>>

(* ---- ways a call ends without an answer --------------------------------- *)

(* Mutant: an HTTP client without a timeout. *)
TimedOutNever(r) == FALSE

TimedOut(r) == wait[r] = 0

GiveUp(r) ==
    /\ pc[r] \in Calling /\ TimedOut(r)
    /\ Goto(r, "rejected")
    /\ UNCHANGED <<client, keystone, presented, held, wait, reply>>

(* Connection error, another status than 201, or the client's disconnect. *)
CallFails(r) ==
    /\ pc[r] \in Calling
    /\ Goto(r, "rejected")
    /\ UNCHANGED <<client, keystone, presented, held, wait, reply>>

(* The middleware has answered 401, or the handler has been run. *)
Return(r) ==
    /\ pc[r] \in {"accepted", "rejected"}
    /\ Goto(r, "idle")
    /\ reply' = [reply EXCEPT ![r] = "none"]
    /\ held' = [held EXCEPT ![r] = NoToken]
    /\ wait' = [wait EXCEPT ![r] = 0]
    /\ UNCHANGED <<client, keystone, presented>>

(* ---- Keystone and time -------------------------------------------------- *)

IssueToken(r) ==
    /\ pc[r] = "authenticating"
    /\ held' = [held EXCEPT ![r] = FreshToken]
    /\ Goto(r, "issued")
    /\ UNCHANGED <<client, keystone, presented, wait, reply>>

Verdict(r) ==
    IF ~ Valid(held[r]) THEN "401"
    ELSE IF Valid(subject[presented[r]]) THEN "200" ELSE "404"

AnswerValidation(r) ==
    /\ pc[r] = "validating"
    /\ reply' = [reply EXCEPT ![r] = Verdict(r)]
    /\ confirmed' = confirmed \cup {t \in {presented[r]} : Verdict(r) = "200"}
    /\ Goto(r, "answered")
    /\ UNCHANGED <<client, subject, revocations, presented, held, wait>>

(* The service user's password changes: its tokens are void. *)
RevokeService ==
    /\ revocations < MaxRevocations
    /\ revocations' = revocations + 1
    /\ service' = Revoked(service)
    /\ held' = [r \in Requests |-> Revoked(held[r])]
    /\ UNCHANGED <<tokenCache, subject, confirmed, pc, presented, wait, reply>>

RevokeSubject(t) ==
    /\ revocations < MaxRevocations
    /\ revocations' = revocations + 1
    /\ subject' = [subject EXCEPT ![t] = Revoked(@)]
    /\ UNCHANGED <<client, confirmed, pc, presented, held, wait, reply>>

(* No call outlives its timeout. *)
Tick ==
    /\ \A r \in Requests : pc[r] \in Calling => wait[r] > 0
    /\ service' = Older(service)
    /\ subject' = [t \in Subjects |-> Older(subject[t])]
    /\ held' = [r \in Requests |-> Older(held[r])]
    /\ wait' = [r \in Requests |-> IF pc[r] \in Calling THEN wait[r] - 1 ELSE wait[r]]
    /\ UNCHANGED <<tokenCache, confirmed, revocations, pc, presented, reply>>
-----------------------------------------------------------------------------
Lookup(r) == CacheHit(r) \/ CacheMiss(r)
ServiceAuth(r) == ReadService(r) \/ UseCached(r) \/ Authenticate(r) \/ StoreToken(r)
Conclude(r) == Accept(r) \/ CacheContext(r) \/ Reject(r) \/ GiveUp(r)

ClientStep(r) == Lookup(r) \/ ServiceAuth(r) \/ Conclude(r)

Next ==
    \/ \E r \in Requests :
          \/ ClientStep(r)
          \/ \E t \in Subjects : Arrive(r, t)
          \/ CallFails(r) \/ Return(r)
          \/ IssueToken(r) \/ AnswerValidation(r)
    \/ RevokeService
    \/ \E t \in Subjects : RevokeSubject(t)
    \/ Tick

Spec == Init /\ [][Next]_vars

(* A goroutine that can run does run, and time passes.  Keystone need never  *)
(* answer.                                                                   *)
Fairness == WF_vars(Tick) /\ \A r \in Requests : WF_vars(ClientStep(r))

FairSpec == Spec /\ Fairness
-----------------------------------------------------------------------------
(* Every variable stays in its range; no call is given more time than the    *)
(* HTTP client's timeout.                                                    *)
TypeOK ==
    /\ service \in ServiceTokens
    /\ tokenCache \subseteq Subjects
    /\ subject \in [Subjects -> SubjectTokens]
    /\ confirmed \subseteq Subjects
    /\ revocations \in 0..MaxRevocations
    /\ pc \in [Requests -> Stations]
    /\ presented \in [Requests -> Subjects]
    /\ held \in [Requests -> ServiceTokens]
    /\ wait \in [Requests -> 0..Timeout]
    /\ reply \in [Requests -> {"none", "200", "401", "404"}]

(* A validation never fails because the proxy let its own service token run  *)
(* out: while Keystone may still act on the call, the token sent with it has *)
(* not expired, even when it was close to expiry when it was picked, waited  *)
(* out most of its own issuing call, or replaced a newer one in the cache.   *)
ServiceTokenLiveAtUse ==
    \A r \in Requests : pc[r] = "validating" => held[r].left > 0

(* Nobody is admitted with a token that Keystone never confirmed, whatever   *)
(* answers are lost, late or about the service token.                        *)
AdmittedWasConfirmed ==
    /\ tokenCache \subseteq confirmed
    /\ \A r \in Requests : pc[r] = "accepted" => presented[r] \in confirmed

(* A request that may still bring token t into the cache: it is about to     *)
(* store it, or has a positive answer that came before t expired.            *)
MayCache(r, t) ==
    /\ presented[r] = t
    /\ \/ pc[r] = "caching"
       \/ pc[r] = "answered" /\ reply[r] = "200" /\ subject[t].left > 0

(* Keystone has stopped to honour t, and nothing here knows it as good. *)
Gone(t) ==
    /\ ~ Valid(subject[t]) /\ t \notin tokenCache
    /\ \A r \in Requests : ~ MayCache(r, t)

(* After a token has expired or was revoked, only an answer that Keystone    *)
(* gave before can still bring it into the cache, and only if the token was  *)
(* not seen to have expired.  Once such answers are used up the token stays  *)
(* out for good, whoever presents it and however late other answers arrive.  *)
GoneStaysGone == [][\A t \in Subjects : Gone(t) => Gone(t)']_vars

(* A token is honoured from the cache only while it has not expired.  This   *)
(* is what the README promises, which has every request's token validated    *)
(* against Keystone; the code violates it, since a cached context is never   *)
(* compared with its token's expiry.                                         *)
HitsAreLive ==
    [][\A r \in Requests : CacheHit(r) => subject[presented[r]].left > 0]_vars

(* No call to Keystone hangs a request: it is admitted or refused even if    *)
(* Keystone never answers.                                                   *)
Answered ==
    \A r \in Requests : pc[r] = "lookup" ~> pc[r] \in {"accepted", "rejected"}

(* A service token that Keystone has revoked stays in the cache and is not   *)
(* retried, but not for ever: once revocations stop, the time comes after    *)
(* which no validation is refused because of the service token.              *)
ServiceRecovers ==
    <>[](\A r \in Requests : ~ (pc[r] = "answered" /\ reply[r] = "401"))
=============================================================================
