-------------------------- MODULE SessionResolver --------------------------
(***************************************************************************)
(* resolveSession on top of the breaker: a request's cookie is forwarded   *)
(* to the partner's whoami endpoint behind the breaker and a Redis cache,  *)
(* and attachUser turns the resolution into req.sessionResult.  One brand, *)
(* many requests on many replicas, one Redis.                              *)
(*                                                                         *)
(* The steps of WhoamiBreaker are reused: while a request runs isOpen,     *)
(* recordSuccess or recordFailure, pc says which command comes next, and   *)
(* step says where the resolution is.  The partner and its sessions are    *)
(* the environment.                                                        *)
(***************************************************************************)
EXTENDS WhoamiBreaker

CONSTANTS
    Cookie,         \* well-formed session cookie values
    NoCookie,       \* no cookie in flight
    CacheTTL,       \* CACHE_TTL_SECONDS
    WhoamiTimeout   \* WHOAMI_TIMEOUT_MS

ASSUME ResolverAssumption ==
    /\ NoCookie \notin Cookie
    /\ CacheTTL \in Nat \ {0} /\ WhoamiTimeout \in Nat
    /\ WorkLimit = RedisLag + WhoamiTimeout

VARIABLES
    brand,          \* the brand's static configuration
    step,           \* where each request's resolution is
    since,          \* ticks spent in this step of the resolver itself
    cookie,         \* the cookie of the request
    answer,         \* what the partner replied, or "failure"
    result,         \* the SessionResolution, once decided
    cache,          \* TTL of each cookie's cached user, 0 when absent
    up,             \* the partner is reachable and answers properly
    session,        \* the partner's own view of each cookie
    sinceValid,     \* history: ticks since the partner would vouch for it
    sinceFailing    \* history: ticks since the partner was failing

resolverVars == <<brand, step, since, cookie, answer, result, cache>>
partnerVars == <<up, session, sinceValid, sinceFailing>>
vars == <<breakerVars, resolverVars, partnerVars>>

Step == {"idle", "gate", "cache_get", "fetch", "answered", "report",
         "cache_set", "done"}
Answer == {"none", "user", "unverified", "rejected", "failure"}
Result == {"none", "authenticated", "unauthenticated", "unavailable",
           "misconfigured", "exception"}

SessionState == {"valid", "unverified", "revoked", "unusable"}

ValidCap == CacheTTL + WhoamiTimeout + 3 * RedisLag + 1
FailingCap == SafetyTTL + WhoamiTimeout + 3 * RedisLag + 1

ResolverTypeOK ==
    /\ TypeOK
    /\ brand \in [targetOk : BOOLEAN, requireVerifiedEmail : BOOLEAN]
    /\ step \in [Caller -> Step]
    /\ since \in [Caller -> Nat]
    /\ cookie \in [Caller -> Cookie \cup {NoCookie}]
    /\ answer \in [Caller -> Answer]
    /\ result \in [Caller -> Result]
    /\ cache \in [Cookie -> 0..CacheTTL]
    /\ up \in BOOLEAN
    /\ session \in [Cookie -> SessionState]
    /\ sinceValid \in [Cookie -> 0..ValidCap]
    /\ sinceFailing \in 0..FailingCap

(* A partner that is down fails for everybody.  One that is up may still   *)
(* answer a session with a status other than 200 and 401, or with a user   *)
(* the brand's mapping does not accept.                                    *)
FailsFor(k) == ~up \/ session[k] = "unusable"

Failing == \E k \in Cookie : FailsFor(k)

(* The partner would answer 200 for k, and the brand accept the answer.    *)
Vouched(k) ==
    \/ session[k] = "valid"
    \/ session[k] = "unverified" /\ ~brand.requireVerifiedEmail

ResolverInit ==
    /\ Init
    /\ brand \in [targetOk : BOOLEAN, requireVerifiedEmail : BOOLEAN]
    /\ step = [c \in Caller |-> "idle"]
    /\ since = [c \in Caller |-> 0]
    /\ cookie = [c \in Caller |-> NoCookie]
    /\ answer = [c \in Caller |-> "none"]
    /\ result = [c \in Caller |-> "none"]
    /\ cache = [k \in Cookie |-> 0]
    /\ up \in BOOLEAN
    /\ session \in [Cookie -> SessionState]
    /\ sinceValid = [k \in Cookie |-> IF Vouched(k) THEN 0 ELSE ValidCap]
    /\ sinceFailing = IF Failing THEN 0 ELSE FailingCap

------------------------------------------------------------------------------
Enter(c, place) ==
    /\ step' = [step EXCEPT ![c] = place]
    /\ since' = [since EXCEPT ![c] = 0]

Finish(c, resolution) ==
    /\ Enter(c, "done")
    /\ result' = [result EXCEPT ![c] = resolution]
    /\ answer' = [answer EXCEPT ![c] = "none"]

Continue(c, place) ==
    /\ Enter(c, place)
    /\ UNCHANGED <<result, answer>>

CountMalformedAsFailure(c) ==
    /\ step[c] = "idle"
    /\ pc' = [pc EXCEPT ![c] = "incr"]
    /\ waited' = [waited EXCEPT ![c] = 0]
    /\ Enter(c, "report")
    /\ answer' = [answer EXCEPT ![c] = "failure"]
    /\ UNCHANGED <<keys, oldest, fresh, brand, cookie, result, cache, partnerVars>>

(* Steps 1 to 3 of resolveSession, which reach neither Redis nor the       *)
(* network: no cookie, a misconfigured target, a cookie that would not fit *)
(* in a header, in that order.                                             *)
RejectLocally(c) ==
    /\ step[c] = "idle"
    /\ \/ Finish(c, "unauthenticated")
       \/ ~brand.targetOk /\ Finish(c, "misconfigured")
    /\ UNCHANGED <<breakerVars, brand, cookie, cache, partnerVars>>

(* A well-formed cookie on a configured brand goes on to the breaker.      *)
Resolve(c, k) ==
    /\ step[c] = "idle"
    /\ brand.targetOk
    /\ CallIsOpen(c)
    /\ cookie' = [cookie EXCEPT ![c] = k]
    /\ Continue(c, "gate")
    /\ UNCHANGED <<brand, cache, partnerVars>>

PassGateWaiting(c) ==
    /\ step[c] = "gate"
    /\ GetOpen(c) \/ SetProbe(c)
    /\ IF pc'[c] = "admitted" THEN Continue(c, "cache_get") ELSE Continue(c, "gate")
    /\ UNCHANGED <<brand, cookie, cache, partnerVars>>

(* Step 4, the breaker: isOpen's commands, and fail-fast on a refusal.     *)
PassGate(c) ==
    /\ step[c] = "gate"
    /\ GetOpen(c) \/ SetProbe(c)
    /\ \/ pc'[c] = "admitted" /\ Continue(c, "cache_get")
       \/ pc'[c] = "idle" /\ Finish(c, "unavailable")
       \/ pc'[c] = "set_probe" /\ Continue(c, "gate")
    /\ UNCHANGED <<brand, cookie, cache, partnerVars>>

(* Step 5, the cache.  A hit returns at once, and reports nothing to the   *)
(* breaker; a miss or a failing GET falls through to the fetch.            *)
ReadCache(c) ==
    /\ step[c] = "cache_get"
    /\ \/ /\ cache[cookie[c]] > 0
          /\ ReturnUnreported(c)
          /\ Finish(c, "authenticated")
       \/ /\ Continue(c, "fetch")
          /\ UNCHANGED breakerVars
    /\ UNCHANGED <<brand, cookie, cache, partnerVars>>

(* Step 6, at the partner: it answers from the session's state as it is    *)
(* now.  A failure is a redirect, a status other than 200 and 401, a body  *)
(* the code cannot read or map to a user, or no answer.                    *)
PartnerAnswers(c) ==
    /\ step[c] = "fetch"
    /\ step' = [step EXCEPT ![c] = "answered"]
    /\ \E a \in Answer :
          /\ answer' = [answer EXCEPT ![c] = a]
          /\ \/ FailsFor(cookie[c]) /\ a = "failure"
             \/ up /\ session[cookie[c]] = "valid" /\ a = "user"
             \/ up /\ session[cookie[c]] = "unverified" /\ a = "unverified"
             \/ up /\ session[cookie[c]] = "revoked" /\ a = "rejected"
    /\ UNCHANGED <<breakerVars, brand, since, cookie, result, cache, partnerVars>>

ReceiveGatedAgain(c) ==
    /\ step[c] = "answered"
    /\ IF answer[c] # "failure" /\ openTTL = 0
          THEN CallRecordSuccess(c) /\ Continue(c, "report")
          ELSE /\ CallRecordFailure(c)
               /\ Enter(c, "report")
               /\ answer' = [answer EXCEPT ![c] = "failure"]
               /\ UNCHANGED result
    /\ UNCHANGED <<brand, cookie, cache, partnerVars>>

(* Steps 7 to 9, on the reply: a user or a 401 is a success of the         *)
(* partner; everything else is a failure.                                  *)
Receive(c) ==
    /\ step[c] = "answered"
    /\ \/ answer[c] # "failure" /\ CallRecordSuccess(c)
       \/ answer[c] = "failure" /\ CallRecordFailure(c)
    /\ Continue(c, "report")
    /\ UNCHANGED <<brand, cookie, cache, partnerVars>>

(* The reply of a partner that is down by now may be lost: the fetch       *)
(* throws, on its timeout at the latest.                                   *)
FetchFails(c) ==
    /\ step[c] \in {"fetch", "answered"}
    /\ ~up
    /\ CallRecordFailure(c)
    /\ Enter(c, "report")
    /\ answer' = [answer EXCEPT ![c] = "failure"]
    /\ UNCHANGED <<brand, cookie, result, cache, partnerVars>>

AcceptedUnverified(c) == answer[c] \in {"user", "unverified"}

Accepted(c) ==
    \/ answer[c] = "user"
    \/ answer[c] = "unverified" /\ ~brand.requireVerifiedEmail

ReportSkippingExpire(c) ==
    /\ step[c] = "report"
    /\ \/ /\ Del(c)
          /\ IF Accepted(c)
                THEN Continue(c, "cache_set")
                ELSE Finish(c, "unauthenticated")
       \/ Stamp(c) /\ Finish(c, "unavailable")
       \/ /\ pc[c] = "incr"
          /\ failures' = Count
          /\ oldest' = IF failures = 0 THEN 0 ELSE oldest
          /\ UNCHANGED <<failuresTTL, openTTL, openAge, probeTTL, fresh>>
          /\ IF Count >= Threshold
                THEN GoTo(c, "stamp") /\ Continue(c, "report")
                ELSE GoTo(c, "idle") /\ Finish(c, "unavailable")
    /\ UNCHANGED <<brand, cookie, cache, partnerVars>>

(* The commands of recordSuccess or recordFailure, and what the resolution *)
(* does when the last of them has returned: the email gate sends an        *)
(* unverified user away before anything is cached.                         *)
Report(c) ==
    /\ step[c] = "report"
    /\ Del(c) \/ Incr(c) \/ Expire(c) \/ Stamp(c)
    /\ \/ pc'[c] # "idle" /\ Continue(c, "report")
       \/ pc'[c] = "idle" /\ answer[c] = "failure" /\ Finish(c, "unavailable")
       \/ pc'[c] = "idle" /\ Accepted(c) /\ Continue(c, "cache_set")
       \/ /\ pc'[c] = "idle" /\ answer[c] # "failure" /\ ~Accepted(c)
          /\ Finish(c, "unauthenticated")
    /\ UNCHANGED <<brand, cookie, cache, partnerVars>>

WriteCacheInMilliseconds(c) ==
    /\ step[c] = "cache_set"
    /\ \/ cache' = [cache EXCEPT ![cookie[c]] = 1000 * CacheTTL]
       \/ UNCHANGED cache
    /\ Finish(c, "authenticated")
    /\ UNCHANGED <<breakerVars, brand, cookie, partnerVars>>

(* The cache write, best effort, then the authenticated resolution.        *)
WriteCache(c) ==
    /\ step[c] = "cache_set"
    /\ \/ cache' = [cache EXCEPT ![cookie[c]] = CacheTTL]
       \/ UNCHANGED cache
    /\ Finish(c, "authenticated")
    /\ UNCHANGED <<breakerVars, brand, cookie, partnerVars>>

(* attachUser stashes the resolution and calls next(); requireAuth reuses  *)
(* it.  The request is over as far as this module goes.                    *)
Respond(c) ==
    /\ step[c] = "done"
    /\ Enter(c, "idle")
    /\ result' = [result EXCEPT ![c] = "none"]
    /\ cookie' = [cookie EXCEPT ![c] = NoCookie]
    /\ UNCHANGED <<breakerVars, brand, answer, cache, partnerVars>>

(* A breaker command rejects.  Its calls stand in no try block, so the     *)
(* rejection leaves resolveSession and attachUser.                         *)
BreakerCommandFails(c) ==
    /\ step[c] \in {"gate", "report"}
    /\ Abandon(c)
    /\ Finish(c, "exception")
    /\ UNCHANGED <<brand, cookie, cache, partnerVars>>

(* The replica stops in the middle of a resolution.                        *)
Crash(c) ==
    /\ step[c] \notin {"idle", "done"}
    /\ \/ Abandon(c)
       \/ CrashAt # {} /\ pc[c] = "idle" /\ UNCHANGED breakerVars
    /\ Enter(c, "idle")
    /\ cookie' = [cookie EXCEPT ![c] = NoCookie]
    /\ answer' = [answer EXCEPT ![c] = "none"]
    /\ UNCHANGED <<brand, result, cache, partnerVars>>

(* The environment: the partner fails and recovers; a session ends, and    *)
(* until then what the partner says of its user may change.                *)
PartnerGoesDown ==
    /\ up
    /\ up' = FALSE /\ sinceFailing' = 0
    /\ UNCHANGED <<breakerVars, resolverVars, session, sinceValid>>

PartnerComesUp ==
    /\ ~up
    /\ up' = TRUE
    /\ UNCHANGED <<breakerVars, resolverVars, session, sinceValid, sinceFailing>>

SessionChanges(k) ==
    /\ session[k] # "revoked"
    /\ \E s \in SessionState \ {session[k]} : session' = [session EXCEPT ![k] = s]
    /\ UNCHANGED <<breakerVars, resolverVars, up>>
    /\ sinceValid' = [sinceValid EXCEPT ![k] = IF Vouched(k)' THEN 0 ELSE @]
    /\ sinceFailing' = IF Failing' THEN 0 ELSE sinceFailing

Capped(n, cap) == IF n < cap THEN n + 1 ELSE cap

(* A request spends no time between its decision and its response, and no  *)
(* more than the timeout on the fetch.                                     *)
StepLimit(c) ==
    IF step[c] = "done" THEN 0
    ELSE IF step[c] \in {"cache_get", "cache_set"} THEN RedisLag
    ELSE WhoamiTimeout

Timed == {"cache_get", "cache_set", "fetch", "answered", "done"}

InTime == \A c \in Caller : step[c] \in Timed => since[c] < StepLimit(c)

ResolverTick ==
    /\ Tick
    /\ InTime
    /\ since' = [c \in Caller |-> IF step[c] \in Timed THEN since[c] + 1 ELSE 0]
    /\ cache' = [k \in Cookie |-> Down(cache[k])]
    /\ sinceValid' = [k \in Cookie |->
                        IF Vouched(k) THEN 0 ELSE Capped(sinceValid[k], ValidCap)]
    /\ sinceFailing' = IF Failing THEN 0 ELSE Capped(sinceFailing, FailingCap)
    /\ UNCHANGED <<brand, step, cookie, answer, result, up, session>>

RequestStep(c) ==
    \/ PassGate(c) \/ ReadCache(c) \/ PartnerAnswers(c) \/ Receive(c)
    \/ FetchFails(c) \/ Report(c) \/ WriteCache(c) \/ Respond(c)

ResolverNext ==
    \/ \E c \in Caller :
          \/ RejectLocally(c)
          \/ \E k \in Cookie : Resolve(c, k)
          \/ RequestStep(c)
          \/ BreakerCommandFails(c) \/ Crash(c)
    \/ PartnerGoesDown \/ PartnerComesUp
    \/ \E k \in Cookie : SessionChanges(k)
    \/ ResolverTick

ResolverSpec == ResolverInit /\ [][ResolverNext]_vars

(* Fairness: Node runs every continuation and ioredis answers every        *)
(* command, users keep sending each cookie whatever else the few slots of  *)
(* an instance are busy with, and the clock goes on: requests do not       *)
(* follow each other so closely that no instant ever ends.                 *)
Fairness ==
    /\ \A c \in Caller : WF_vars(RequestStep(c))
    /\ \A k \in Cookie : SF_vars(\E c \in Caller : Resolve(c, k))
    /\ []<>(CallersInTime /\ InTime)
    /\ SF_vars(ResolverTick)

FairSpec == ResolverSpec /\ Fairness

------------------------------------------------------------------------------
(* The requests use the breaker as its own module allows: every step here  *)
(* is a step of WhoamiBreaker or leaves the breaker alone.                 *)
BreakerSpec == Spec

(* A request is authenticated only with a cookie the partner vouched for   *)
(* at most this long ago: logging out is final within that time.           *)
BoundedStaleness ==
    \A c \in Caller :
        result[c] = "authenticated" =>
            sinceValid[cookie[c]] < CacheTTL + WhoamiTimeout + 2 * RedisLag

(* A cooldown runs only because the partner really failed, for some        *)
(* session, shortly before it began: ended sessions, unverified users,     *)
(* malformed cookies and crashing replicas never open the circuit.         *)
CooldownDatesFromAFailure ==
    openTTL > 0 => sinceFailing <= openAge + WhoamiTimeout + RedisLag

(* And nobody is refused but in the wake of such a failure: neither by a   *)
(* cooldown, nor for want of the probe slot, lost or taken, nor by a       *)
(* fetch, however many replicas stopped and whatever they left in Redis.   *)
RefusalsDateFromAFailure ==
    \A c \in Caller :
        result[c] = "unavailable" =>
            sinceFailing < SafetyTTL + WhoamiTimeout + 3 * RedisLag

OutagesDateFromAFailure == CooldownDatesFromAFailure /\ RefusalsDateFromAFailure

(* What follows for a partner that has recovered, by the time it has been  *)
(* healthy: no failure is reported any more, then nobody is refused by a   *)
(* running cooldown, then the circuit is closed, even if nobody calls.     *)
RecoveryIsBounded ==
    /\ sinceFailing > WhoamiTimeout + RedisLag => \A c \in Caller : pc[c] # "incr"
    /\ sinceFailing >= OpenDuration + WhoamiTimeout + RedisLag => CircuitState # "open"
    /\ sinceFailing >= SafetyTTL + WhoamiTimeout + 2 * RedisLag => CircuitState = "closed"

(* And the failures it was guilty of are not held against it for longer    *)
(* than a window, a fetch and the commands of one report, provided that no *)
(* caller is cut off between INCR and EXPIRE.                              *)
FailuresAreForgotten ==
    sinceFailing >= Window + WhoamiTimeout + 2 * RedisLag => failures = 0

(* Every request that enters the gate is decided.                          *)
EveryRequestDecided ==
    \A c \in Caller : step[c] = "gate" ~> step[c] = "done"

(* Once the partner answers properly for good and vouches for a cookie,    *)
(* its user keeps being authenticated, whatever the failures before left   *)
(* in Redis.                                                               *)
ServedAgain ==
    \A k \in Cookie :
        (<>[]~Failing /\ <>[](session[k] = "valid" /\ brand.targetOk))
        => []<>(\E c \in Caller : cookie[c] = k /\ result[c] = "authenticated")

(* The caller that holds the probe slot reports back to the breaker, which *)
(* is what the other callers wait for.                                     *)
ProberReportsBack ==
    [][\A c \in Probers :
          pc[c] = "admitted" /\ pc'[c] # "admitted" =>
              pc'[c] \in {"del", "incr"}]_vars

(* attachUser "never rejects the request itself".                          *)
AttachUserNeverRejects == \A c \in Caller : result[c] # "exception"

==============================================================================
