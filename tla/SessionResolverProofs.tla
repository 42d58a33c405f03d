----------------------- MODULE SessionResolverProofs -----------------------
(***************************************************************************)
(* Proofs about SessionResolver, for any number of requests and cookies    *)
(* and any durations that the assumptions allow.                           *)
(***************************************************************************)
EXTENDS SessionResolver, WhoamiBreakerProofs

LEMMA BreakerStep == [ResolverNext]_vars => [Next]_breakerVars
<1> SUFFICES ASSUME [ResolverNext]_vars
             PROVE  [Next]_breakerVars
  OBVIOUS
<1> USE DEF Next, CallerStep
<1>1. ASSUME NEW c \in Caller, RejectLocally(c) PROVE [Next]_breakerVars
  BY <1>1 DEF RejectLocally
<1>2. ASSUME NEW c \in Caller, NEW k \in Cookie, Resolve(c, k)
      PROVE  [Next]_breakerVars
  BY <1>2 DEF Resolve
<1>3. ASSUME NEW c \in Caller, RequestStep(c) PROVE [Next]_breakerVars
  BY <1>3
     DEF RequestStep, PassGate, ReadCache, PartnerAnswers, Receive, FetchFails,
         Report, WriteCache, Respond
<1>4. ASSUME NEW c \in Caller, BreakerCommandFails(c) \/ Crash(c)
      PROVE  [Next]_breakerVars
  BY <1>4 DEF BreakerCommandFails, Crash
<1>5. ASSUME NEW k \in Cookie, SessionChanges(k) PROVE [Next]_breakerVars
  BY <1>5 DEF SessionChanges
<1>6. CASE PartnerGoesDown \/ PartnerComesUp
  BY <1>6 DEF PartnerGoesDown, PartnerComesUp
<1>7. CASE ResolverTick
  BY <1>7 DEF ResolverTick
<1>8. CASE UNCHANGED vars
  BY <1>8 DEF vars
<1>9. QED
  BY <1>1, <1>2, <1>3, <1>4, <1>5, <1>6, <1>7, <1>8 DEF ResolverNext

(* resolveSession uses the breaker as the breaker's own module allows:     *)
(* every behaviour of the resolver is one of WhoamiBreaker.                *)
THEOREM ResolverImplementsBreaker == ResolverSpec => BreakerSpec
<1>1. ResolverInit => Init
  BY DEF ResolverInit
<1>2. QED
  BY <1>1, BreakerStep, PTL DEF ResolverSpec, BreakerSpec, Spec

(* So what is proved of the breaker holds of the resolver that calls it.   *)
THEOREM ResolverKeepsBreakerPromises ==
    ResolverSpec => []SingleProber /\ NoAdmissionDuringCooldown
BY ResolverImplementsBreaker, OneProber, CooldownHolds, PTL DEF BreakerSpec

(* The textbook's circuit breaker among them: no two requests of the       *)
(* resolver ever try a half-open circuit at once.                          *)
THEOREM ResolverImplementsCircuit == ResolverSpec => CircuitSpec
BY ResolverImplementsBreaker, BreakerImplementsCircuit DEF BreakerSpec

------------------------------------------------------------------------------
(* No request outstays the limit of its step.                              *)
Since == \A c \in Caller : step[c] \in Timed => since[c] <= StepLimit(c)

(* What a request carries in each step.                                    *)
Where ==
    \A c \in Caller :
        /\ step[c] \notin {"idle", "done"} => cookie[c] \in Cookie
        /\ result[c] # "none" => step[c] = "done"
        /\ result[c] = "authenticated" => cookie[c] \in Cookie
        /\ step[c] = "report" /\ answer[c] # "failure" => pc[c] = "del"

ResolverInv == TypeInv /\ ResolverTypeOK /\ Since /\ Where

LEMMA ResolverInvInit == ResolverInit => ResolverInv
<1> SUFFICES ASSUME ResolverInit
             PROVE  ResolverInv
  OBVIOUS
<1>1. TypeInv
  BY TypeInit DEF ResolverInit
<1>2. ResolverTypeOK /\ Since /\ Where
  BY <1>1, ConstantsAssumption, ResolverAssumption
     DEF ResolverInit, ResolverTypeOK, TypeInv, Since, Where, Timed, Step, Answer,
         Result, ValidCap, FailingCap
<1>3. QED
  BY <1>1, <1>2 DEF ResolverInv

LEMMA ResolverInvStep ==
    ResolverInv /\ TypeInv' /\ [ResolverNext]_vars => ResolverInv'
<1> SUFFICES ASSUME ResolverInv, TypeInv', [ResolverNext]_vars
             PROVE  ResolverInv'
  OBVIOUS
<1> USE ConstantsAssumption, ResolverAssumption
        DEF ResolverInv, ResolverTypeOK, TypeInv, TypeOK, Waits, Limit, Since,
            Where, StepLimit, Timed, Step, Answer, Result, SessionState, ValidCap,
            FailingCap, Place, Commands, resolverVars, partnerVars, breakerVars, keys, GoTo,
            Enter, Continue, Finish
<1>1. ASSUME NEW c \in Caller, RejectLocally(c) PROVE ResolverInv'
  BY <1>1 DEF RejectLocally
<1>2. ASSUME NEW c \in Caller, NEW k \in Cookie, Resolve(c, k) PROVE ResolverInv'
  BY <1>2 DEF Resolve, CallIsOpen
<1>3. ASSUME NEW c \in Caller, PassGate(c) PROVE ResolverInv'
  <2>1. \A d \in Caller : d # c => pc'[d] = pc[d]
    BY <1>3 DEF PassGate, GetOpen, SetProbe
  <2>2. CASE Continue(c, "cache_get") \/ Continue(c, "gate")
    BY <1>3, <2>1, <2>2 DEF PassGate
  <2>3. CASE Finish(c, "unavailable")
    BY <1>3, <2>1, <2>3 DEF PassGate
  <2>4. QED
    BY <1>3, <2>2, <2>3 DEF PassGate
<1>4. ASSUME NEW c \in Caller, ReadCache(c) PROVE ResolverInv'
  BY <1>4 DEF ReadCache, ReturnUnreported
<1>5. ASSUME NEW c \in Caller, PartnerAnswers(c) PROVE ResolverInv'
  BY <1>5 DEF PartnerAnswers
<1>6. ASSUME NEW c \in Caller, Receive(c) PROVE ResolverInv'
  BY <1>6 DEF Receive, CallRecordSuccess, CallRecordFailure
<1>7. ASSUME NEW c \in Caller, FetchFails(c) PROVE ResolverInv'
  BY <1>7 DEF FetchFails, CallRecordFailure
<1>8. ASSUME NEW c \in Caller, Report(c) PROVE ResolverInv'
  BY <1>8 DEF Report, Accepted, Del, Incr, Expire, Stamp
<1>9. ASSUME NEW c \in Caller, WriteCache(c) PROVE ResolverInv'
  BY <1>9 DEF WriteCache
<1>10. ASSUME NEW c \in Caller, Respond(c) PROVE ResolverInv'
  BY <1>10 DEF Respond
<1>11. ASSUME NEW c \in Caller, BreakerCommandFails(c) \/ Crash(c) PROVE ResolverInv'
  BY <1>11 DEF BreakerCommandFails, Crash, Abandon
<1>12. CASE PartnerGoesDown \/ PartnerComesUp
  <2>1. up' \in BOOLEAN
    BY <1>12, Zenon DEF PartnerGoesDown, PartnerComesUp
  <2>2. sinceFailing' \in 0..FailingCap
    BY <1>12 DEF PartnerGoesDown, PartnerComesUp
  <2>3. QED
    BY <1>12, <2>1, <2>2 DEF PartnerGoesDown, PartnerComesUp
<1>13. ASSUME NEW k \in Cookie, SessionChanges(k) PROVE ResolverInv'
  <2>1. sinceValid' \in [Cookie -> 0..ValidCap]
    <3>1. PICK b \in BOOLEAN : sinceValid' =
                  [sinceValid EXCEPT ![k] = IF b THEN 0 ELSE sinceValid[k]]
      BY <1>13 DEF SessionChanges
    <3>2. QED
      BY <3>1
  <2>2. session' \in [Cookie -> SessionState]
    BY <1>13 DEF SessionChanges
  <2>3. sinceFailing' \in 0..FailingCap
    BY <1>13 DEF SessionChanges
  <2>4. QED
    BY <1>13, <2>1, <2>2, <2>3 DEF SessionChanges
<1>14. CASE ResolverTick
  BY <1>14 DEF ResolverTick, Tick, InTime, Down, Capped, Vouched
<1>15. CASE UNCHANGED vars
  BY <1>15 DEF vars, breakerVars
<1>16. QED
  BY <1>1, <1>2, <1>3, <1>4, <1>5, <1>6, <1>7, <1>8, <1>9, <1>10, <1>11,
     <1>12, <1>13, <1>14, <1>15 DEF ResolverNext, RequestStep

LEMMA ResolverInvInductive == ResolverInv /\ [ResolverNext]_vars => ResolverInv'
BY ResolverInvStep, TypeStep, BreakerStep DEF ResolverInv

(* Every variable of the resolver keeps its type.                          *)
THEOREM ResolverTypeCorrect == ResolverSpec => []ResolverTypeOK
<1>1. ResolverInv => ResolverTypeOK
  BY DEF ResolverInv
<1>2. QED
  BY <1>1, ResolverInvInit, ResolverInvInductive, PTL DEF ResolverSpec

------------------------------------------------------------------------------
(* Failures.  One that is on its way to the open key was met when the      *)
(* partner was failing for some session.                                   *)
FailingNow == Failing => sinceFailing = 0

FailuresAreReal ==
    \A c \in Caller :
        /\ step[c] = "answered" /\ answer[c] = "failure" => sinceFailing <= since[c]
        /\ pc[c] = "incr" => sinceFailing <= WhoamiTimeout + waited[c]
        /\ pc[c] = "stamp" => sinceFailing <= WhoamiTimeout + RedisLag + waited[c]

Consequences == FailuresAreReal /\ CooldownDatesFromAFailure

FailureInv == FailingNow /\ Consequences

LEMMA FailureInit == ResolverInit => FailureInv
BY ConstantsAssumption, ResolverAssumption
   DEF ResolverInit, Init, FailureInv, FailingNow, Consequences, FailuresAreReal,
       CooldownDatesFromAFailure, FailingCap

LEMMA FailingNowStep == FailingNow /\ [ResolverNext]_vars => FailingNow'
<1> SUFFICES ASSUME FailingNow, [ResolverNext]_vars
             PROVE  FailingNow'
  OBVIOUS
<1> USE DEF FailingNow, Failing, FailsFor
<1>1. CASE PartnerGoesDown
  BY <1>1 DEF PartnerGoesDown
<1>2. CASE PartnerComesUp
  BY <1>2 DEF PartnerComesUp
<1>3. CASE ResolverTick
  BY <1>3 DEF ResolverTick
<1>4. ASSUME NEW k \in Cookie, SessionChanges(k) PROVE FailingNow'
  BY <1>4 DEF SessionChanges
<1>5. CASE UNCHANGED <<up, session, sinceFailing>>
  BY <1>5
<1>6. ASSUME ~PartnerGoesDown, ~PartnerComesUp, ~ResolverTick,
             \A k \in Cookie : ~SessionChanges(k)
      PROVE  UNCHANGED <<up, session, sinceFailing>>
  BY <1>6 DEF ResolverNext, RejectLocally, Resolve, RequestStep, PassGate,
       ReadCache, PartnerAnswers, Receive, FetchFails, Report, WriteCache,
       Respond, BreakerCommandFails, Crash, partnerVars, vars
<1>7. QED
  BY <1>1, <1>2, <1>3, <1>4, <1>5, <1>6

LEMMA ConsequencesStep ==
    ResolverInv /\ FailureInv /\ [ResolverNext]_vars => Consequences'
<1> SUFFICES ASSUME ResolverInv, FailureInv, [ResolverNext]_vars
             PROVE  Consequences'
  OBVIOUS
<1> USE ConstantsAssumption, ResolverAssumption
        DEF ResolverInv, ResolverTypeOK, TypeInv, TypeOK, Waits, Limit, Since,
            Where, StepLimit, Timed, Step, Answer, Result, SessionState, ValidCap,
            FailingCap, Place, Commands, resolverVars, partnerVars, breakerVars, keys, GoTo,
            Enter, Continue, Finish, FailureInv, FailingNow, Consequences,
            FailuresAreReal, CooldownDatesFromAFailure, Failing, FailsFor
<1>1. ASSUME NEW c \in Caller, RejectLocally(c) PROVE Consequences'
  BY <1>1 DEF RejectLocally
<1>2. ASSUME NEW c \in Caller, NEW k \in Cookie, Resolve(c, k) PROVE Consequences'
  BY <1>2 DEF Resolve, CallIsOpen
<1>3. ASSUME NEW c \in Caller, PassGate(c) PROVE Consequences'
  BY <1>3 DEF PassGate, GetOpen, SetProbe
<1>4. ASSUME NEW c \in Caller, ReadCache(c) PROVE Consequences'
  BY <1>4 DEF ReadCache, ReturnUnreported
<1>5. ASSUME NEW c \in Caller, PartnerAnswers(c) PROVE Consequences'
  BY <1>5 DEF PartnerAnswers
<1>6. ASSUME NEW c \in Caller, Receive(c) PROVE Consequences'
  BY <1>6 DEF Receive, CallRecordSuccess, CallRecordFailure
<1>7. ASSUME NEW c \in Caller, FetchFails(c) PROVE Consequences'
  BY <1>7 DEF FetchFails, CallRecordFailure
<1>8. ASSUME NEW c \in Caller, Report(c) PROVE Consequences'
  BY <1>8 DEF Report, Accepted, Del, Incr, Expire, Stamp
<1>9. ASSUME NEW c \in Caller, WriteCache(c) PROVE Consequences'
  BY <1>9 DEF WriteCache
<1>10. ASSUME NEW c \in Caller, Respond(c) PROVE Consequences'
  BY <1>10 DEF Respond
<1>11. ASSUME NEW c \in Caller, BreakerCommandFails(c) \/ Crash(c) PROVE Consequences'
  BY <1>11 DEF BreakerCommandFails, Crash, Abandon
<1>12. CASE PartnerGoesDown \/ PartnerComesUp
  BY <1>12 DEF PartnerGoesDown, PartnerComesUp
<1>13. ASSUME NEW k \in Cookie, SessionChanges(k) PROVE Consequences'
  BY <1>13 DEF SessionChanges
<1>14. CASE ResolverTick
  BY <1>14 DEF ResolverTick, Tick, InTime, Down, Capped, Vouched
<1>15. CASE UNCHANGED vars
  BY <1>15 DEF vars, breakerVars
<1>16. QED
  BY <1>1, <1>2, <1>3, <1>4, <1>5, <1>6, <1>7, <1>8, <1>9, <1>10, <1>11,
     <1>12, <1>13, <1>14, <1>15 DEF ResolverNext, RequestStep

LEMMA FailureInvariance == ResolverSpec => [](ResolverInv /\ FailureInv)
<1>1. ResolverInv /\ FailureInv /\ [ResolverNext]_vars => (ResolverInv /\ FailureInv)'
  BY ResolverInvInductive, FailingNowStep, ConsequencesStep DEF FailureInv
<1>2. QED
  BY <1>1, ResolverInvInit, FailureInit, PTL DEF ResolverSpec

(* And it closes for one that works again.  Counted from the last moment   *)
(* the partner failed: a fetch and a command later no failure is reported  *)
(* any more, after a cooldown more nobody is refused by a running one, and *)
(* after the safety TTL the circuit is closed without anybody's help.      *)
THEOREM RecoveryTakesBoundedTime == ResolverSpec => []RecoveryIsBounded
<1>1. ASSUME ResolverInv, FailureInv
      PROVE  RecoveryIsBounded
  <2> USE <1>1, ConstantsAssumption, ResolverAssumption
          DEF ResolverInv, ResolverTypeOK, TypeInv, TypeOK, Waits, Limit, Place,
              Commands, FailureInv, Consequences
  <2>1. sinceFailing > WhoamiTimeout + RedisLag => \A c \in Caller : pc[c] # "incr"
    BY DEF FailuresAreReal
  <2>2. sinceFailing >= OpenDuration + WhoamiTimeout + RedisLag => CircuitState # "open"
    BY DEF CooldownDatesFromAFailure, CircuitState
  <2>3. sinceFailing >= SafetyTTL + WhoamiTimeout + 2 * RedisLag =>
           CircuitState = "closed"
    BY DEF CooldownDatesFromAFailure, CircuitState, OpenKey
  <2>4. QED
    BY <2>1, <2>2, <2>3, Zenon DEF RecoveryIsBounded
<1>2. QED
  BY <1>1, FailureInvariance, PTL

------------------------------------------------------------------------------
(* Refusals.  A report that is under way dates from a failure, and a       *)
(* caller that read a cooled-down key comes to the slot a command later.   *)
Expiring ==
    \A c \in Caller :
        pc[c] = "expire" => sinceFailing <= WhoamiTimeout + RedisLag + waited[c]

Refusing ==
    \A c \in Caller :
        /\ pc[c] = "set_probe" =>
              sinceFailing < SafetyTTL + WhoamiTimeout + 2 * RedisLag + waited[c]
        /\ step[c] = "report" /\ answer[c] = "failure" =>
              pc[c] \in {"incr", "expire", "stamp"}

RefusalInv == Expiring /\ Refusing /\ RefusalsDateFromAFailure

LEMMA RefusalInit == ResolverInit => RefusalInv
BY DEF ResolverInit, Init, RefusalInv, Expiring, Refusing, RefusalsDateFromAFailure

LEMMA RefusalStep ==
    ResolverInv /\ FailureInv /\ RefusalInv /\ [ResolverNext]_vars => RefusalInv'
<1> SUFFICES ASSUME ResolverInv, FailureInv, RefusalInv, [ResolverNext]_vars
             PROVE  RefusalInv'
  OBVIOUS
<1> USE ConstantsAssumption, ResolverAssumption
        DEF ResolverInv, ResolverTypeOK, TypeInv, TypeOK, Waits, Limit, Since, Where,
            StepLimit, Timed, Step, Answer, Result, Place, Commands, FailingCap,
            resolverVars, partnerVars, breakerVars, keys, GoTo, Enter, Continue, Finish,
            FailureInv, Consequences, FailuresAreReal,
            RefusalInv, Expiring, Refusing, RefusalsDateFromAFailure
<1>1. ASSUME NEW c \in Caller, RejectLocally(c) PROVE RefusalInv'
  BY <1>1 DEF RejectLocally
<1>2. ASSUME NEW c \in Caller, NEW k \in Cookie, Resolve(c, k) PROVE RefusalInv'
  BY <1>2 DEF Resolve, CallIsOpen
<1>3. ASSUME NEW c \in Caller, PassGate(c) PROVE RefusalInv'
  BY <1>3 DEF PassGate, GetOpen, SetProbe, OpenKey, CooldownDatesFromAFailure
<1>4. ASSUME NEW c \in Caller, ReadCache(c) PROVE RefusalInv'
  BY <1>4 DEF ReadCache, ReturnUnreported
<1>5. ASSUME NEW c \in Caller, PartnerAnswers(c) PROVE RefusalInv'
  BY <1>5 DEF PartnerAnswers
<1>6. ASSUME NEW c \in Caller, Receive(c) PROVE RefusalInv'
  BY <1>6 DEF Receive, CallRecordSuccess, CallRecordFailure
<1>7. ASSUME NEW c \in Caller, FetchFails(c) PROVE RefusalInv'
  BY <1>7 DEF FetchFails, CallRecordFailure
<1>8. ASSUME NEW c \in Caller, Report(c) PROVE RefusalInv'
  BY <1>8 DEF Report, Accepted, Del, Incr, Expire, Stamp
<1>9. ASSUME NEW c \in Caller, WriteCache(c) PROVE RefusalInv'
  BY <1>9 DEF WriteCache
<1>10. ASSUME NEW c \in Caller, Respond(c) PROVE RefusalInv'
  BY <1>10 DEF Respond
<1>11. ASSUME NEW c \in Caller, BreakerCommandFails(c) \/ Crash(c) PROVE RefusalInv'
  BY <1>11 DEF BreakerCommandFails, Crash, Abandon
<1>12. CASE PartnerGoesDown \/ PartnerComesUp
  BY <1>12 DEF PartnerGoesDown, PartnerComesUp
<1>13. ASSUME NEW k \in Cookie, SessionChanges(k) PROVE RefusalInv'
  BY <1>13 DEF SessionChanges
<1>14. CASE ResolverTick
  BY <1>14 DEF ResolverTick, Tick, CallersInTime, InTime, Down, Capped
<1>15. CASE UNCHANGED vars
  BY <1>15 DEF vars, breakerVars
<1>16. QED
  BY <1>1, <1>2, <1>3, <1>4, <1>5, <1>6, <1>7, <1>8, <1>9, <1>10, <1>11,
     <1>12, <1>13, <1>14, <1>15 DEF ResolverNext, RequestStep

(* The circuit opens only on a partner that really failed: a cooldown      *)
(* starts within a fetch and a command's delay of a failure, and nobody is *)
(* told that the partner is unavailable but within the safety TTL, a fetch *)
(* and three commands of one.                                              *)
THEOREM OnlyFailuresOpenTheCircuit == ResolverSpec => []OutagesDateFromAFailure
<1>1. ResolverInv /\ FailureInv /\ RefusalInv /\ [ResolverNext]_vars
        => (ResolverInv /\ FailureInv /\ RefusalInv)'
  BY ResolverInvInductive, FailingNowStep, ConsequencesStep, RefusalStep DEF FailureInv
<1>2. FailureInv /\ RefusalInv => OutagesDateFromAFailure
  BY DEF FailureInv, Consequences, RefusalInv, OutagesDateFromAFailure
<1>3. QED
  BY <1>1, <1>2, ResolverInvInit, FailureInit, RefusalInit, PTL DEF ResolverSpec

------------------------------------------------------------------------------
(* What is left in the counter dates from a failure as well: its TTL was   *)
(* started by a caller whose own report followed one.                      *)
Remembered ==
    failures > 0 /\ failuresTTL > 0 =>
        sinceFailing + failuresTTL <= Window + WhoamiTimeout + 2 * RedisLag

MemoryInv == Expiring /\ Remembered

LEMMA MemoryInit == ResolverInit => MemoryInv
BY DEF ResolverInit, Init, MemoryInv, Expiring, Remembered

LEMMA MemoryStep ==
    ResolverInv /\ FailureInv /\ CounterInv /\ MemoryInv /\ [ResolverNext]_vars => MemoryInv'
<1> SUFFICES ASSUME ResolverInv, FailureInv, CounterInv, MemoryInv, [ResolverNext]_vars
             PROVE  MemoryInv'
  OBVIOUS
<1> USE ConstantsAssumption, ResolverAssumption
        DEF ResolverInv, ResolverTypeOK, TypeInv, TypeOK, Waits, Limit, Step, Place,
            Commands, FailingCap, resolverVars, partnerVars, breakerVars, keys, GoTo,
            FailureInv, Consequences, FailuresAreReal, CounterInv, NoCounter,
            MemoryInv, Expiring, Remembered
<1>1. ASSUME NEW c \in Caller, RejectLocally(c) PROVE MemoryInv'
  BY <1>1 DEF RejectLocally
<1>2. ASSUME NEW c \in Caller, NEW k \in Cookie, Resolve(c, k) PROVE MemoryInv'
  BY <1>2 DEF Resolve, CallIsOpen
<1>3. ASSUME NEW c \in Caller, PassGate(c) PROVE MemoryInv'
  BY <1>3 DEF PassGate, GetOpen, SetProbe
<1>4. ASSUME NEW c \in Caller, ReadCache(c) PROVE MemoryInv'
  BY <1>4 DEF ReadCache, ReturnUnreported
<1>5. ASSUME NEW c \in Caller, PartnerAnswers(c) PROVE MemoryInv'
  BY <1>5 DEF PartnerAnswers
<1>6. ASSUME NEW c \in Caller, Receive(c) \/ FetchFails(c) PROVE MemoryInv'
  BY <1>6 DEF Receive, FetchFails, CallRecordSuccess, CallRecordFailure
<1>7. ASSUME NEW c \in Caller, Report(c) PROVE MemoryInv'
  <2>1. CASE Del(c) \/ Stamp(c)
    BY <1>7, <2>1 DEF Report, Del, Stamp
  <2>2. CASE Incr(c)
    BY <1>7, <2>2 DEF Report, Incr, Count
  <2>3. CASE Expire(c)
    BY <1>7, <2>3 DEF Report, Expire
  <2>4. QED
    BY <1>7, <2>1, <2>2, <2>3 DEF Report
<1>8. ASSUME NEW c \in Caller, WriteCache(c) \/ Respond(c) PROVE MemoryInv'
  BY <1>8 DEF WriteCache, Respond
<1>9. ASSUME NEW c \in Caller, BreakerCommandFails(c) \/ Crash(c) PROVE MemoryInv'
  BY <1>9 DEF BreakerCommandFails, Crash, Abandon
<1>10. CASE PartnerGoesDown \/ PartnerComesUp
  BY <1>10 DEF PartnerGoesDown, PartnerComesUp
<1>11. ASSUME NEW k \in Cookie, SessionChanges(k) PROVE MemoryInv'
  BY <1>11 DEF SessionChanges
<1>12. CASE ResolverTick
  BY <1>12 DEF ResolverTick, Tick, Down, Capped
<1>13. CASE UNCHANGED vars
  BY <1>13 DEF vars, breakerVars
<1>14. QED
  BY <1>1, <1>2, <1>3, <1>4, <1>5, <1>6, <1>7, <1>8, <1>9, <1>10, <1>11,
     <1>12, <1>13 DEF ResolverNext, RequestStep

(* Nor are old failures held against a partner that works: if nobody is    *)
(* cut off between INCR and EXPIRE, the counter is gone a window, a fetch  *)
(* and two commands after the last failure, and the next one counts from 1.*)
THEOREM CounterIsForgotten ==
    ASSUME "expire" \notin CrashAt
    PROVE  ResolverSpec => []FailuresAreForgotten
<1>1. ResolverInit => CounterInv /\ MemoryInv
  BY CounterInit, MemoryInit DEF ResolverInit
<1>2. ResolverInv /\ FailureInv /\ CounterInv /\ MemoryInv /\ [ResolverNext]_vars
         => CounterInv' /\ MemoryInv'
  BY CounterStep, MemoryStep, BreakerStep DEF ResolverInv
<1>3. ResolverSpec => [](ResolverInv /\ FailureInv /\ CounterInv /\ MemoryInv)
  BY <1>1, <1>2, FailureInvariance, PTL DEF ResolverSpec
<1>4. ASSUME ResolverInv, CounterInv, MemoryInv
      PROVE  FailuresAreForgotten
  <2> USE <1>4, ConstantsAssumption, ResolverAssumption
          DEF ResolverInv, ResolverTypeOK, TypeInv, TypeOK, Waits, Limit, Place,
              Commands
  <2>1. CASE failuresTTL > 0
    BY <2>1 DEF MemoryInv, Remembered, FailuresAreForgotten
  <2>2. CASE failures > 0 /\ failuresTTL = 0
    <3>1. PICK c \in Caller : pc[c] = "expire"
      BY <2>2 DEF CounterInv, Unlimited
    <3>2. sinceFailing <= WhoamiTimeout + 2 * RedisLag
      BY <3>1 DEF MemoryInv, Expiring
    <3>3. QED
      BY <3>2 DEF FailuresAreForgotten
  <2>3. CASE failures = 0
    BY <2>3 DEF FailuresAreForgotten
  <2>4. QED
    BY <2>1, <2>2, <2>3
<1>5. QED
  BY <1>3, <1>4, PTL

------------------------------------------------------------------------------
(* Stale identities.  The partner's acceptance ages by at most one limit   *)
(* per step on its way into the cache, and one TTL in it.                  *)
Vouching == \A k \in Cookie : Vouched(k) => sinceValid[k] = 0

Trusted ==
    \A c \in Caller :
        /\ step[c] = "answered" /\ Accepted(c) => sinceValid[cookie[c]] <= since[c]
        /\ step[c] = "report" /\ Accepted(c) =>
              sinceValid[cookie[c]] <= WhoamiTimeout + waited[c]
        /\ step[c] = "cache_set" =>
              sinceValid[cookie[c]] <= WhoamiTimeout + RedisLag + since[c]

Cached ==
    \A k \in Cookie :
        cache[k] > 0 =>
            sinceValid[k] + cache[k] <= CacheTTL + WhoamiTimeout + 2 * RedisLag

StaleInv == Vouching /\ Trusted /\ Cached /\ BoundedStaleness

LEMMA StaleInit == ResolverInit => StaleInv
BY ConstantsAssumption, ResolverAssumption
   DEF ResolverInit, Init, StaleInv, Vouching, Trusted, Cached, BoundedStaleness

LEMMA StaleStep ==
    ResolverInv /\ StaleInv /\ [ResolverNext]_vars => StaleInv'
<1> SUFFICES ASSUME ResolverInv, StaleInv, [ResolverNext]_vars
             PROVE  StaleInv'
  OBVIOUS
<1> USE ConstantsAssumption, ResolverAssumption
        DEF ResolverInv, ResolverTypeOK, TypeInv, TypeOK, Waits, Limit, Since,
            Where, StepLimit, Timed, Step, Answer, Result, SessionState, ValidCap,
            FailingCap, Place, Commands, resolverVars, partnerVars, breakerVars, keys, GoTo,
            Enter, Continue, Finish, StaleInv, Vouching, Trusted,
            Cached, BoundedStaleness, Accepted, Vouched
<1>1. ASSUME NEW c \in Caller, RejectLocally(c) PROVE StaleInv'
  BY <1>1 DEF RejectLocally
<1>2. ASSUME NEW c \in Caller, NEW k \in Cookie, Resolve(c, k) PROVE StaleInv'
  BY <1>2 DEF Resolve, CallIsOpen
<1>3. ASSUME NEW c \in Caller, PassGate(c) PROVE StaleInv'
  BY <1>3 DEF PassGate, GetOpen, SetProbe
<1>4. ASSUME NEW c \in Caller, ReadCache(c) PROVE StaleInv'
  BY <1>4 DEF ReadCache, ReturnUnreported
<1>5. ASSUME NEW c \in Caller, PartnerAnswers(c) PROVE StaleInv'
  BY <1>5 DEF PartnerAnswers
<1>6. ASSUME NEW c \in Caller, Receive(c) PROVE StaleInv'
  BY <1>6 DEF Receive, CallRecordSuccess, CallRecordFailure
<1>7. ASSUME NEW c \in Caller, FetchFails(c) PROVE StaleInv'
  BY <1>7 DEF FetchFails, CallRecordFailure
<1>8. ASSUME NEW c \in Caller, Report(c) PROVE StaleInv'
  BY <1>8 DEF Report, Accepted, Del, Incr, Expire, Stamp
<1>9. ASSUME NEW c \in Caller, WriteCache(c) PROVE StaleInv'
  BY <1>9 DEF WriteCache
<1>10. ASSUME NEW c \in Caller, Respond(c) PROVE StaleInv'
  BY <1>10 DEF Respond
<1>11. ASSUME NEW c \in Caller, BreakerCommandFails(c) \/ Crash(c) PROVE StaleInv'
  BY <1>11 DEF BreakerCommandFails, Crash, Abandon
<1>12. CASE PartnerGoesDown \/ PartnerComesUp
  BY <1>12 DEF PartnerGoesDown, PartnerComesUp
<1>13. ASSUME NEW k \in Cookie, SessionChanges(k) PROVE StaleInv'
  BY <1>13 DEF SessionChanges, Vouched
<1>14. CASE ResolverTick
  BY <1>14 DEF ResolverTick, Tick, InTime, Down, Capped, Vouched
<1>15. CASE UNCHANGED vars
  BY <1>15 DEF vars, breakerVars
<1>16. QED
  BY <1>1, <1>2, <1>3, <1>4, <1>5, <1>6, <1>7, <1>8, <1>9, <1>10, <1>11,
     <1>12, <1>13, <1>14, <1>15 DEF ResolverNext, RequestStep

(* A logout is final after a cache TTL, a fetch and two commands' delays:  *)
(* nobody is authenticated with a cookie the partner has stopped accepting *)
(* longer ago.                                                             *)
THEOREM LogoutIsFinal == ResolverSpec => []BoundedStaleness
<1>1. ResolverInv /\ StaleInv /\ [ResolverNext]_vars => (ResolverInv /\ StaleInv)'
  BY ResolverInvInductive, StaleStep
<1>2. StaleInv => BoundedStaleness
  BY DEF StaleInv
<1>3. QED
  BY <1>1, <1>2, ResolverInvInit, StaleInit, PTL DEF ResolverSpec

------------------------------------------------------------------------------
(* The steps a request may still take before its slot is free again.       *)
Ahead(c) ==
    IF step[c] = "gate" THEN (IF pc[c] = "get_open" THEN 9 ELSE 8)
    ELSE IF step[c] = "cache_get" THEN 7
    ELSE IF step[c] = "fetch" THEN 6
    ELSE IF step[c] = "answered" THEN 5
    ELSE IF step[c] = "report" THEN (IF pc[c] = "incr" THEN 4 ELSE 3)
    ELSE IF step[c] = "cache_set" THEN 2
    ELSE IF step[c] = "done" THEN 1
    ELSE 0

(* resolveSession has no loop and waits for nobody: each of its steps      *)
(* brings the request nearer to its resolution, and no other request, no   *)
(* failing command, no partner and no clock ever puts it back.             *)
RequestsAdvance ==
    [][\A c \in Caller :
          /\ RequestStep(c) => Ahead(c)' < Ahead(c)
          /\ step[c] # "idle" => Ahead(c)' <= Ahead(c)]_vars

LEMMA StepsAdvance ==
    ASSUME ResolverInv, NEW c \in Caller,
           RequestStep(c) \/ BreakerCommandFails(c) \/ Crash(c)
    PROVE  /\ Ahead(c)' < Ahead(c)
           /\ \A d \in Caller \ {c} : pc'[d] = pc[d] /\ step'[d] = step[d]
<1> USE DEF ResolverInv, ResolverTypeOK, TypeInv, TypeOK, GoTo, Enter, Continue,
            Finish, Ahead, breakerVars, keys
<1>1. CASE PassGate(c)
  BY <1>1 DEF PassGate, GetOpen, SetProbe
<1>2. CASE ReadCache(c) \/ PartnerAnswers(c)
  BY <1>2 DEF ReadCache, ReturnUnreported, PartnerAnswers
<1>3. CASE Receive(c) \/ FetchFails(c)
  BY <1>3 DEF Receive, FetchFails, CallRecordSuccess, CallRecordFailure
<1>4. CASE Report(c)
  BY <1>4 DEF Report, Del, Incr, Expire, Stamp
<1>5. CASE WriteCache(c) \/ Respond(c)
  BY <1>5 DEF WriteCache, Respond
<1>6. CASE BreakerCommandFails(c) \/ Crash(c)
  BY <1>6 DEF BreakerCommandFails, Crash, Abandon, Step
<1>7. QED
  BY <1>1, <1>2, <1>3, <1>4, <1>5, <1>6 DEF RequestStep

(* Nine steps at most lie between the gate and the answer.                 *)
THEOREM ResolutionsAdvance == ResolverSpec => RequestsAdvance
<1>1. ResolverInv /\ [ResolverNext]_vars =>
        [\A c \in Caller :
            /\ RequestStep(c) => Ahead(c)' < Ahead(c)
            /\ step[c] # "idle" => Ahead(c)' <= Ahead(c)]_vars
  <2> SUFFICES ASSUME ResolverInv, ResolverNext, NEW c \in Caller
               PROVE  /\ RequestStep(c) => Ahead(c)' < Ahead(c)
                      /\ step[c] # "idle" => Ahead(c)' <= Ahead(c)
    BY Zenon
  <2>1. RequestStep(c) => Ahead(c)' < Ahead(c)
    BY StepsAdvance
  <2>2. ASSUME step[c] # "idle" PROVE Ahead(c)' <= Ahead(c)
    <3>1. ASSUME pc'[c] = pc[c], step'[c] = step[c] PROVE Ahead(c)' <= Ahead(c)
      BY <3>1 DEF Ahead
    <3>2. ASSUME NEW d \in Caller, RequestStep(d) \/ BreakerCommandFails(d) \/ Crash(d)
          PROVE  Ahead(c)' <= Ahead(c)
      <4>1. CASE d = c
        BY <3>2, <4>1, StepsAdvance DEF Ahead
      <4>2. CASE d # c
        BY <3>1, <3>2, <4>2, StepsAdvance
      <4>3. QED
        BY <4>1, <4>2
    <3>3. ASSUME NEW d \in Caller, RejectLocally(d) \/ \E k \in Cookie : Resolve(d, k)
          PROVE  pc'[c] = pc[c] /\ step'[c] = step[c]
      BY <2>2, <3>3
         DEF RejectLocally, Resolve, CallIsOpen, GoTo, Enter, Finish, Continue,
             breakerVars, ResolverInv, ResolverTypeOK, TypeInv, TypeOK
    <3>4. CASE \/ PartnerGoesDown \/ PartnerComesUp \/ ResolverTick
               \/ \E k \in Cookie : SessionChanges(k)
      BY <3>1, <3>4
         DEF PartnerGoesDown, PartnerComesUp, ResolverTick, Tick, SessionChanges,
             resolverVars, breakerVars
    <3>5. QED
      BY <3>1, <3>2, <3>3, <3>4 DEF ResolverNext
  <2>3. QED
    BY <2>1, <2>2
<1>2. QED
  BY <1>1, ResolverInvInit, ResolverInvInductive, PTL DEF ResolverSpec, RequestsAdvance

==============================================================================
