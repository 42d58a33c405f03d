------------------------ MODULE WhoamiBreakerProofs ------------------------
(***************************************************************************)
(* Proofs about WhoamiBreaker, for any number of callers and any durations *)
(* that the assumptions of the module allow.                               *)
(***************************************************************************)
EXTENDS WhoamiBreaker, TLAPS

(* No caller outstays the limit of the place it is at.                     *)
Waits ==
    \A c \in Caller : waited[c] <= IF pc[c] = "idle" THEN 0 ELSE Limit(pc[c])

(* The timestamp in the open key is older than the key by the lag of the   *)
(* SET at most.                                                            *)
OpenKey == openAge + openTTL <= SafetyTTL + RedisLag

TypeInv == TypeOK /\ Waits /\ OpenKey

LEMMA TypeInit == Init => TypeInv
BY ConstantsAssumption
   DEF Init, TypeInv, TypeOK, Waits, OpenKey, Place, Commands, AgeCap, Limit

LEMMA TypeStep == TypeInv /\ [Next]_breakerVars => TypeInv'
<1> SUFFICES ASSUME TypeInv, [Next]_breakerVars
             PROVE  TypeInv'
  OBVIOUS
<1> USE ConstantsAssumption DEF TypeInv, TypeOK, Waits, OpenKey, GoTo, keys,
        Place, Commands, AgeCap, Limit
<1>1. CASE Tick
  BY <1>1 DEF Tick, Down, CallersInTime
<1>2. ASSUME NEW c \in Caller, CallIsOpen(c) PROVE TypeInv'
  BY <1>2 DEF CallIsOpen
<1>3. ASSUME NEW c \in Caller, GetOpen(c) PROVE TypeInv'
  BY <1>3 DEF GetOpen
<1>4. ASSUME NEW c \in Caller, SetProbe(c) PROVE TypeInv'
  BY <1>4 DEF SetProbe
<1>5. ASSUME NEW c \in Caller,
             CallRecordSuccess(c) \/ CallRecordFailure(c) \/ ReturnUnreported(c)
      PROVE  TypeInv'
  BY <1>5 DEF CallRecordSuccess, CallRecordFailure, ReturnUnreported
<1>6. ASSUME NEW c \in Caller, Del(c) PROVE TypeInv'
  BY <1>6 DEF Del
<1>7. ASSUME NEW c \in Caller, Incr(c) PROVE TypeInv'
  BY <1>7 DEF Incr, Count
<1>8. ASSUME NEW c \in Caller, Expire(c) PROVE TypeInv'
  BY <1>8 DEF Expire
<1>9. ASSUME NEW c \in Caller, Stamp(c) PROVE TypeInv'
  BY <1>9 DEF Stamp
<1>10. ASSUME NEW c \in Caller, Abandon(c) PROVE TypeInv'
  BY <1>10 DEF Abandon
<1>11. CASE UNCHANGED breakerVars
  BY <1>11 DEF breakerVars
<1>12. QED
  BY <1>1, <1>2, <1>3, <1>4, <1>5, <1>6, <1>7, <1>8, <1>9, <1>10, <1>11
     DEF Next, CallerStep

(* Every variable keeps its type: the TTLs stay within the durations they  *)
(* are set to, the stored timestamp within the life of its key.            *)
THEOREM TypeCorrect == Spec => []TypeOK
<1>1. TypeInv => TypeOK
  BY DEF TypeInv
<1>2. QED
  BY <1>1, TypeInit, TypeStep, PTL DEF Spec

------------------------------------------------------------------------------
(* The probe slot.  A prober's lock outlasts its work: what is left of the *)
(* lock and what the prober may have used of it cover the whole lock.      *)
Working == {"admitted", "del", "incr", "expire", "stamp"}

(* The longest a caller can have been at work when it reaches a place.     *)
Before(place) ==
    IF place = "admitted" THEN 0
    ELSE IF place \in {"del", "incr"} THEN WorkLimit
    ELSE WorkLimit + RedisLag

FreshPlaces == \A c \in fresh : pc[c] \in Working \cup {"set_probe"}

LockHeld == \A c \in Probers : probeTTL + waited[c] + Before(pc[c]) >= ProbeLock

ProbeInv == FreshPlaces /\ LockHeld /\ SingleProber

LEMMA ProbeInit == Init => ProbeInv
BY DEF Init, ProbeInv, FreshPlaces, LockHeld, SingleProber, Probers

(* Whoever works with the slot keeps everybody else from winning it.       *)
LEMMA LockOutlastsWork ==
    ASSUME TypeInv, LockHeld, FreshPlaces, NEW c \in Probers
    PROVE  probeTTL > RedisLag /\ probeTTL > 0
BY ConstantsAssumption, DurationsAssumption
   DEF TypeInv, TypeOK, Waits, Limit, LockHeld, FreshPlaces, Probers, Working,
       Before, Place, Commands

LEMMA ProbeStep ==
    TypeInv /\ TypeInv' /\ ProbeInv /\ [Next]_breakerVars => ProbeInv'
<1> SUFFICES ASSUME TypeInv, TypeInv', ProbeInv, [Next]_breakerVars
             PROVE  ProbeInv'
  OBVIOUS
<1> USE ConstantsAssumption, DurationsAssumption
        DEF TypeInv, TypeOK, Waits, Limit, Place, Commands, GoTo, keys, Working,
            Before, ProbeInv, FreshPlaces, LockHeld, SingleProber, Probers
<1>1. CASE Tick
  BY <1>1 DEF Tick, Down, CallersInTime
<1>2. ASSUME NEW c \in Caller, CallIsOpen(c) PROVE ProbeInv'
  BY <1>2 DEF CallIsOpen
<1>3. ASSUME NEW c \in Caller, GetOpen(c) PROVE ProbeInv'
  BY <1>3 DEF GetOpen
<1>4. ASSUME NEW c \in Caller, SetProbe(c) PROVE ProbeInv'
  <2>1. CASE probeTTL = 0
    <3>1. Probers = {}
      BY <2>1, LockOutlastsWork
    <3>2. Probers' = {c}
      BY <1>4, <2>1, <3>1 DEF SetProbe
    <3>3. QED
      BY <1>4, <2>1, <3>2 DEF SetProbe
  <2>2. CASE probeTTL > 0
    BY <1>4, <2>2 DEF SetProbe
  <2>3. QED
    BY <2>1, <2>2
<1>5. ASSUME NEW c \in Caller,
             CallRecordSuccess(c) \/ CallRecordFailure(c) \/ ReturnUnreported(c)
      PROVE  ProbeInv'
  BY <1>5 DEF CallRecordSuccess, CallRecordFailure, ReturnUnreported
<1>6. ASSUME NEW c \in Caller, Del(c) PROVE ProbeInv'
  BY <1>6 DEF Del
<1>7. ASSUME NEW c \in Caller, Incr(c) PROVE ProbeInv'
  BY <1>7 DEF Incr, Count
<1>8. ASSUME NEW c \in Caller, Expire(c) PROVE ProbeInv'
  BY <1>8 DEF Expire
<1>9. ASSUME NEW c \in Caller, Stamp(c) PROVE ProbeInv'
  BY <1>9 DEF Stamp
<1>10. ASSUME NEW c \in Caller, Abandon(c) PROVE ProbeInv'
  BY <1>10 DEF Abandon
<1>11. CASE UNCHANGED breakerVars
  BY <1>11 DEF breakerVars
<1>12. QED
  BY <1>1, <1>2, <1>3, <1>4, <1>5, <1>6, <1>7, <1>8, <1>9, <1>10, <1>11
     DEF Next, CallerStep

(* At most one caller at a time works with the probe slot, whatever late   *)
(* reports, crashes and Redis delays interleave, as long as the lock is    *)
(* longer than an admitted call and its report.                            *)
THEOREM OneProber == Spec => []SingleProber
<1>1. Init => TypeInv /\ ProbeInv
  BY TypeInit, ProbeInit
<1>2. TypeInv /\ ProbeInv /\ [Next]_breakerVars => (TypeInv /\ ProbeInv)'
  BY TypeStep, ProbeStep
<1>3. ProbeInv => SingleProber
  BY DEF ProbeInv
<1>4. QED
  BY <1>1, <1>2, <1>3, PTL DEF Spec

------------------------------------------------------------------------------
(* The cooldown.  A caller at work that holds no slot was admitted while   *)
(* the open key was absent, so the key is no older than its work.          *)
Strangers ==
    \A c \in Caller \ fresh :
        openTTL > 0 /\ pc[c] \in Working =>
            openAge <= waited[c] + Before(pc[c]) + RedisLag

(* A caller on its way to the slot read a cooldown that is elapsed still,  *)
(* unless a prober has restarted it, whose lock outlasts the caller's SET. *)
Readers ==
    \A c \in fresh :
        pc[c] = "set_probe" =>
            /\ openTTL > 0
            /\ openAge >= OpenDuration \/ probeTTL + waited[c] > RedisLag

CooldownInv == Strangers /\ Readers

LEMMA CooldownInit == Init => CooldownInv
BY DEF Init, CooldownInv, Strangers, Readers

(* Work ends well before the cooldown it may start does.                   *)
LEMMA StrangersAreEarly ==
    ASSUME TypeInv, Strangers, NEW c \in Caller \ fresh,
           openTTL > 0, pc[c] \in Working
    PROVE  openAge < OpenDuration
BY ConstantsAssumption, DurationsAssumption
   DEF TypeInv, TypeOK, Waits, Limit, Strangers, Working, Before, Place, Commands

LEMMA CooldownStep ==
    TypeInv /\ TypeInv' /\ ProbeInv /\ CooldownInv /\ [Next]_breakerVars
        => CooldownInv'
<1> SUFFICES ASSUME TypeInv, TypeInv', ProbeInv, CooldownInv, [Next]_breakerVars
             PROVE  CooldownInv'
  OBVIOUS
<1> USE ConstantsAssumption, DurationsAssumption
        DEF TypeInv, TypeOK, Waits, Limit, Place, Commands, GoTo, keys, Working,
            Before, CooldownInv, Strangers, Readers
<1>1. CASE Tick
  BY <1>1 DEF Tick, Down, CallersInTime
<1>2. ASSUME NEW c \in Caller, CallIsOpen(c) PROVE CooldownInv'
  BY <1>2 DEF CallIsOpen
<1>3. ASSUME NEW c \in Caller, GetOpen(c) PROVE CooldownInv'
  BY <1>3 DEF GetOpen
<1>4. ASSUME NEW c \in Caller, SetProbe(c) PROVE CooldownInv'
  BY <1>4 DEF SetProbe
<1>5. ASSUME NEW c \in Caller,
             CallRecordSuccess(c) \/ CallRecordFailure(c) \/ ReturnUnreported(c)
      PROVE  CooldownInv'
  BY <1>5 DEF CallRecordSuccess, CallRecordFailure, ReturnUnreported
<1>6. ASSUME NEW c \in Caller, Del(c) PROVE CooldownInv'
  BY <1>6 DEF Del
<1>7. ASSUME NEW c \in Caller, Incr(c) PROVE CooldownInv'
  BY <1>7 DEF Incr, Count
<1>8. ASSUME NEW c \in Caller, Expire(c) PROVE CooldownInv'
  BY <1>8 DEF Expire
<1>9. ASSUME NEW c \in Caller, Stamp(c) PROVE CooldownInv'
  <2>1. Strangers'
    BY <1>9 DEF Stamp
  <2>2. CASE c \in fresh
    <3>1. probeTTL > RedisLag
      BY <1>9, <2>2, LockOutlastsWork DEF Stamp, ProbeInv, Probers
    <3>2. QED
      BY <1>9, <2>1, <2>2, <3>1 DEF Stamp
  <2>3. CASE c \notin fresh
    <3>1. openTTL > 0 => openAge < OpenDuration
      BY <1>9, <2>3, StrangersAreEarly DEF Stamp
    <3>2. QED
      BY <1>9, <2>1, <2>3, <3>1 DEF Stamp
  <2>4. QED
    BY <2>2, <2>3
<1>10. ASSUME NEW c \in Caller, Abandon(c) PROVE CooldownInv'
  BY <1>10 DEF Abandon
<1>11. CASE UNCHANGED breakerVars
  BY <1>11 DEF breakerVars
<1>12. QED
  BY <1>1, <1>2, <1>3, <1>4, <1>5, <1>6, <1>7, <1>8, <1>9, <1>10, <1>11
     DEF Next, CallerStep

(* What a step that admits c may assume.                                   *)
Admits(c) ==
    (/\ pc[c] # "admitted"
     /\ pc'[c] = "admitted"
     /\ pc[c] = "set_probe" => c \in fresh)
        => openTTL = 0 \/ openAge >= OpenDuration

LEMMA AdmissionStep ==
    ASSUME TypeInv, Readers, [Next]_breakerVars, NEW c \in Caller
    PROVE  Admits(c)
<1> USE DEF TypeInv, TypeOK, GoTo, Admits, Place, Commands
<1>1. CASE pc[c] = "get_open" /\ GetOpen(c)
  BY <1>1, ConstantsAssumption DEF GetOpen
<1>2. CASE pc[c] = "set_probe" /\ SetProbe(c)
  BY <1>2, ConstantsAssumption DEF SetProbe, Readers, Waits, Limit
<1>3. CASE ~GetOpen(c) /\ ~SetProbe(c)
  <2>1. pc'[c] = pc[c] \/ pc'[c] # "admitted"
    BY <1>3, ConstantsAssumption
       DEF Next, CallerStep, CallIsOpen, GetOpen, SetProbe, CallRecordSuccess,
           CallRecordFailure, ReturnUnreported, Del, Incr, Expire, Stamp,
           Abandon, Tick, breakerVars, Count
  <2>2. QED
    BY <2>1
<1>4. QED
  BY <1>1, <1>2, <1>3 DEF GetOpen, SetProbe

(* Nobody is admitted in a running cooldown, not even a caller that read   *)
(* the elapsed one before a failed probe restarted it.                     *)
THEOREM CooldownHolds == Spec => NoAdmissionDuringCooldown
<1> DEFINE Inv == TypeInv /\ ProbeInv /\ CooldownInv
<1>1. Init => Inv
  BY TypeInit, ProbeInit, CooldownInit
<1>2. Inv /\ [Next]_breakerVars => Inv'
  BY TypeStep, ProbeStep, CooldownStep
<1>3. Inv /\ [Next]_breakerVars => \A c \in Caller : Admits(c)
  BY AdmissionStep DEF CooldownInv
<1>4. QED
  BY <1>1, <1>2, <1>3, PTL DEF Spec, NoAdmissionDuringCooldown, Admits

------------------------------------------------------------------------------
(* The refinement of the abstract circuit.  The open key dates from the    *)
(* moment it was set, so it cannot expire before its cooldown is over: the *)
(* circuit closes by time only when it is half-open.                       *)
KeyAge == openTTL > 0 => openAge + openTTL >= SafetyTTL

LEMMA KeyAgeInit == Init => KeyAge
BY DEF Init, KeyAge

LEMMA KeyAgeStep == TypeInv /\ KeyAge /\ [Next]_breakerVars => KeyAge'
<1> SUFFICES ASSUME TypeInv, KeyAge, [Next]_breakerVars
             PROVE  KeyAge'
  OBVIOUS
<1> USE ConstantsAssumption DEF TypeInv, TypeOK, KeyAge, keys
<1>1. CASE Tick
  BY <1>1 DEF Tick, Down
<1>2. ASSUME NEW c \in Caller, Del(c) \/ Stamp(c) PROVE KeyAge'
  BY <1>2 DEF Del, Stamp
<1>3. CASE UNCHANGED <<openTTL, openAge>>
  BY <1>3
<1>4. QED
  BY <1>1, <1>2, <1>3
     DEF Next, CallerStep, CallIsOpen, GetOpen, SetProbe, CallRecordSuccess,
         CallRecordFailure, ReturnUnreported, Incr, Expire, Abandon, breakerVars

LEMMA CircuitInit == Init => Circuit!Init
BY DEF Init, Circuit!Init, Probers, CircuitState, Calling, Invited, Stragglers

LEMMA CircuitStep ==
    TypeInv /\ TypeInv' /\ ProbeInv /\ CooldownInv /\ KeyAge /\ [Next]_breakerVars
        => [Circuit!Next]_(Circuit!vars)
<1> SUFFICES ASSUME TypeInv, TypeInv', ProbeInv, CooldownInv, KeyAge,
                    [Next]_breakerVars
             PROVE  [Circuit!Next]_(Circuit!vars)
  OBVIOUS
<1> USE ConstantsAssumption, DurationsAssumption
        DEF TypeInv, TypeOK, Waits, Limit, Place, Commands, GoTo, keys,
            CircuitState, Calling, Probers, Invited, Stragglers
<1>0. ASSUME NEW c \in Caller,
             \/ Circuit!Admit(c) \/ Circuit!Invite(c) \/ Circuit!Try(c)
             \/ Circuit!Depart(c) \/ Circuit!Trip(c) \/ Circuit!Succeed(c)
      PROVE  [Circuit!Next]_(Circuit!vars)
  BY <1>0, Zenon DEF Circuit!Next
<1>1. ASSUME UNCHANGED <<CircuitState, Calling, Probers, Invited, Stragglers>>
      PROVE  UNCHANGED Circuit!vars
  BY <1>1 DEF Circuit!vars
(* On the way to the key, or turned away by it.                            *)
<1>2. ASSUME NEW c \in Caller, CallIsOpen(c) PROVE [Circuit!Next]_(Circuit!vars)
  <2>1. UNCHANGED <<CircuitState, Calling, Probers, Invited, Stragglers>>
    BY <1>2 DEF CallIsOpen, ProbeInv, FreshPlaces, Working
  <2>2. QED
    BY <1>1, <2>1
<1>3. ASSUME NEW c \in Caller, GetOpen(c) PROVE [Circuit!Next]_(Circuit!vars)
  <2>1. c \notin fresh
    BY <1>3 DEF GetOpen, ProbeInv, FreshPlaces, Working
  <2>2. CASE openTTL = 0
    <3>1. Circuit!Admit(c)
      BY <1>3, <2>1, <2>2 DEF GetOpen, Circuit!Admit, Circuit!Outside
    <3>2. QED
      BY <1>0, <3>1
  <2>3. CASE openTTL > 0 /\ openAge < OpenDuration
    <3>1. UNCHANGED <<CircuitState, Calling, Probers, Invited, Stragglers>>
      BY <1>3, <2>1, <2>3 DEF GetOpen
    <3>2. QED
      BY <1>1, <3>1
  <2>4. CASE openTTL > 0 /\ openAge >= OpenDuration
    <3>1. Circuit!Invite(c)
      BY <1>3, <2>1, <2>4 DEF GetOpen, Circuit!Invite, Circuit!Outside
    <3>2. QED
      BY <1>0, <3>1
  <2>5. QED
    BY <2>2, <2>3, <2>4
(* At the slot.  Whoever wins it finds no prober at work, and no cooldown, *)
(* unless it read a key that is gone.                                      *)
<1>4. ASSUME NEW c \in Caller, SetProbe(c) PROVE [Circuit!Next]_(Circuit!vars)
  <2>1. CASE probeTTL = 0
    <3>1. Probers = {}
      BY <2>1, LockOutlastsWork DEF ProbeInv
    <3>2. Probers' = {c}
      BY <1>4, <2>1, <3>1 DEF SetProbe
    <3>3. c \in fresh => openTTL > 0 /\ openAge >= OpenDuration
      BY <1>4, <2>1 DEF SetProbe, CooldownInv, Readers
    <3>4. Circuit!Try(c)
      BY <1>4, <2>1, <3>1, <3>2, <3>3 DEF SetProbe, Circuit!Try
    <3>5. QED
      BY <1>0, <3>4
  <2>2. CASE probeTTL > 0
    <3>1. Circuit!Depart(c)
      BY <1>4, <2>2 DEF SetProbe, Circuit!Depart, Circuit!Outside
    <3>2. QED
      BY <1>0, <3>1
  <2>3. QED
    BY <2>1, <2>2
(* At work: the steps that leave the caller there, then those that end it. *)
<1>5. ASSUME NEW c \in Caller, pc[c] \in Working, pc'[c] \in Working,
             pc' = [pc EXCEPT ![c] = pc'[c]], UNCHANGED <<openTTL, openAge, fresh>>
      PROVE  [Circuit!Next]_(Circuit!vars)
  <2>1. UNCHANGED <<CircuitState, Calling, Probers, Invited, Stragglers>>
    BY <1>5 DEF Working
  <2>2. QED
    BY <1>1, <2>1
<1>6. ASSUME NEW c \in Caller, pc[c] \in Working, pc' = [pc EXCEPT ![c] = "idle"],
             UNCHANGED <<openTTL, openAge>>, fresh' = fresh \ {c}
      PROVE  [Circuit!Next]_(Circuit!vars)
  <2>1. Circuit!Depart(c)
    BY <1>6 DEF Circuit!Depart, Circuit!Outside, Working
  <2>2. QED
    BY <1>0, <2>1
<1>7. ASSUME NEW c \in Caller,
             CallRecordSuccess(c) \/ CallRecordFailure(c) \/ ReturnUnreported(c)
      PROVE  [Circuit!Next]_(Circuit!vars)
  BY <1>5, <1>6, <1>7
     DEF CallRecordSuccess, CallRecordFailure, ReturnUnreported, Working
<1>8. ASSUME NEW c \in Caller, Del(c) PROVE [Circuit!Next]_(Circuit!vars)
  <2>1. Circuit!Succeed(c)
    BY <1>8 DEF Del, Circuit!Succeed, Circuit!Close
  <2>2. QED
    BY <1>0, <2>1
<1>9. ASSUME NEW c \in Caller, Incr(c) PROVE [Circuit!Next]_(Circuit!vars)
  BY <1>5, <1>6, <1>9 DEF Incr, Count, Working
<1>10. ASSUME NEW c \in Caller, Expire(c) PROVE [Circuit!Next]_(Circuit!vars)
  BY <1>6, <1>10 DEF Expire, Working
<1>11. ASSUME NEW c \in Caller, Stamp(c) PROVE [Circuit!Next]_(Circuit!vars)
  <2>1. waited[c] <= RedisLag
    BY <1>11 DEF Stamp
  <2>2. openTTL' > 0 /\ openAge' < OpenDuration
    BY <1>11, <2>1 DEF Stamp
  <2>3. Circuit!Trip(c)
    BY <1>11, <2>2 DEF Stamp, Circuit!Trip
  <2>4. QED
    BY <1>0, <2>3
<1>12. ASSUME NEW c \in Caller, Abandon(c) PROVE [Circuit!Next]_(Circuit!vars)
  <2>1. CASE pc[c] \in Working
    BY <1>6, <1>12, <2>1 DEF Abandon
  <2>2. CASE pc[c] = "set_probe"
    <3>1. Circuit!Depart(c)
      BY <1>12, <2>2 DEF Abandon, Circuit!Depart, Circuit!Outside
    <3>2. QED
      BY <1>0, <3>1
  <2>3. CASE pc[c] = "get_open"
    <3>1. UNCHANGED <<CircuitState, Calling, Probers, Invited, Stragglers>>
      BY <1>12, <2>3 DEF Abandon, ProbeInv, FreshPlaces, Working
    <3>2. QED
      BY <1>1, <3>1
  <2>4. QED
    BY <1>12, <2>1, <2>2, <2>3, CrashAssumption DEF Abandon, Working
(* Time: the key expires, or its cooldown ends, or neither.                *)
<1>13. CASE Tick
  <2>1. UNCHANGED Calling
    BY <1>13 DEF Tick
  <2>2. CASE openTTL = 1
    <3>1. openAge >= OpenDuration
      BY <2>2 DEF KeyAge
    <3>2. Circuit!Forget
      BY <1>13, <2>2, <3>1 DEF Tick, Down, Circuit!Forget, Circuit!Close
    <3>3. QED
      BY <3>2, Zenon DEF Circuit!Next
  <2>3. CASE openTTL # 1
    <3>1. UNCHANGED <<pc, fresh>> /\ (openTTL' = 0 <=> openTTL = 0)
      BY <1>13, <2>3 DEF Tick, Down
    <3>2. CASE CircuitState = "open" /\ CircuitState' = "half_open"
      <4>1. Circuit!CoolDown
        BY <3>1, <3>2 DEF Circuit!CoolDown
      <4>2. QED
        BY <4>1, Zenon DEF Circuit!Next
    <3>3. CASE ~(CircuitState = "open" /\ CircuitState' = "half_open")
      <4>1. UNCHANGED CircuitState
        BY <1>13, <2>3, <3>1, <3>3 DEF Tick
      <4>2. UNCHANGED <<Probers, Invited, Stragglers>>
        BY <3>1
      <4>3. QED
        BY <1>1, <2>1, <4>1, <4>2
    <3>4. QED
      BY <3>2, <3>3
  <2>4. QED
    BY <2>2, <2>3
<1>14. CASE UNCHANGED breakerVars
  <2>1. UNCHANGED <<CircuitState, Calling, Probers, Invited, Stragglers>>
    BY <1>14 DEF breakerVars
  <2>2. QED
    BY <1>1, <2>1
<1>15. QED
  BY <1>2, <1>3, <1>4, <1>7, <1>8, <1>9, <1>10, <1>11, <1>12, <1>13, <1>14
     DEF Next, CallerStep

(* The keys of any number of replicas behave as one circuit breaker: open  *)
(* only by a report, half-open only by time, tried by one caller at a      *)
(* time, closed by a success or after a half-open spell.                   *)
THEOREM BreakerImplementsCircuit == Spec => CircuitSpec
<1> DEFINE Inv == TypeInv /\ ProbeInv /\ CooldownInv /\ KeyAge
<1>1. Init => Inv /\ Circuit!Init
  BY TypeInit, ProbeInit, CooldownInit, KeyAgeInit, CircuitInit
<1>2. Inv /\ [Next]_breakerVars => Inv'
  BY TypeStep, ProbeStep, CooldownStep, KeyAgeStep
<1>3. Inv /\ Inv' /\ [Next]_breakerVars => [Circuit!Next]_(Circuit!vars)
  BY CircuitStep
<1>4. QED
  BY <1>1, <1>2, <1>3, PTL DEF Spec, CircuitSpec, Circuit!Spec

------------------------------------------------------------------------------
(* The failure counter, as long as nobody is cut off between its INCR and  *)
(* the EXPIRE that follows.                                                *)
NoCounter == failures = 0 => oldest = 0 /\ failuresTTL = 0

(* A counter with a TTL is deleted before its oldest failure is too old.   *)
Limited ==
    failures > 0 /\ failuresTTL > 0 => oldest + failuresTTL <= Window + RedisLag

(* A caller about to start the window created the counter it finds, or one *)
(* that was deleted since: what it finds is no older than its own INCR.    *)
Starting == \A c \in Caller : pc[c] = "expire" => oldest <= waited[c]

(* A counter with no TTL is about to get one.                              *)
Unlimited ==
    failures > 0 /\ failuresTTL = 0 => \E c \in Caller : pc[c] = "expire"

CounterInv == NoCounter /\ Limited /\ Starting /\ Unlimited

LEMMA CounterInit == Init => CounterInv
BY DEF Init, CounterInv, NoCounter, Limited, Starting, Unlimited

LEMMA CounterStep ==
    ASSUME "expire" \notin CrashAt
    PROVE  TypeInv /\ CounterInv /\ [Next]_breakerVars => CounterInv'
<1> SUFFICES ASSUME TypeInv, CounterInv, [Next]_breakerVars
             PROVE  CounterInv'
  OBVIOUS
<1> USE ConstantsAssumption
        DEF TypeInv, TypeOK, Waits, Limit, Place, Commands, AgeCap, GoTo, keys,
            CounterInv, NoCounter, Limited, Starting, Unlimited
<1>1. CASE Tick
  BY <1>1 DEF Tick, Down, CallersInTime
<1>2. ASSUME NEW c \in Caller, CallIsOpen(c) PROVE CounterInv'
  BY <1>2 DEF CallIsOpen
<1>3. ASSUME NEW c \in Caller, GetOpen(c) PROVE CounterInv'
  BY <1>3 DEF GetOpen
<1>4. ASSUME NEW c \in Caller, SetProbe(c) PROVE CounterInv'
  BY <1>4 DEF SetProbe
<1>5. ASSUME NEW c \in Caller,
             CallRecordSuccess(c) \/ CallRecordFailure(c) \/ ReturnUnreported(c)
      PROVE  CounterInv'
  BY <1>5 DEF CallRecordSuccess, CallRecordFailure, ReturnUnreported
<1>6. ASSUME NEW c \in Caller, Del(c) PROVE CounterInv'
  BY <1>6 DEF Del
<1>7. ASSUME NEW c \in Caller, Incr(c) PROVE CounterInv'
  BY <1>7 DEF Incr, Count
<1>8. ASSUME NEW c \in Caller, Expire(c) PROVE CounterInv'
  BY <1>8 DEF Expire
<1>9. ASSUME NEW c \in Caller, Stamp(c) PROVE CounterInv'
  BY <1>9 DEF Stamp
<1>10. ASSUME NEW c \in Caller, Abandon(c) PROVE CounterInv'
  BY <1>10 DEF Abandon
<1>11. CASE UNCHANGED breakerVars
  BY <1>11 DEF breakerVars
<1>12. QED
  BY <1>1, <1>2, <1>3, <1>4, <1>5, <1>6, <1>7, <1>8, <1>9, <1>10, <1>11
     DEF Next, CallerStep

(* If nobody is cut off between INCR and EXPIRE, no failure is counted for *)
(* longer than the window.                                                 *)
THEOREM FailuresAgeOut ==
    ASSUME "expire" \notin CrashAt
    PROVE  Spec => []CounterWithinWindow
<1>1. Init => TypeInv /\ CounterInv
  BY TypeInit, CounterInit
<1>2. TypeInv /\ CounterInv /\ [Next]_breakerVars => (TypeInv /\ CounterInv)'
  BY TypeStep, CounterStep
<1>3. TypeInv /\ CounterInv => CounterWithinWindow
  BY ConstantsAssumption
     DEF TypeInv, TypeOK, Waits, Limit, AgeCap, CounterInv, Limited, Starting,
         Unlimited, CounterWithinWindow
<1>4. QED
  BY <1>1, <1>2, <1>3, PTL DEF Spec

==============================================================================
