--------------------------- MODULE WhoamiBreaker ---------------------------
(***************************************************************************)
(* The Redis-backed circuit breaker of the whoami fetch, for one brand     *)
(* slug: three keys shared by every replica, and the callers (requests on  *)
(* any replica) that run isOpen, recordSuccess and recordFailure on them.  *)
(*                                                                         *)
(* One step is one Redis command together with the code that runs on its   *)
(* reply, up to the next await.  Time is discrete: Tick ages every key and *)
(* every caller.  A key's TTL is the number of ticks it has left, 0 for a  *)
(* key that is absent (or, for the counter, one without a TTL).            *)
(*                                                                         *)
(* RedisLag bounds the ticks a command waits before Redis executes it, and *)
(* WorkLimit the ticks between an admission and the report on it; an       *)
(* unbounded wait would refute every statement about time.                 *)
(***************************************************************************)
EXTENDS Naturals, FiniteSets

CONSTANTS
    Caller,         \* requests in flight, on all the replicas together
    Threshold,      \* FAILURE_THRESHOLD
    OpenDuration,   \* OPEN_DURATION_MS, in ticks
    SafetyTTL,      \* OPEN_KEY_SAFETY_TTL_SECONDS
    Window,         \* FAILURE_WINDOW_SECONDS
    ProbeLock,      \* PROBE_LOCK_SECONDS
    WorkLimit,      \* cache read and whoami fetch, WHOAMI_TIMEOUT_MS included
    RedisLag,       \* longest wait of one Redis command
    CrashAt         \* the places where a caller may be cut off

ASSUME ConstantsAssumption ==
    /\ Threshold \in Nat /\ Threshold >= 2
    /\ OpenDuration \in Nat \ {0} /\ SafetyTTL \in Nat \ {0}
    /\ Window \in Nat \ {0} /\ ProbeLock \in Nat \ {0}
    /\ WorkLimit \in Nat /\ RedisLag \in Nat

(* The order of the durations in the code, with room for a slow Redis.     *)
ASSUME DurationsAssumption ==
    /\ WorkLimit + 3 * RedisLag < ProbeLock
    /\ ProbeLock < OpenDuration
    /\ OpenDuration < Window
    /\ Window < SafetyTTL

VARIABLES
    failures,       \* value of the failures key, 0 when absent
    failuresTTL,    \* its TTL, 0 when it has none
    openTTL,        \* TTL of the open key, 0 when absent
    openAge,        \* Date.now() minus the timestamp the open key holds
    probeTTL,       \* TTL of the probe key, 0 when absent
    pc,             \* the command each caller issues next
    waited,         \* ticks since its previous reply
    oldest,         \* history: age of the counter's oldest failure
    fresh           \* history: callers that read an elapsed cooldown the
                    \* key still stands for, or that hold the probe slot,
                    \* with no recordSuccess since

keys == <<failures, failuresTTL, openTTL, openAge, probeTTL>>
breakerVars == <<keys, pc, waited, oldest, fresh>>

Commands == {"get_open", "set_probe", "del", "incr", "expire", "stamp"}
Place == Commands \cup {"idle", "admitted"}

ASSUME CrashAssumption == CrashAt \subseteq Place \ {"idle"}

(* Where the history of the counter's age stops counting.                  *)
AgeCap == Window + RedisLag + 1

TypeOK ==
    /\ failures \in 0..Threshold
    /\ failuresTTL \in 0..Window
    /\ openTTL \in 0..SafetyTTL
    /\ openAge \in 0..(SafetyTTL + RedisLag)
    /\ probeTTL \in 0..ProbeLock
    /\ pc \in [Caller -> Place]
    /\ waited \in [Caller -> Nat]
    /\ oldest \in 0..AgeCap
    /\ fresh \subseteq Caller

Init ==
    /\ failures = 0 /\ failuresTTL = 0
    /\ openTTL = 0 /\ openAge = 0
    /\ probeTTL = 0
    /\ pc = [c \in Caller |-> "idle"]
    /\ waited = [c \in Caller |-> 0]
    /\ oldest = 0
    /\ fresh = {}

------------------------------------------------------------------------------
Limit(place) == IF place = "admitted" THEN WorkLimit ELSE RedisLag

GoTo(c, place) ==
    /\ pc' = [pc EXCEPT ![c] = place]
    /\ waited' = [waited EXCEPT ![c] = 0]

(* The code compares the count with 1 and with the threshold only, so the  *)
(* model counts no further than the threshold.                             *)
Count == IF failures < Threshold THEN failures + 1 ELSE Threshold

(* A request reaches the gate: isOpen issues its GET.                      *)
CallIsOpen(c) ==
    /\ pc[c] = "idle"
    /\ GoTo(c, "get_open")
    /\ UNCHANGED <<keys, oldest, fresh>>

(* GET open.  An absent key admits the caller, a running cooldown refuses  *)
(* it, an elapsed one sends it to the half-open gate.                      *)
GetOpen(c) ==
    /\ pc[c] = "get_open"
    /\ \/ /\ openTTL = 0
          /\ GoTo(c, "admitted")
          /\ fresh' = fresh
       \/ /\ openTTL > 0
          /\ openAge < OpenDuration
          /\ GoTo(c, "idle")
          /\ fresh' = fresh
       \/ /\ openTTL > 0
          /\ openAge >= OpenDuration
          /\ GoTo(c, "set_probe")
          /\ fresh' = fresh \cup {c}
    /\ UNCHANGED <<keys, oldest>>

SetProbeWithoutNX(c) ==
    /\ pc[c] = "set_probe"
    /\ probeTTL' = ProbeLock
    /\ GoTo(c, "admitted")
    /\ fresh' = fresh \cup {c}
    /\ UNCHANGED <<failures, failuresTTL, openTTL, openAge, oldest>>

(* SET probe NX EX: whoever finds the key absent owns the slot.            *)
SetProbe(c) ==
    /\ pc[c] = "set_probe"
    /\ \/ /\ probeTTL = 0
          /\ probeTTL' = ProbeLock
          /\ GoTo(c, "admitted")
          /\ fresh' = fresh \cup {c}
       \/ /\ probeTTL > 0
          /\ GoTo(c, "idle")
          /\ fresh' = fresh \ {c}
          /\ UNCHANGED probeTTL
    /\ UNCHANGED <<failures, failuresTTL, openTTL, openAge, oldest>>

(* An admitted caller calls recordSuccess, calls recordFailure, or returns *)
(* without reporting anything.                                             *)
CallRecordSuccess(c) ==
    /\ pc[c] = "admitted"
    /\ GoTo(c, "del")
    /\ UNCHANGED <<keys, oldest, fresh>>

CallRecordFailure(c) ==
    /\ pc[c] = "admitted"
    /\ GoTo(c, "incr")
    /\ UNCHANGED <<keys, oldest, fresh>>

ReturnUnreported(c) ==
    /\ pc[c] = "admitted"
    /\ GoTo(c, "idle")
    /\ fresh' = fresh \ {c}
    /\ UNCHANGED <<keys, oldest>>

(* recordSuccess: one DEL of the three keys.                               *)
Del(c) ==
    /\ pc[c] = "del"
    /\ failures' = 0 /\ failuresTTL' = 0
    /\ openTTL' = 0 /\ openAge' = 0
    /\ probeTTL' = 0
    /\ GoTo(c, "idle")
    /\ oldest' = 0
    /\ fresh' = {}

IncrWithTheLockReleased(c) ==
    /\ pc[c] = "incr"
    /\ failures' = Count
    /\ probeTTL' = 0
    /\ oldest' = IF failures = 0 THEN 0 ELSE oldest
    /\ \/ Count = 1 /\ GoTo(c, "expire") /\ fresh' = fresh
       \/ Count >= Threshold /\ GoTo(c, "stamp") /\ fresh' = fresh
       \/ Count \in 2..(Threshold - 1) /\ GoTo(c, "idle") /\ fresh' = fresh \ {c}
    /\ UNCHANGED <<failuresTTL, openTTL, openAge>>

(* recordFailure: INCR failures, and what its result asks for next.  A     *)
(* counter this command creates has no TTL yet.                            *)
Incr(c) ==
    /\ pc[c] = "incr"
    /\ failures' = Count
    /\ oldest' = IF failures = 0 THEN 0 ELSE oldest
    /\ \/ Count = 1 /\ GoTo(c, "expire") /\ fresh' = fresh
       \/ Count >= Threshold /\ GoTo(c, "stamp") /\ fresh' = fresh
       \/ Count \in 2..(Threshold - 1) /\ GoTo(c, "idle") /\ fresh' = fresh \ {c}
    /\ UNCHANGED <<failuresTTL, openTTL, openAge, probeTTL>>

ExpireSkipped(c) ==
    /\ pc[c] = "expire"
    /\ GoTo(c, "idle")
    /\ fresh' = fresh \ {c}
    /\ UNCHANGED <<keys, oldest>>

ExpireWithSafetyTTL(c) ==
    /\ pc[c] = "expire"
    /\ failuresTTL' = IF failures > 0 THEN SafetyTTL ELSE failuresTTL
    /\ GoTo(c, "idle")
    /\ fresh' = fresh \ {c}
    /\ UNCHANGED <<failures, openTTL, openAge, probeTTL, oldest>>

(* EXPIRE failures, on whatever counter is there by now: it does nothing   *)
(* when a recordSuccess deleted the key meanwhile.                         *)
Expire(c) ==
    /\ pc[c] = "expire"
    /\ failuresTTL' = IF failures > 0 THEN Window ELSE failuresTTL
    /\ GoTo(c, "idle")
    /\ fresh' = fresh \ {c}
    /\ UNCHANGED <<failures, openTTL, openAge, probeTTL, oldest>>

(* SET open EX.  Date.now() was read when the command was issued, waited[c] *)
(* ticks before Redis stores it.                                           *)
Stamp(c) ==
    /\ pc[c] = "stamp"
    /\ openTTL' = SafetyTTL
    /\ openAge' = waited[c]
    /\ GoTo(c, "idle")
    /\ fresh' = fresh \ {c}
    /\ UNCHANGED <<failures, failuresTTL, probeTTL, oldest>>

(* The replica stops, or the command rejects (ioredis gives up after       *)
(* maxRetriesPerRequest) and the exception leaves the breaker: in both     *)
(* cases the remaining commands are never sent.                            *)
Abandon(c) ==
    /\ pc[c] \in CrashAt
    /\ GoTo(c, "idle")
    /\ fresh' = fresh \ {c}
    /\ UNCHANGED <<keys, oldest>>

Down(n) == IF n > 0 THEN n - 1 ELSE 0

CallersInTime == \A c \in Caller : pc[c] # "idle" => waited[c] < Limit(pc[c])

(* One tick: every TTL runs down, and a key whose TTL reaches 0 is gone.   *)
Tick ==
    /\ CallersInTime
    /\ waited' = [c \in Caller |-> IF pc[c] = "idle" THEN 0 ELSE waited[c] + 1]
    /\ failuresTTL' = Down(failuresTTL)
    /\ failures' = IF failuresTTL = 1 THEN 0 ELSE failures
    /\ openTTL' = Down(openTTL)
    /\ openAge' = IF openTTL > 1 THEN openAge + 1 ELSE 0
    /\ probeTTL' = Down(probeTTL)
    /\ oldest' = IF failures' = 0 THEN 0
                 ELSE IF oldest < AgeCap THEN oldest + 1
                 ELSE oldest
    /\ fresh' = IF openTTL = 1 THEN {c \in fresh : pc[c] # "set_probe"} ELSE fresh
    /\ UNCHANGED pc

CallerStep(c) ==
    \/ CallIsOpen(c) \/ GetOpen(c) \/ SetProbe(c)
    \/ CallRecordSuccess(c) \/ CallRecordFailure(c) \/ ReturnUnreported(c)
    \/ Del(c) \/ Incr(c) \/ Expire(c) \/ Stamp(c)

Next ==
    \/ \E c \in Caller : CallerStep(c) \/ Abandon(c)
    \/ Tick

Spec == Init /\ [][Next]_breakerVars

------------------------------------------------------------------------------
(* Callers working with a probe slot: granted after the last recordSuccess *)
(* and not reported back yet.                                              *)
Probers == {c \in fresh : pc[c] # "set_probe"}

(* At any moment at most one caller across the replicas works with the     *)
(* probe slot of an elapsed cooldown, from the grant to the end of its     *)
(* report, whatever late failures, successes and crashes of the others     *)
(* interleave (the promise of isOpen and tryHalfOpen).                     *)
SingleProber == \A c, d \in Probers : c = d

(* A failure stays in the counter for at most one window (and the lag of   *)
(* the EXPIRE that starts it), whatever other callers do in between:       *)
(* three failures open the circuit only when they are that close.          *)
CounterWithinWindow == failures > 0 => oldest <= Window + RedisLag

(* No caller is admitted while the cooldown of the open key is running,    *)
(* the callers included that read the key earlier, when it had elapsed,    *)
(* and won the probe slot since.  Only when the key they read is gone in   *)
(* between (a recordSuccess, or its safety TTL) can one slip through.      *)
NoAdmissionDuringCooldown ==
    [][\A c \in Caller :
          (/\ pc[c] # "admitted"
           /\ pc'[c] = "admitted"
           /\ pc[c] = "set_probe" => c \in fresh)
          => openTTL = 0 \/ openAge >= OpenDuration]_breakerVars

(* A prober's failed call always restarts the cooldown: its INCR still     *)
(* finds the failures that opened the circuit, as the comment beside       *)
(* FAILURE_WINDOW_SECONDS says.                                            *)
FailedProbeRestartsCooldown ==
    [][\A c \in Probers :
          pc[c] = "incr" /\ pc'[c] # "incr" => pc'[c] = "stamp"]_breakerVars

(* What the keys and the callers amount to: a closed circuit has no open   *)
(* key, an open one a key whose cooldown runs.                             *)
CircuitState ==
    IF openTTL = 0 THEN "closed"
    ELSE IF openAge < OpenDuration THEN "open"
    ELSE "half_open"

Calling == {c \in Caller : pc[c] \notin {"idle", "get_open", "set_probe"}}
Invited == {c \in fresh : pc[c] = "set_probe"}
Stragglers == {c \in Caller \ fresh : pc[c] = "set_probe"}

(* The three keys, and the replicas that race on them, implement the       *)
(* circuit breaker of the textbook: open only by a report, half-open only  *)
(* by time, one try of a half-open circuit at a time, and closed by a      *)
(* success or after a half-open spell nobody ended.                        *)
Circuit == INSTANCE CircuitBreaker WITH
    circuit <- CircuitState,
    calling <- Calling,
    probing <- Probers,
    invited <- Invited,
    stragglers <- Stragglers

CircuitSpec == Circuit!Spec

==============================================================================
