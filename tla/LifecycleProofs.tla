-------------------------- MODULE LifecycleProofs --------------------------
(***************************************************************************)
(* Proofs about Lifecycle, for any number of clients and any durations.    *)
(***************************************************************************)
EXTENDS Lifecycle, TLAPS

(* What is closed, and what is open, by the phase.                         *)
Phases ==
    /\ phase \in {"starting", "binding", "serving", "draining"} => redis = "open"
    /\ phase = "quitting" => \A c \in Client : link[c] = "closed"
    /\ phase # "exited" => code = "none"

(* What a handler is, by the phase.                                        *)
Handlers ==
    \A c \in Client :
        /\ handler[c] = "cut" => phase = "exited"
        /\ phase = "exited" => handler[c] \in {"none", "cut"}
        /\ pending[c] # {} => handler[c] = "probe" \/ phase = "exited"

(* A probe that runs after the signal started before it.                   *)
ProbesBeforeSignal ==
    \A c \in Client : handler[c] = "probe" /\ shuttingDown => Grace - timer <= age[c]

LifecycleInv ==
    TypeOK /\ Phases /\ Handlers /\ ServedToTheEnd /\ ReadyzIsTimely /\ ProbesBeforeSignal

LEMMA LifecycleInit == Init => LifecycleInv
<1> SUFFICES ASSUME Init PROVE LifecycleInv
  OBVIOUS
<1> USE LifecycleAssumption DEF Init
<1>1. TypeOK
  <2>1. pending \in [Client -> SUBSET Check] /\ failed \in [Client -> BOOLEAN]
    OBVIOUS
  <2>2. timer \in 0..Unarmed /\ age \in [Client -> Nat]
    BY DEF Unarmed
  <2> QED
    BY <2>1, <2>2 DEF TypeOK, Stopping, Unarmed
<1>2. Phases /\ Handlers
  BY DEF Phases, Handlers, Unarmed
<1>3. ServedToTheEnd /\ ReadyzIsTimely /\ ProbesBeforeSignal
  BY DEF ServedToTheEnd, ReadyzIsTimely, ProbesBeforeSignal
<1> QED
  BY <1>1, <1>2, <1>3 DEF LifecycleInv

LEMMA ExitKeeps ==
    ASSUME LifecycleInv, NEW status \in {"zero", "one"},
           status = "one" \/ timer = 0 \/ \A c \in Client : link[c] = "closed",
           Exit(status)
    PROVE  LifecycleInv'
<1> USE DEF Exit
<1>1. TypeOK'
  BY DEF LifecycleInv, TypeOK
<1>2. Phases' /\ Handlers' /\ ReadyzIsTimely' /\ ProbesBeforeSignal'
  BY DEF LifecycleInv, Phases, Handlers, ReadyzIsTimely, ProbesBeforeSignal, Unarmed
<1>3. ServedToTheEnd'
  BY DEF LifecycleInv, ServedToTheEnd
<1> QED
  BY <1>1, <1>2, <1>3 DEF LifecycleInv

LEMMA LifecycleStep == LifecycleInv /\ [Next]_vars => LifecycleInv'
<1> SUFFICES ASSUME LifecycleInv, [Next]_vars PROVE LifecycleInv'
  OBVIOUS
<1> USE LifecycleAssumption DEF LifecycleInv, TypeOK, Phases, Handlers, ServedToTheEnd,
        ReadyzIsTimely, ProbesBeforeSignal, Unarmed, Up, Idle, Stopping, clientVars
<1>1. CASE Start \/ Listen
  BY <1>1, ExitKeeps DEF Start, Listen
<1>2. CASE Shutdown
  <2>1. CASE phase = "serving" /\ StopListening(Grace)
    BY <2>1 DEF StopListening
  <2>2. CASE phase = "binding" /\ CloseUnbound(Grace)
    BY <2>2 DEF CloseUnbound
  <2> QED
    BY <1>2, <2>1, <2>2 DEF Shutdown
<1>3. CASE ServerClosed
  BY <1>3 DEF ServerClosed
<1>4. CASE CloseRedis
  BY <1>4, ExitKeeps DEF CloseRedis
<1>5. CASE ForceExit
  BY <1>5, ExitKeeps DEF ForceExit
<1>6. CASE UncaughtException
  BY <1>6, ExitKeeps DEF UncaughtException
<1>7. CASE Tick
  BY <1>7 DEF Tick, Deadline, TimedOut, Allowed, Check
<1>8. ASSUME NEW c \in Client, Connect(c) \/ Upgrade(c) \/ Disconnect(c) \/ CloseIdle(c)
      PROVE  LifecycleInv'
  BY <1>8 DEF Connect, Upgrade, Disconnect, CloseIdle
<1>9. ASSUME NEW c \in Client, Request(c) \/ Finish(c) PROVE LifecycleInv'
  BY <1>9 DEF Request, Finish
<1>10. ASSUME NEW c \in Client, Readyz(c) PROVE LifecycleInv'
  <2>1. CASE shuttingDown
    BY <1>10, <2>1 DEF Readyz
  <2>2. CASE ~ shuttingDown
    <3>1. TypeOK'
      <4>1. pending' \in [Client -> SUBSET Check]
        BY <1>10, <2>2 DEF Readyz
      <4>2. handler' \in [Client -> {"none", "work", "probe", "cut"}]
        BY <1>10, <2>2 DEF Readyz
      <4>3. /\ age' \in [Client -> Nat] /\ failed' \in [Client -> BOOLEAN]
            /\ told' \in [Client -> {"none", "ok", "unavailable", "shutting-down"}]
        BY <1>10, <2>2 DEF Readyz
      <4>4. UNCHANGED <<phase, code, shuttingDown, timer, redis, link>>
        BY <1>10 DEF Readyz
      <4> QED
        BY <4>1, <4>2, <4>3, <4>4
    <3>2. Phases'
      BY <1>10, <2>2 DEF Readyz
    <3>3. \A d \in Client : d # c => /\ handler'[d] = handler[d] /\ pending'[d] = pending[d]
                                    /\ age'[d] = age[d]
      BY <1>10, <2>2 DEF Readyz
    <3>4. handler'[c] = "probe" /\ age'[c] = 0 /\ Up /\ UNCHANGED <<phase, shuttingDown, timer, code>>
      BY <1>10, <2>2 DEF Readyz
    <3>5. Handlers' /\ ServedToTheEnd' /\ ReadyzIsTimely' /\ ProbesBeforeSignal'
      BY <2>2, <3>3, <3>4
    <3> QED
      BY <3>1, <3>2, <3>5
  <2> QED
    BY <2>1, <2>2
<1>11. ASSUME NEW c \in Client, NEW check \in Check, EndCheck(c, check) PROVE LifecycleInv'
  BY <1>11 DEF EndCheck
<1>12. ASSUME NEW c \in Client, AnswerReadyz(c) PROVE LifecycleInv'
  BY <1>12 DEF AnswerReadyz
<1>13. CASE UNCHANGED vars
  BY <1>13 DEF vars
<1> QED
  BY <1>1, <1>2, <1>3, <1>4, <1>5, <1>6, <1>7, <1>8, <1>9, <1>10, <1>11, <1>12, <1>13
     DEF Next, Uses, Serves

(* Every variable keeps its type.                                          *)
THEOREM LifecycleTypeCorrect == Spec => []TypeOK
<1>1. LifecycleInv => TypeOK
  BY DEF LifecycleInv
<1> QED
  BY <1>1, LifecycleInit, LifecycleStep, PTL DEF Spec

(* index.ts's exit in server.close's callback cuts no connected client     *)
(* off: only the timer, an exception and a stop before the bind do.        *)
THEOREM ClientsAreServed == Spec => []ServedToTheEnd
<1>1. LifecycleInv => ServedToTheEnd
  BY DEF LifecycleInv
<1> QED
  BY <1>1, LifecycleInit, LifecycleStep, PTL DEF Spec

(* closeRedis never runs under the request of a connected client, but in a *)
(* process that was told to stop before it was bound.                      *)
THEOREM RedisOutlivesRequests == Spec => []RedisWhileServing
<1>1. LifecycleInv => RedisWhileServing
  BY DEF LifecycleInv, TypeOK, Phases, Handlers, RedisWhileServing, Stopping
<1> QED
  BY <1>1, LifecycleInit, LifecycleStep, PTL DEF Spec

(* readyz is over within the timeout of checkS3.                           *)
THEOREM ReadyzEndsInTime == Spec => []ReadyzIsTimely
<1>1. LifecycleInv => ReadyzIsTimely
  BY DEF LifecycleInv
<1> QED
  BY <1>1, LifecycleInit, LifecycleStep, PTL DEF Spec

(* A replica that is shutting down says it is ready no longer than one     *)
(* probe takes, for its flag is read before the checks only.               *)
THEOREM ReadyLag == Spec => ReadyLagBounded
<1>1. LifecycleInv /\ [Next]_vars
        => [\A c \in Client : told'[c] = "ok" /\ told[c] # "ok" /\ shuttingDown
              => Grace - timer <= S3Probe]_vars
  <2> SUFFICES ASSUME LifecycleInv, [Next]_vars, NEW c \in Client,
                      told'[c] = "ok", told[c] # "ok", shuttingDown
               PROVE  Grace - timer <= S3Probe
    OBVIOUS
  <2>1. handler[c] = "probe"
    BY DEF Next, vars, clientVars, Uses, Serves, Start, Listen, Shutdown, StopListening, CloseUnbound, ServerClosed,
           CloseRedis, ForceExit, UncaughtException, Exit, Tick, Connect, Upgrade, Request,
           Finish, Readyz, EndCheck, AnswerReadyz, Disconnect, CloseIdle, LifecycleInv, TypeOK
  <2> QED
    BY <2>1, LifecycleAssumption
       DEF LifecycleInv, ReadyzIsTimely, ProbesBeforeSignal, TypeOK, Unarmed
<1> QED
  BY <1>1, LifecycleInit, LifecycleStep, PTL DEF Spec, ReadyLagBounded

------------------------------------------------------------------------------
(* A shutdown, once started, is never called off; no step but the clock's  *)
(* moves its timer, and the clock's brings it nearer to the forced exit,   *)
(* which waits for nothing else once the timer is at 0.                    *)
ShutdownRunsDown ==
    [][/\ shuttingDown => shuttingDown'
       /\ shuttingDown /\ Tick => timer' = timer - 1
       /\ shuttingDown /\ ~ Tick => timer' = timer
       /\ timer = 0 /\ phase # "exited" => phase \in Stopping /\ ~ Tick]_vars

(* Nothing a client, Redis or S3 does puts the exit off: between the       *)
(* signal and the end of the process the clock ticks Grace times at most.  *)
THEOREM ShutdownsRunDown == Spec => ShutdownRunsDown
<1>1. LifecycleInv /\ [Next]_vars
        => [/\ shuttingDown => shuttingDown'
            /\ shuttingDown /\ Tick => timer' = timer - 1
            /\ shuttingDown /\ ~ Tick => timer' = timer
            /\ timer = 0 /\ phase # "exited"
                  => phase \in Stopping /\ ~ Tick]_vars
  <2> SUFFICES ASSUME LifecycleInv, Next
               PROVE  /\ shuttingDown => shuttingDown'
                      /\ shuttingDown /\ Tick => timer' = timer - 1
                      /\ shuttingDown /\ ~ Tick => timer' = timer
                      /\ timer = 0 /\ phase # "exited"
                            => phase \in Stopping /\ ~ Tick
    BY Zenon
  <2> USE DEF LifecycleInv, TypeOK, Phases
  <2>1. (shuttingDown => shuttingDown') /\ (shuttingDown /\ ~ Tick => timer' = timer)
    BY DEF Next, Uses, Serves, Start, Listen, Shutdown, StopListening, CloseUnbound, ServerClosed, CloseRedis,
           ForceExit, UncaughtException, Exit, Tick, Connect, Upgrade, Request, Finish,
           Readyz, EndCheck, AnswerReadyz, Disconnect, CloseIdle
  <2>2. shuttingDown /\ Tick => timer' = timer - 1
    BY DEF Tick
  <2>3. timer = 0 /\ phase # "exited" => phase \in Stopping /\ ~ Tick
    BY LifecycleAssumption DEF Tick, Unarmed
  <2> QED
    BY <2>1, <2>2, <2>3
<1> QED
  BY <1>1, LifecycleInit, LifecycleStep, PTL DEF Spec, ShutdownRunsDown
=============================================================================
