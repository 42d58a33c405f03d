----------------------------- MODULE Lifecycle -----------------------------
(***************************************************************************)
(* One process from its start to its exit: connections and the handlers    *)
(* that run on them, the readiness probe with its two checks and their     *)
(* timeouts, the shutdown a signal starts, its ten-second timer, and the   *)
(* exceptions that end the process at once.                                *)
(*                                                                         *)
(* Every timer of the code is a deadline: time does not pass while one is  *)
(* due.  A handler that is not a probe takes any time.                     *)
(***************************************************************************)
EXTENDS Integers

CONSTANTS
    Client,
    RedisProbe, S3Probe,    \* the timeouts of checkRedis and checkS3
    KeepAlive,              \* how long Node keeps an idle connection
    Grace                   \* the forced exit after a signal

ASSUME LifecycleAssumption ==
    /\ {RedisProbe, S3Probe, KeepAlive, Grace} \subseteq Nat \ {0}
    /\ RedisProbe <= S3Probe

VARIABLES
    phase, code,            \* of the process, and what it exited with
    shuttingDown,           \* index.ts's shuttingDownStarted and server.ts's flag
    timer,                  \* what is left of the grace, once a signal came
    redis,                  \* the shared client
    link, handler,          \* per client: its connection and what runs for it
    age,                    \* time since the connection was last used
    pending, failed,        \* a probe's checks that have not ended; whether one failed
    told                    \* what the last probe was told

clientVars == <<link, handler, age, pending, failed, told>>
vars == <<phase, code, shuttingDown, timer, redis, clientVars>>

Check == {"redis", "s3"}
Unarmed == Grace + 1
Stopping == {"draining", "quitting", "failing"}
Allowed(check) == IF check = "redis" THEN RedisProbe ELSE S3Probe

(* The types, and the flag, the timer and the phase telling the same.      *)
TypeOK ==
    /\ phase \in {"starting", "binding", "serving", "exited"} \cup Stopping
    /\ phase # "exited" => (shuttingDown <=> phase \in Stopping)
    /\ shuttingDown <=> timer # Unarmed
    /\ code \in {"none", "zero", "one"}
    /\ shuttingDown \in BOOLEAN
    /\ timer \in 0..Unarmed
    /\ redis \in {"open", "closing", "closed"}
    /\ link \in [Client -> {"closed", "open", "socket"}]
    /\ handler \in [Client -> {"none", "work", "probe", "cut"}]
    /\ age \in [Client -> Nat]
    /\ pending \in [Client -> SUBSET Check]
    /\ failed \in [Client -> BOOLEAN]
    /\ told \in [Client -> {"none", "ok", "unavailable", "shutting-down"}]

Init ==
    /\ phase = "starting" /\ code = "none"
    /\ shuttingDown = FALSE /\ timer = Unarmed
    /\ redis = "open"
    /\ link = [c \in Client |-> "closed"]
    /\ handler = [c \in Client |-> "none"]
    /\ age = [c \in Client |-> 0]
    /\ pending = [c \in Client |-> {}]
    /\ failed = [c \in Client |-> FALSE]
    /\ told = [c \in Client |-> "none"]

------------------------------------------------------------------------------
Alive == phase # "exited"
Up == phase \in {"serving"} \cup Stopping
Idle(c) == link[c] = "open" /\ handler[c] = "none"

(* process.exit: what still runs for a connected client is cut off.        *)
Exit(status) ==
    /\ phase' = "exited" /\ code' = status
    /\ handler' = [c \in Client |->
          IF handler[c] = "none" \/ link[c] = "closed" THEN "none" ELSE "cut"]
    /\ redis' = "closed"
    /\ UNCHANGED <<shuttingDown, timer, link, age, pending, failed, told>>

(* start: createServer, then listen; a boot that throws exits with 1.      *)
Start ==
    /\ phase = "starting"
    /\ \/ /\ phase' = "binding"
          /\ UNCHANGED <<code, shuttingDown, timer, redis, clientVars>>
       \/ Exit("one")

(* The port is bound: listen looks the host up first.                      *)
Listen ==
    /\ phase = "binding" /\ phase' = "serving"
    /\ UNCHANGED <<code, shuttingDown, timer, redis, clientVars>>

(* A shutdown that came before the port was bound does not keep it from    *)
(* being bound.                                                            *)
Connect(c) ==
    /\ phase \in {"serving", "failing"} /\ link[c] = "closed" /\ handler[c] = "none"
    /\ link' = [link EXCEPT ![c] = "open"]
    /\ age' = [age EXCEPT ![c] = 0]
    /\ UNCHANGED <<phase, code, shuttingDown, timer, redis, handler, pending, failed, told>>

(* Companion's WebSocket server takes the connection over: nothing closes  *)
(* it but its client or the exit.                                          *)
Upgrade(c) ==
    /\ Up /\ Idle(c)
    /\ link' = [link EXCEPT ![c] = "socket"]
    /\ age' = [age EXCEPT ![c] = 0]
    /\ UNCHANGED <<phase, code, shuttingDown, timer, redis, handler, pending, failed, told>>

(* A request on a connection, kept alive or new; draining does not refuse  *)
(* one that comes on a connection that is open.                            *)
Request(c) ==
    /\ Up /\ Idle(c)
    /\ handler' = [handler EXCEPT ![c] = "work"]
    /\ age' = [age EXCEPT ![c] = 0]
    /\ UNCHANGED <<phase, code, shuttingDown, timer, redis, link, pending, failed, told>>

Finish(c) ==
    /\ Up /\ handler[c] = "work"
    /\ handler' = [handler EXCEPT ![c] = "none"]
    /\ UNCHANGED <<phase, code, shuttingDown, timer, redis, link, age, pending, failed, told>>

(* readyz: the flag is read first, and refuses; or else both checks start. *)
ReadyzUnguarded(c) ==
    /\ Up /\ Idle(c)
    /\ handler' = [handler EXCEPT ![c] = "probe"]
    /\ pending' = [pending EXCEPT ![c] = Check]
    /\ failed' = [failed EXCEPT ![c] = FALSE]
    /\ told' = [told EXCEPT ![c] = "none"]
    /\ age' = [age EXCEPT ![c] = 0]
    /\ UNCHANGED <<phase, code, shuttingDown, timer, redis, link>>

Readyz(c) ==
    /\ Up /\ Idle(c)
    /\ age' = [age EXCEPT ![c] = 0]
    /\ \/ /\ shuttingDown
          /\ told' = [told EXCEPT ![c] = "shutting-down"]
          /\ UNCHANGED <<handler, pending, failed>>
       \/ /\ ~ shuttingDown
          /\ handler' = [handler EXCEPT ![c] = "probe"]
          /\ pending' = [pending EXCEPT ![c] = Check]
          /\ failed' = [failed EXCEPT ![c] = FALSE]
          /\ told' = [told EXCEPT ![c] = "none"]
    /\ UNCHANGED <<phase, code, shuttingDown, timer, redis, link>>

(* checkRedis, checkS3: a reply or a failure in time, or the timeout.      *)
TimedOutForS3Only(c, check) == check = "s3" /\ age[c] >= Allowed(check)

TimedOut(c, check) == age[c] >= Allowed(check)

EndCheck(c, check) ==
    /\ Up /\ check \in pending[c]
    /\ pending' = [pending EXCEPT ![c] = @ \ {check}]
    /\ \/ ~ TimedOut(c, check) /\ UNCHANGED failed
       \/ failed' = [failed EXCEPT ![c] = TRUE]
    /\ UNCHANGED <<phase, code, shuttingDown, timer, redis, link, handler, age, told>>

(* Both checks have ended.                                                 *)
AnswerReadyz(c) ==
    /\ Up /\ handler[c] = "probe" /\ pending[c] = {}
    /\ handler' = [handler EXCEPT ![c] = "none"]
    /\ told' = [told EXCEPT ![c] = IF failed[c] THEN "unavailable" ELSE "ok"]
    /\ age' = [age EXCEPT ![c] = 0]
    /\ failed' = [failed EXCEPT ![c] = FALSE]
    /\ UNCHANGED <<phase, code, shuttingDown, timer, redis, link, pending>>

(* A client hangs up; what runs for it runs on.                            *)
Disconnect(c) ==
    /\ Up /\ link[c] # "closed"
    /\ link' = [link EXCEPT ![c] = "closed"]
    /\ UNCHANGED <<phase, code, shuttingDown, timer, redis, handler, age, pending, failed, told>>

(* Node closes a connection that was idle for keepAliveTimeout.            *)
CloseIdle(c) ==
    /\ Up /\ Idle(c) /\ age[c] >= KeepAlive
    /\ link' = [link EXCEPT ![c] = "closed"]
    /\ UNCHANGED <<phase, code, shuttingDown, timer, redis, handler, age, pending, failed, told>>

(* shutdown, once: the flag, the timer, and server.close, which closes the *)
(* idle connections and accepts no other.                                  *)
StopListening(remaining) ==
    /\ phase' = "draining" /\ shuttingDown' = TRUE /\ timer' = remaining
    /\ link' = [c \in Client |-> IF Idle(c) THEN "closed" ELSE link[c]]
    /\ UNCHANGED <<code, redis, handler, age, pending, failed, told>>

(* server.close on a server that is not bound yet is an error, and calls   *)
(* back at once.                                                           *)
CloseUnbound(remaining) ==
    /\ phase' = "failing" /\ shuttingDown' = TRUE /\ timer' = remaining
    /\ redis' = "closing"
    /\ UNCHANGED <<code, clientVars>>

ShutdownWithoutTimer ==
    phase = "serving" /\ ~ shuttingDown /\ StopListening(Unarmed)

ShutdownWithoutFlag ==
    /\ phase = "serving" /\ ~ shuttingDown
    /\ phase' = "draining" /\ timer' = Grace
    /\ link' = [c \in Client |-> IF Idle(c) THEN "closed" ELSE link[c]]
    /\ UNCHANGED <<code, shuttingDown, redis, handler, age, pending, failed, told>>

Shutdown ==
    /\ ~ shuttingDown
    /\ \/ phase = "serving" /\ StopListening(Grace)
       \/ phase = "binding" /\ CloseUnbound(Grace)

(* The callback of server.close: every connection is closed, upgraded ones *)
(* too; Redis is asked to quit.                                            *)
ServerClosedAtOnce ==
    /\ phase = "draining"
    /\ phase' = "quitting" /\ redis' = "closing"
    /\ UNCHANGED <<code, shuttingDown, timer, clientVars>>

ServerClosed ==
    /\ phase = "draining" /\ \A c \in Client : link[c] = "closed"
    /\ phase' = "quitting" /\ redis' = "closing"
    /\ UNCHANGED <<code, shuttingDown, timer, clientVars>>

(* closeRedis settles, either way, and the process exits, with 1 when      *)
(* server.close had an error.                                              *)
CloseRedis ==
    \/ phase = "quitting" /\ Exit("zero")
    \/ phase = "failing" /\ Exit("one")

(* The timer of shutdown; it is unref'd, but the connections and Redis     *)
(* keep the process alive for it.                                          *)
ForceExit == phase \in Stopping /\ timer = 0 /\ Exit("zero")

UncaughtException == Alive /\ Exit("one")

(* Nothing a timer waits for is due.                                       *)
Deadline(c) ==
    \/ handler[c] = "probe" /\ pending[c] = {}
    \/ \E check \in pending[c] : TimedOut(c, check)
    \/ Idle(c) /\ age[c] >= KeepAlive

Tick ==
    /\ Up /\ timer # 0 /\ \A c \in Client : ~ Deadline(c)
    /\ timer' = IF timer = Unarmed THEN Unarmed ELSE timer - 1
    /\ age' = [c \in Client |->
          IF Idle(c) \/ handler[c] = "probe" THEN age[c] + 1 ELSE 0]
    /\ UNCHANGED <<phase, code, shuttingDown, redis, link, handler, pending, failed, told>>

------------------------------------------------------------------------------
Uses(c) == Connect(c) \/ Upgrade(c) \/ Request(c) \/ Finish(c) \/ Readyz(c) \/ Disconnect(c)
Serves(c) == AnswerReadyz(c) \/ CloseIdle(c) \/ \E check \in Check : EndCheck(c, check)

Next ==
    \/ Start \/ Listen \/ Shutdown \/ ServerClosed \/ CloseRedis \/ ForceExit \/ UncaughtException
    \/ Tick
    \/ \E c \in Client : Uses(c) \/ Serves(c)

Spec == Init /\ [][Next]_vars

(* Timers fire and time passes, whatever clients, Redis and S3 do: no      *)
(* fairness of Finish, Disconnect or CloseRedis.                           *)
Fairness ==
    /\ WF_vars(ForceExit) /\ SF_vars(Tick)
    /\ \A c \in Client :
          /\ WF_vars(AnswerReadyz(c)) /\ WF_vars(CloseIdle(c))
          /\ \A check \in Check : WF_vars(TimedOut(c, check) /\ EndCheck(c, check))

FairSpec == Spec /\ Fairness

------------------------------------------------------------------------------
(* The exit cuts a connected client's request off only when the grace is   *)
(* used up or the process fails, by an exception or because it was told to *)
(* stop before it was bound: server.close's callback, and the exit in it,  *)
(* wait for them all.                                                      *)
ServedToTheEnd ==
    (\E c \in Client : handler[c] = "cut") => timer = 0 \/ code = "one"

(* Redis is open for every request of a connected client, unless the       *)
(* process was told to stop before it was bound.                           *)
RedisWhileServing ==
    \A c \in Client :
        link[c] # "closed" /\ handler[c] \in {"work", "probe"} /\ phase # "failing"
            => redis = "open"

(* readyz answers within the longer of its timeouts, even when Redis or S3 *)
(* never does.                                                             *)
ReadyzIsTimely == \A c \in Client : handler[c] = "probe" => age[c] <= S3Probe

(* A replica that received its signal says it is ready for the length of a *)
(* probe at most.                                                          *)
ReadyLagBounded ==
    [][\A c \in Client : told'[c] = "ok" /\ told[c] # "ok" /\ shuttingDown
          => Grace - timer <= S3Probe]_vars

(* A signal ends the process, whatever its clients and Redis do.           *)
ShutdownEnds == shuttingDown ~> phase = "exited"
==============================================================================
