--------------------------- MODULE CircuitBreaker ---------------------------
(***************************************************************************)
(* What a circuit breaker promises, without keys, counters or clocks: who  *)
(* may call the partner in which state of the circuit, and what moves the  *)
(* circuit from one state to the next.  Its one concession to several      *)
(* replicas is the straggler: a caller that was shown the half-open        *)
(* circuit, and whose turn comes when that circuit has been closed since.  *)
(***************************************************************************)
CONSTANT Caller

VARIABLES
    circuit,        \* closed, open (cooling down) or half_open (cooled down)
    calling,        \* callers let through that have not reported back
    probing,        \* those let through to try a half-open circuit
    invited,        \* callers that may compete for the try
    stragglers      \* invited callers whose circuit has been closed since

vars == <<circuit, calling, probing, invited, stragglers>>

Init ==
    /\ circuit = "closed"
    /\ calling = {} /\ probing = {} /\ invited = {} /\ stragglers = {}

Outside(c) == c \notin calling \cup invited \cup stragglers

(* A closed circuit lets everybody through.                                *)
Admit(c) ==
    /\ circuit = "closed" /\ Outside(c)
    /\ calling' = calling \cup {c}
    /\ UNCHANGED <<circuit, probing, invited, stragglers>>

(* A half-open circuit invites; an open one does neither.                  *)
Invite(c) ==
    /\ circuit = "half_open" /\ Outside(c)
    /\ invited' = invited \cup {c}
    /\ UNCHANGED <<circuit, calling, probing, stragglers>>

(* One caller at a time tries the partner: an invited one only while the   *)
(* circuit is half-open still.                                             *)
Try(c) ==
    /\ probing = {}
    /\ c \in stragglers \/ (c \in invited /\ circuit = "half_open")
    /\ calling' = calling \cup {c} /\ probing' = {c}
    /\ invited' = invited \ {c} /\ stragglers' = stragglers \ {c}
    /\ UNCHANGED circuit

(* A caller without a turn, or one whose report changes nothing, is gone.  *)
Depart(c) ==
    /\ ~Outside(c)
    /\ calling' = calling \ {c} /\ probing' = probing \ {c}
    /\ invited' = invited \ {c} /\ stragglers' = stragglers \ {c}
    /\ UNCHANGED circuit

(* Only the report of a caller that was let through opens the circuit.     *)
Trip(c) ==
    /\ c \in calling
    /\ circuit' = "open"
    /\ calling' = calling \ {c} /\ probing' = probing \ {c}
    /\ UNCHANGED <<invited, stragglers>>

Close ==
    /\ circuit' = "closed"
    /\ invited' = {} /\ stragglers' = stragglers \cup invited

(* A success closes the circuit, in whichever state it is by then, and     *)
(* ends the try under way.                                                 *)
Succeed(c) ==
    /\ c \in calling
    /\ Close
    /\ calling' = calling \ {c} /\ probing' = {}

(* Time opens a circuit halfway, and then forgets it when nobody ends the  *)
(* half-open spell: an open circuit never closes by time alone.            *)
CoolDown ==
    /\ circuit = "open" /\ circuit' = "half_open"
    /\ UNCHANGED <<calling, probing, invited, stragglers>>

Forget ==
    /\ circuit = "half_open"
    /\ Close
    /\ UNCHANGED <<calling, probing>>

Next ==
    \/ \E c \in Caller :
          Admit(c) \/ Invite(c) \/ Try(c) \/ Depart(c) \/ Trip(c) \/ Succeed(c)
    \/ CoolDown \/ Forget

Spec == Init /\ [][Next]_vars
==============================================================================
