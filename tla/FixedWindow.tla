---------------------------- MODULE FixedWindow ----------------------------
(***************************************************************************)
(* What a fixed-window rate limiter promises each of its sources: the      *)
(* first hit opens a window, at most Limit of the window's hits pass, and  *)
(* the window ends on time whatever else is sent meanwhile.                *)
(***************************************************************************)
EXTENDS Integers

CONSTANTS Source, Limit, Span

VARIABLES
    spent,          \* what each source has spent of its limit
    left            \* the rest of its window, 0 when none is open

vars == <<spent, left>>

Init ==
    /\ spent = [s \in Source |-> 0]
    /\ left = [s \in Source |-> 0]

(* A hit opens a window or changes nothing of the one that is open; it     *)
(* passes while something is left to spend, or is turned away.             *)
TakeHit(s) ==
    /\ left' = [left EXCEPT ![s] = IF @ = 0 THEN Span ELSE @]
    /\ \/ UNCHANGED spent
       \/ spent[s] < Limit /\ spent' = [spent EXCEPT ![s] = @ + 1]

(* Time passes for all windows; one that ends takes what was spent along.  *)
Elapse ==
    /\ \E s \in Source : left[s] > 0
    /\ left' = [s \in Source |-> IF left[s] > 0 THEN left[s] - 1 ELSE 0]
    /\ spent' = [s \in Source |-> IF left[s] > 1 THEN spent[s] ELSE 0]

Next == Elapse \/ \E s \in Source : TakeHit(s)

Spec == Init /\ [][Next]_vars
=============================================================================
