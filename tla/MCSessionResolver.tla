------------------------- MODULE MCSessionResolver -------------------------
(***************************************************************************)
(* Instances of SessionResolver for TLC.                                   *)
(***************************************************************************)
EXTENDS SessionResolver, TLC

CONSTANTS c1, c2, c3, k1, k2

Symmetry == Permutations(Caller) \cup Permutations(Cookie)

CrashesAnywhere == Place \ {"idle"}
NoCrash == {}
==============================================================================
