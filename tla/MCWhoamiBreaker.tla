-------------------------- MODULE MCWhoamiBreaker --------------------------
(***************************************************************************)
(* Instances of WhoamiBreaker for TLC.                                     *)
(***************************************************************************)
EXTENDS WhoamiBreaker, TLC

CONSTANTS c1, c2, c3, c4

Symmetry == Permutations(Caller)

(* A caller may be cut off anywhere but between INCR and EXPIRE.           *)
CrashesSpareExpire == Place \ {"idle", "expire"}
CrashesAnywhere == Place \ {"idle"}
NoCrash == {}
==============================================================================
