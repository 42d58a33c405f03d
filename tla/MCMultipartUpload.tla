------------------------- MODULE MCMultipartUpload -------------------------
(***************************************************************************)
(* Instances of MultipartUpload for TLC.                                   *)
(***************************************************************************)
EXTENDS MultipartUpload, TLC

CONSTANTS u1, u2, r1, r2, r3, k1, k2

Symmetry == Permutations(Request)

(* A key for each of two files, or one for both: two files of one name     *)
(* created in the same millisecond.                                        *)
OwnKeys == [u \in Upload |-> IF u = u1 THEN k1 ELSE k2]
OneKey == [u \in Upload |-> k1]
==============================================================================
