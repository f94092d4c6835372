---------------------------- MODULE MCCrossCore ----------------------------
(***************************************************************************)
(* Model values for the messages and the foreign thread of CrossCore.      *)
(***************************************************************************)
EXTENDS CrossCoreInv, TLC
CONSTANTS q1, q2, q3, p1, n1, f1

(* Messages of one kind differ by their names only, except for the one in  *)
(* NoPost.                                                                 *)
Interchangeable == Permutations(Req \ {NoPost.msg})
=============================================================================
