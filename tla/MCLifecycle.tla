---------------------------- MODULE MCLifecycle -----------------------------
(***************************************************************************)
(* Three workers that start and stop, two that call each other.            *)
(***************************************************************************)
EXTENDS Ending

CONSTANTS w1, w2, w3, x, y, z

(* x has the first worker, y and z the second.                             *)
HomeOf == [c \in {x, y, z} |-> IF c = x THEN w1 ELSE w2]
=============================================================================
