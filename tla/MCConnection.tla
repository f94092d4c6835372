---------------------------- MODULE MCConnection ----------------------------
(***************************************************************************)
(* One connection and, beside it, the ring queue that holds its received   *)
(* buffers: `part' names the one a behaviour exercises, the other keeps    *)
(* its initial state.                                                      *)
(***************************************************************************)
EXTENDS Connection, RingQueue

VARIABLE part

MCHeap == {kMinHeapCapacity, 2 * kMinHeapCapacity}

MCInit == part \in {"queue", "connection"} /\ RingInit /\ Init
MCNext == \/ part = "queue" /\ RingNext /\ UNCHANGED <<part, vars>>
          \/ part = "connection" /\ Next /\ UNCHANGED <<part, ring>>
MCSpec == MCInit /\ [][MCNext]_<<part, ring, vars>> /\ Fairness
=============================================================================
