-------------------------------- MODULE Fifo --------------------------------
(***************************************************************************)
(* What a queue promises: values leave in the order they were pushed, and  *)
(* a move hands the whole content over.                                    *)
(***************************************************************************)
EXTENDS Sequences

CONSTANTS Queue, Value

VARIABLE queue

Init == queue = [q \in Queue |-> << >>]

Push(q, v) == queue' = [queue EXCEPT ![q] = Append(queue[q], v)]
Pop(q) == queue[q] # << >> /\ queue' = [queue EXCEPT ![q] = Tail(queue[q])]
Clear(q) == queue' = [queue EXCEPT ![q] = << >>]
Move(p, q) ==
    queue' = [r \in Queue |-> IF r = p THEN queue[q] ELSE
                              IF r = q THEN << >> ELSE queue[r]]

Next == \/ \E q \in Queue : Pop(q) \/ Clear(q) \/ \E v \in Value : Push(q, v)
        \/ \E p \in Queue : \E q \in Queue \ {p} : Move(p, q)
Spec == Init /\ [][Next]_queue
=============================================================================
