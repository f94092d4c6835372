------------------------------ MODULE Mailbox ------------------------------
(***************************************************************************)
(* What cross-core messaging promises its users: a message that was posted *)
(* to a worker is delivered to that worker once, in some later batch, and  *)
(* nothing else is.  There is no promise about order: a message that went  *)
(* through the overflow queue may be overtaken by a later one of its lane. *)
(***************************************************************************)
CONSTANTS Worker, Msg

VARIABLES idle, transit, delivered

vars == <<idle, transit, delivered>>

Init ==
    /\ idle = Msg
    /\ transit = [r \in Worker |-> {}]
    /\ delivered = {}

Post(m, r) ==
    /\ m \in idle
    /\ idle' = idle \ {m}
    /\ transit' = [transit EXCEPT ![r] = @ \cup {m}]
    /\ UNCHANGED delivered

Deliver(r, batch) ==
    /\ batch # {}
    /\ transit' = [transit EXCEPT ![r] = @ \ batch]
    /\ delivered' = delivered \cup batch
    /\ UNCHANGED idle

Next ==
    \E r \in Worker :
        \/ \E m \in Msg : Post(m, r)
        \/ \E batch \in SUBSET transit[r] : Deliver(r, batch)

Spec == Init /\ [][Next]_vars

(* A message under way is in a batch sooner or later.                      *)
DeliverOne(m) ==
    \E r \in Worker : \E batch \in SUBSET transit[r] :
        m \in batch /\ Deliver(r, batch)

FairSpec == Spec /\ \A m \in Msg : WF_vars(DeliverOne(m))
=============================================================================
