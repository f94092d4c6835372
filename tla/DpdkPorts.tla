----------------------------- MODULE DpdkPorts ------------------------------
(***************************************************************************)
(* Which worker of the DPDK backend owns which TCP port.  Every worker has *)
(* its own FreeBSD stack, so a segment handed to another worker than the   *)
(* one that holds its connection is answered with a reset.  Listen and     *)
(* OpenClient claim ports in port_owners; Destination steers a segment by  *)
(* its port, its receiving queue and the hash of its flow.                 *)
(***************************************************************************)
EXTENDS Naturals, Sequences, FiniteSets

CONSTANTS workers, kClientPortFirst, kClientPortLast,
          Port,        \* contains the client range
          MaxEnds,     \* sockets at a time (bound)
          Placement    \* the placements services may configure

VARIABLES
  fabric,       \* [prepared, stopped, rss_owner]
  placement,    \* listener_workers: a function of the configured ports
  owner,        \* port_owners: 0, worker + 1, or kListenerPortOwner
  ends,         \* sockets: [kind, w, port, rxq, hash]
  next          \* [worker -> next_client_port modulo the size of its stripe]

portVars == <<fabric, placement, owner, ends, next>>

Worker == 0 .. workers - 1
kListenerPortOwner == workers + 1

Init == /\ fabric = [prepared |-> FALSE, stopped |-> FALSE, rss_owner |-> FALSE]
        /\ placement = [p \in {} |-> <<>>]
        /\ owner = [p \in Port |-> 0]
        /\ ends = {} /\ next = [w \in Worker |-> 0]

(* ConfigureListenerWorkers: before startup, and never two answers. *)
Configure(p, ids) ==
    /\ ~fabric.prepared /\ p \notin DOMAIN placement
    /\ placement' = [q \in DOMAIN placement \cup {p} |-> IF q = p THEN ids ELSE placement[q]]
    /\ UNCHANGED <<fabric, owner, ends, next>>

(* PrepareRuntime; a failure at any of its steps releases what it holds.   *)
(* RSS steering needs one queue for each worker.                           *)
Prepare(rss) ==
    /\ ~fabric.prepared
    /\ \A p \in DOMAIN placement : \A k \in DOMAIN placement[p] : placement[p][k] < workers
    /\ fabric' = [fabric EXCEPT !.prepared = TRUE, !.rss_owner = rss]
    /\ UNCHANGED <<placement, owner, ends, next>>

Live == fabric.prepared /\ ~fabric.stopped

Destination(port, rxq, hash) ==
    IF port \notin DOMAIN placement /\ owner[port] \notin {0, kListenerPortOwner}
    THEN owner[port] - 1
    ELSE IF /\ fabric.rss_owner
            /\ port \in DOMAIN placement => Len(placement[port]) = workers
    THEN rxq
    ELSE IF port \in DOMAIN placement
    THEN placement[port][1 + (hash % Len(placement[port]))]
    ELSE hash % workers

End(kind, w, port, rxq, hash) ==
    [kind |-> kind, w |-> w, port |-> port, rxq |-> rxq, hash |-> hash]
Room == Cardinality(ends) < MaxEnds
Bound(w, p) == \E e \in ends : e.w = w /\ e.port = p

(* Listen: claim the port for listeners, then bind in the worker's stack.  *)
(* The claim survives a bind that fails, and the close.                    *)
Listen(w, p) ==
    /\ Live /\ owner[p] \in {0, kListenerPortOwner}
    /\ owner' = [owner EXCEPT ![p] = kListenerPortOwner]
    /\ \/ Room /\ ~Bound(w, p) /\ ends' = ends \cup {End("listener", w, p, 0, 0)}
       \/ UNCHANGED ends
    /\ UNCHANGED <<fabric, placement, next>>

(* The first segment of a connection reaches a worker that listens. *)
Accept(w, p, rxq, hash) ==
    /\ Live /\ Room /\ Destination(p, rxq, hash) = w
    /\ End("listener", w, p, 0, 0) \in ends
    /\ ends' = ends \cup {End("accepted", w, p, rxq, hash)}
    /\ UNCHANGED <<fabric, placement, owner, next>>

(* OpenClient: the worker's own stripe, in turn, skipping ports that are   *)
(* configured for listeners, claimed by somebody else, or still bound.     *)
Stripe(w) == (kClientPortLast - kClientPortFirst - w) \div workers + 1
Candidate(w, i) == kClientPortFirst + w + ((next[w] + i) % Stripe(w)) * workers
Claimable(w, p) == p \notin DOMAIN placement /\ owner[p] \in {0, w + 1}
Usable(w, i) == Claimable(w, Candidate(w, i)) /\ ~Bound(w, Candidate(w, i))
OpenClient(w) ==
    /\ Live
    /\ \E i \in 0 .. Stripe(w) - 1 :
         /\ Usable(w, i) /\ \A j \in 0 .. i - 1 : ~Usable(w, j)
         /\ owner' = [owner EXCEPT ![Candidate(w, i)] = w + 1]
         /\ next' = [next EXCEPT ![w] = (@ + i + 1) % Stripe(w)]
         /\ \/ Room /\ ends' = ends \cup {End("client", w, Candidate(w, i), 0, 0)}
            \/ UNCHANGED ends            \* another error of bind, or no number left
    /\ UNCHANGED <<fabric, placement>>

(* Mutant: the port is given up with the socket.                         *)
CloseAndRelease(e) ==
    /\ e \in ends /\ e.kind # "timewait"
    /\ ends' = (ends \ {e}) \cup (IF e.kind = "client" THEN {[e EXCEPT !.kind = "timewait"]} ELSE {})
    /\ owner' = [owner EXCEPT ![e.port] = IF e.kind = "listener" THEN 0 ELSE @]
    /\ UNCHANGED <<fabric, placement, next>>

(* Close: a client's port stays bound through TIME_WAIT, and owned after. *)
Close(e) ==
    /\ e \in ends /\ e.kind # "timewait"
    /\ ends' = (ends \ {e}) \cup (IF e.kind = "client" THEN {[e EXCEPT !.kind = "timewait"]} ELSE {})
    /\ UNCHANGED <<fabric, placement, owner, next>>
Expire(e) == /\ e \in ends /\ e.kind = "timewait" /\ ends' = ends \ {e}
             /\ UNCHANGED <<fabric, placement, owner, next>>

(* StopRuntime, once every worker has closed its sockets. *)
StopRuntime == /\ Live /\ ends = {} /\ fabric' = [fabric EXCEPT !.stopped = TRUE]
               /\ UNCHANGED <<placement, owner, ends, next>>

Next == \/ \E p \in Port, ids \in Placement : Configure(p, ids)
        \/ \E rss \in BOOLEAN : Prepare(rss)
        \/ \E w \in Worker, p \in Port : Listen(w, p)
        \/ \E w, rxq, hash \in Worker, p \in Port : Accept(w, p, rxq, hash)
        \/ \E w \in Worker : OpenClient(w)
        \/ \E e \in ends : Close(e) \/ Expire(e)
        \/ StopRuntime

(* Every segment of a live connection reaches the worker that holds it:    *)
(* for a client, in TIME_WAIT too, whatever queue it arrives at and        *)
(* however its flow hashes; for an accepted connection, for the queue and  *)
(* the hash its first segment had, whatever is claimed or closed since.    *)
SegmentsReachOwner == \A e \in ends :
    /\ e.kind = "accepted" => Destination(e.port, e.rxq, e.hash) = e.w
    /\ e.kind \in {"client", "timewait"} =>
         \A rxq, hash \in Worker : Destination(e.port, rxq, hash) = e.w
=============================================================================
