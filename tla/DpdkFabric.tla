----------------------------- MODULE DpdkFabric -----------------------------
(***************************************************************************)
(* The packet fabric the workers of the DPDK backend share: the start of   *)
(* the FreeBSD stack by worker 0, the software rings between the workers,  *)
(* the NIC queues of the first `queues' of them, and the sleep of a worker *)
(* in Wait with the wake-up of whoever publishes a packet for it.  One     *)
(* step is one access to state another worker or the NIC can see.          *)
(***************************************************************************)
EXTENDS Naturals, FiniteSets

CONSTANTS workers, queues, RingSize, MaxPackets

VARIABLES
  pc,        \* [Worker -> place in Init, in a round, in Wait]
  startup,   \* [failure, bsd_ready, ready] of Fabric
  packets,   \* [nic, rx, tx : Worker -> Nat]: what each queue holds
  out,       \* [Worker -> SUBSET ({"rx","tx"} \X Worker)]: frames to enqueue
  pub,       \* [Worker -> SUBSET Worker]: published, parked not yet exchanged
  staged,    \* [Worker -> SUBSET Worker]: MSG_RING entries not yet submitted
  lane,      \* [Worker -> [parked, cqe, intr, notif, readable]]
  inWait,    \* [Worker -> BOOLEAN]: this Poll is the recheck of Wait
  work,      \* [Worker -> BOOLEAN]: this Poll found something
  left       \* packets that may still arrive or be sent (bound)

fabricVars == <<pc, startup, packets, out, pub, staged, lane, inWait, work, left>>

Worker == 0 .. workers - 1
NoWork == [w \in Worker |-> 0]

Init == /\ pc = [w \in Worker |-> "init"]
        /\ startup = [failure |-> FALSE, bsd_ready |-> FALSE, ready |-> 0]
        /\ packets = [nic |-> NoWork, rx |-> NoWork, tx |-> NoWork]
        /\ out = [w \in Worker |-> {}] /\ pub = out /\ staged = out
        /\ lane = [w \in Worker |-> [parked |-> FALSE, cqe |-> FALSE, intr |-> FALSE,
                                     notif |-> "none", readable |-> FALSE]]
        /\ inWait = [w \in Worker |-> FALSE] /\ work = inWait
        /\ left = MaxPackets

Goto(w, p) == pc' = [pc EXCEPT ![w] = p]

-----------------------------------------------------------------------------
(* Init: worker 0 initialises FreeBSD, the others wait for it or for a     *)
(* failure on the condition variable `attached'.                           *)

(* notify_all: every waiter looks at its predicate again. *)
NotifyAll(p) == [w \in Worker |-> IF p[w] = "attached" THEN "look" ELSE p[w]]

(* AbortStartup by a worker that failed outside Init, or in its EAL        *)
(* registration: the reason, then the notification.                        *)
AbortStartup(w) == /\ startup' = [startup EXCEPT !.failure = TRUE]
                   /\ pc' = NotifyAll([pc EXCEPT ![w] = "failed"])

(* The tail of Init once bsd is up or a failure is known: attach, count.   *)
Attach(w) ==
    IF startup.failure THEN AbortStartup(w)
    ELSE \/ AbortStartup(w)
         \/ /\ startup' = [startup EXCEPT !.ready = @ + 1]
            /\ Goto(w, "poll")

InitWorker(w) ==
    /\ pc[w] \in {"init", "look"}
    /\ \/ pc[w] = "init" /\ AbortStartup(w)
       \/ /\ w = 0
          /\ IF startup.failure THEN AbortStartup(w)
             ELSE \/ AbortStartup(w)          \* bycorf_bsd_initialize, or the attach
                  \/ /\ startup' = [startup EXCEPT !.bsd_ready = TRUE, !.ready = @ + 1]
                     /\ pc' = NotifyAll([pc EXCEPT ![w] = "poll"])
       \/ /\ w # 0
          /\ IF startup.bsd_ready \/ startup.failure THEN Attach(w)
             ELSE Goto(w, "attached") /\ UNCHANGED startup
    /\ UNCHANGED <<packets, out, pub, staged, lane, inWait, work, left>>

-----------------------------------------------------------------------------
(* Packets *)

Ready == startup.ready = workers

(* The NIC puts a frame in a queue; an enabled interrupt makes the         *)
(* notification descriptor readable.                                       *)
Arrive(w) ==
    /\ Ready /\ w < queues /\ left > 0 /\ packets.nic[w] < RingSize
    /\ pc[w] # "down"
    /\ packets' = [packets EXCEPT !.nic[w] = @ + 1]
    /\ lane' = [lane EXCEPT ![w].readable = @ \/ lane[w].intr]
    /\ left' = left - 1
    /\ UNCHANGED <<pc, startup, out, pub, staged, inWait, work>>

(* Enqueue of one due frame: a full ring drops it. *)
Enqueue(w) ==
    /\ pub[w] = {}
    /\ \E f \in out[w] :
         LET ring == f[1]  target == f[2] IN
         /\ out' = [out EXCEPT ![w] = @ \ {f}]
         /\ IF packets[ring][target] < RingSize
            THEN /\ packets' = [packets EXCEPT ![ring][target] = @ + 1]
                 /\ pub' = [pub EXCEPT ![w] = {target} \ {w}]
            ELSE UNCHANGED <<packets, pub>>
    /\ UNCHANGED <<pc, startup, staged, lane, inWait, work, left>>

(* Wake: exchange parked, then a MSG_RING entry on the publisher's ring. *)
Wake(w) ==
    /\ \E t \in pub[w] :
         /\ staged' = [staged EXCEPT ![w] = IF lane[t].parked THEN @ \cup {t} ELSE @]
         /\ lane' = [lane EXCEPT ![t].parked = FALSE]
    /\ pub' = [pub EXCEPT ![w] = {}]
    /\ UNCHANGED <<pc, startup, packets, out, inWait, work, left>>

Quiet(w) == out[w] = {} /\ pub[w] = {}

(* What an input, or a callback of the stack, makes FreeBSD transmit: a    *)
(* local frame to the worker that owns the port, any other to the queue.   *)
TransmitTo(w) == {{}} \cup (IF left = 0 THEN {}
                            ELSE {{<<"rx", t>>} : t \in Worker} \cup {{<<"tx", w % queues>>}})

(* Route: input here, forward, drop, or a copy for every other worker. *)
RouteTo(w) == {{}, {<<"rx", t>> : t \in Worker \ {w}}} \cup {{<<"rx", t>>} : t \in Worker \ {w}}

(* Only Wait looks at the result of a Poll. *)
Found(w) == work' = [work EXCEPT ![w] = inWait[w]]

(* Poll: the kernel ring's completions, the wake-up and the notification. *)
PollKernel(w) ==
    /\ pc[w] = "poll"
    /\ LET fired == lane[w].notif = "live" /\ lane[w].readable IN
       /\ lane' = [lane EXCEPT ![w].cqe = FALSE,
                               ![w].notif = IF fired THEN "none" ELSE @,
                               ![w].readable = @ /\ ~fired]
       /\ work' = [work EXCEPT ![w] = inWait[w] /\ (lane[w].cqe \/ fired)]
    /\ Goto(w, IF Ready THEN "nic" ELSE "polled")
    /\ UNCHANGED <<startup, packets, out, pub, staged, inWait, left>>

(* Packets: rte_eth_rx_burst and Route, *)
PollNic(w) ==
    /\ pc[w] = "nic" /\ Goto(w, "rx")
    /\ IF packets.nic[w] = 0 THEN UNCHANGED <<packets, out, work>>
       ELSE /\ packets' = [packets EXCEPT !.nic[w] = @ - 1]
            /\ \E o \in RouteTo(w) : out' = [out EXCEPT ![w] = o]
            /\ Found(w)
    /\ UNCHANGED <<startup, pub, staged, lane, inWait, left>>

(* the software ring and Input, *)
PollRx(w) ==
    /\ pc[w] = "rx" /\ Quiet(w) /\ Goto(w, "bsd")
    /\ IF packets.rx[w] = 0 THEN UNCHANGED <<packets, work>>
       ELSE packets' = [packets EXCEPT !.rx[w] = @ - 1] /\ Found(w)
    /\ UNCHANGED <<startup, out, pub, staged, lane, inWait, left>>

(* bycorf_bsd_poll, *)
Transmit(w, o) == /\ out' = [out EXCEPT ![w] = o]
                  /\ left' = IF o = {} THEN left ELSE left - 1
PollBsd(w) ==
    /\ pc[w] = "bsd" /\ Goto(w, "flush")
    /\ \E o \in TransmitTo(w) : Transmit(w, o)
    /\ UNCHANGED <<startup, packets, pub, staged, lane, inWait, work>>

(* FlushTx: a burst is sent or dropped. *)
FlushTx(w) == packets' = [packets EXCEPT !.tx[w] = 0]
PollFlush(w) ==
    /\ pc[w] = "flush" /\ Quiet(w) /\ Goto(w, "sockets")
    /\ FlushTx(w)
    /\ IF packets.tx[w] = 0 THEN UNCHANGED work ELSE Found(w)
    /\ UNCHANGED <<startup, out, pub, staged, lane, inWait, left>>

(* SocketCompletions, which sends and acknowledges only as it completes a  *)
(* request; outside Wait it stands for the coroutines of the round too.    *)
PollSockets(w) ==
    /\ pc[w] = "sockets" /\ Goto(w, "polled")
    /\ \E o \in TransmitTo(w) : /\ Transmit(w, o)
                                /\ IF o = {} THEN UNCHANGED work ELSE Found(w)
    /\ UNCHANGED <<startup, packets, pub, staged, lane, inWait>>

-----------------------------------------------------------------------------
(* Submit and Wait *)

(* The kernel takes the staged entries: wake-ups and the notification poll. *)
Deliver(w) == lane' = [t \in Worker |->
    [lane[t] EXCEPT !.cqe = @ \/ t \in staged[w],
                    !.notif = IF t = w /\ @ = "staged" THEN "live" ELSE @]]
Submit(w) ==
    /\ pc[w] = "polled" /\ ~inWait[w] /\ Quiet(w)
    /\ IF Ready /\ w < queues THEN FlushTx(w) ELSE UNCHANGED packets
    /\ \/ Deliver(w) /\ staged' = [staged EXCEPT ![w] = {}]
       \/ UNCHANGED <<lane, staged>>      \* io_uring_enter refused for now
    /\ Goto(w, "idle")
    /\ UNCHANGED <<startup, out, pub, inWait, work, left>>

(* A round with something to do, and a Wait that may not sleep, go on. *)
NextRound(w) == /\ pc[w] = "idle" /\ Goto(w, "poll")
                /\ UNCHANGED <<startup, packets, out, pub, staged, lane, inWait, work, left>>

(* Wait: park, enable the interrupt, register the notification, and Poll.  *)
Park(w) ==
    /\ pc[w] = "idle" /\ Ready
    /\ lane' = [lane EXCEPT ![w].parked = TRUE,
                            ![w].intr = w < queues,
                            ![w].notif = IF w < queues /\ @ = "none" THEN "staged" ELSE @]
    /\ inWait' = [inWait EXCEPT ![w] = TRUE]
    /\ Goto(w, "poll")
    /\ UNCHANGED <<startup, packets, out, pub, staged, work, left>>

(* Mutant: the rings are not looked at once more.                          *)
LooksOnce(w) == ~work[w]

(* Nothing came: submit, and block in the ring unless a timer is due. *)
MayBlock(w) == ~work[w] /\ packets.rx[w] = 0 /\ packets.tx[w] = 0
Block(w) ==
    /\ pc[w] = "polled" /\ inWait[w] /\ Quiet(w) /\ MayBlock(w)
    /\ Deliver(w) /\ staged' = [staged EXCEPT ![w] = {}]
    /\ Goto(w, "blocked")
    /\ UNCHANGED <<startup, packets, out, pub, inWait, work, left>>

Unpark(w) ==
    /\ lane' = [lane EXCEPT ![w].parked = FALSE, ![w].intr = FALSE]
    /\ inWait' = [inWait EXCEPT ![w] = FALSE] /\ work' = [work EXCEPT ![w] = FALSE]
    /\ Goto(w, "poll")
    /\ UNCHANGED <<startup, packets, out, pub, staged, left>>

(* Work was found, or the submission was refused: no sleep. *)
StayAwake(w) == pc[w] = "polled" /\ inWait[w] /\ Quiet(w) /\ Unpark(w)
(* The kernel has a completion for the ring. *)
Wakeable(w) == lane[w].cqe \/ (lane[w].notif = "live" /\ lane[w].readable)
WakeUp(w) == pc[w] = "blocked" /\ Wakeable(w) /\ Unpark(w)
Timeout(w) == pc[w] = "blocked" /\ ~Wakeable(w) /\ Unpark(w)

(* Shutdown on the worker's thread, also after a Wait that could not enable *)
(* the interrupt or register the notification; FlushTx sends what is left. *)
Shutdown(w) ==
    /\ pc[w] = "idle"
    /\ lane' = [lane EXCEPT ![w] = [parked |-> FALSE, cqe |-> FALSE, intr |-> FALSE,
                                    notif |-> "none", readable |-> FALSE]]
    /\ IF w < queues THEN FlushTx(w) ELSE UNCHANGED packets
    /\ Goto(w, "down")
    /\ UNCHANGED <<startup, out, pub, staged, inWait, work, left>>

Next == \E w \in Worker :
    \/ InitWorker(w) \/ Enqueue(w) \/ Wake(w) \/ PollKernel(w) \/ PollNic(w)
    \/ PollRx(w) \/ PollBsd(w) \/ PollFlush(w) \/ PollSockets(w)
    \/ Submit(w) \/ NextRound(w) \/ Park(w) \/ Block(w) \/ StayAwake(w)
    \/ WakeUp(w) \/ Timeout(w) \/ Arrive(w) \/ Shutdown(w)

-----------------------------------------------------------------------------
(* No worker sleeps in vain.  While it is blocked in Wait with a frame in  *)
(* one of its rings or its NIC queue, a completion is in its ring, or      *)
(* another worker has the wake-up staged or is between the publication and *)
(* the exchange of parked.  While it waits for FreeBSD in Init, nobody has *)
(* initialised it, and nobody has failed to.                               *)
NoSleepInVain == \A w \in Worker :
    /\ /\ pc[w] = "blocked"
       /\ packets.rx[w] + packets.tx[w] + packets.nic[w] > 0
       => \/ Wakeable(w)
          \/ \E v \in Worker : w \in staged[v] \cup pub[v]
    /\ pc[w] = "attached" => ~startup.bsd_ready /\ ~startup.failure
=============================================================================
