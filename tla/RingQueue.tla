----------------------------- MODULE RingQueue ------------------------------
(***************************************************************************)
(* InlineRingQueue (include/bycorf/base/inline_ring_queue.h), the queue of *)
(* the scheduler and of received buffers: a ring inside the object that    *)
(* moves to the heap when it is full, doubles, and halves again after a    *)
(* capacity's worth of pops at low water.  Capacities are powers of two,   *)
(* so that the code's mask is the remainder.  A slot without a live value  *)
(* is Empty here, whatever bytes it keeps: the code never reads it.        *)
(***************************************************************************)
EXTENDS Naturals

CONSTANTS Queue, Value, Empty,
          kInlineCapacity, kMinHeapCapacity, kMaxCapacity,
          HeapCapacity    \* kMinHeapCapacity and its doubles up to kMaxCapacity

ASSUME CapacityAssumption ==
    /\ kInlineCapacity \in Nat \ {0} /\ kMinHeapCapacity \in HeapCapacity
    /\ HeapCapacity \subseteq Nat
    /\ \A c \in HeapCapacity : /\ c >= 2 * kInlineCapacity
                               /\ c # kMinHeapCapacity => c \div 2 \in HeapCapacity
                               /\ c # kMaxCapacity => 2 * c \in HeapCapacity

VARIABLE ring   \* slots, head_, size_, capacity_ and low_water_pops_ of each queue

EmptyRing(capacity) ==
    [slots |-> [i \in 0 .. capacity - 1 |-> Empty], head |-> 0, size |-> 0,
     capacity |-> capacity, pops |-> 0]
Fresh == EmptyRing(kInlineCapacity)

RingInit == ring = [q \in Queue |-> Fresh]

(* The slot of the i-th value.                                             *)
SlotOf(r, i) == (r.head + i) % r.capacity

(* LowWaterLimit: a depth that fits the next smaller capacity.             *)
LowWaterLimit(r) ==
    IF r.capacity = kMinHeapCapacity THEN kInlineCapacity ELSE r.capacity \div 4

(* Mutant: the live values are taken to begin with the array.              *)
CopyFlat(r, i) == i

(* CopyFrom: the piece up to the end of the old array, then the one from   *)
(* its beginning.                                                          *)
CopyFrom(r, i) ==
    LET first == IF r.size <= r.capacity - r.head THEN r.size ELSE r.capacity - r.head
    IN  IF i < first THEN r.head + i ELSE i - first

(* The live values at the start of an array of `capacity' slots.           *)
Relocated(r, capacity) ==
    [slots |-> [i \in 0 .. capacity - 1 |->
                   IF i < r.size THEN r.slots[CopyFrom(r, i)] ELSE Empty],
     head |-> 0, size |-> r.size, capacity |-> capacity, pops |-> 0]

(* Grow and Shrink; a failed allocation leaves Grow's queue as it was, and *)
(* Shrink's with its count begun anew.                                     *)
Grow(r) == Relocated(r, IF r.capacity = kInlineCapacity THEN kMinHeapCapacity
                                                        ELSE 2 * r.capacity)
Shrink(r) ==
    IF r.capacity = kMinHeapCapacity
    THEN {Relocated(r, kInlineCapacity)}
    ELSE {Relocated(r, r.capacity \div 2), [r EXCEPT !.pops = 0]}

Pushed(r, v) ==
    [slots |-> [r.slots EXCEPT ![SlotOf(r, r.size)] = v],
     head |-> r.head, size |-> r.size + 1, capacity |-> r.capacity,
     pops |-> IF r.capacity > kInlineCapacity /\ r.size + 1 > LowWaterLimit(r)
              THEN 0 ELSE r.pops]

push_back(q, v) ==
    LET r == ring[q] IN
    /\ r.size = r.capacity => r.capacity # kMaxCapacity
    /\ ring' = [ring EXCEPT ![q] = Pushed(IF r.size = r.capacity THEN Grow(r) ELSE r, v)]

(* Grow throws bad_alloc: for want of memory, or at the largest capacity.  *)
push_fails(q) == ring[q].size = ring[q].capacity /\ UNCHANGED ring

Popped(r) ==
    [slots |-> [r.slots EXCEPT ![r.head] = Empty], head |-> SlotOf(r, 1),
     size |-> r.size - 1, capacity |-> r.capacity, pops |-> r.pops]

pop_front(q) ==
    LET r == Popped(ring[q])
        low == r.size <= LowWaterLimit(r)
    IN  /\ ring[q].size > 0
        /\ \E s \in IF r.capacity = kInlineCapacity THEN {r}
                    ELSE IF ~low THEN {[r EXCEPT !.pops = 0]}
                    ELSE IF r.pops + 1 # r.capacity THEN {[r EXCEPT !.pops = @ + 1]}
                    ELSE Shrink(r) :
              ring' = [ring EXCEPT ![q] = s]

clear(q) == ring' = [ring EXCEPT ![q] = EmptyRing(ring[q].capacity)]

(* operator=(InlineRingQueue&&): values inside the object are copied, a    *)
(* heap array changes hands.                                               *)
MoveTo(p, q) ==
    ring' = [r \in Queue |->
               CASE r = p -> IF ring[q].capacity = kInlineCapacity
                             THEN [Relocated(ring[q], kInlineCapacity)
                                     EXCEPT !.pops = ring[q].pops]
                             ELSE ring[q]
                 [] r = q -> Fresh
                 [] OTHER -> ring[r]]

RingStep(q) == pop_front(q) \/ clear(q) \/ push_fails(q) \/ \E v \in Value : push_back(q, v)
RingNext == \E q \in Queue : RingStep(q) \/ \E p \in Queue \ {q} : MoveTo(p, q)
RingSpec == RingInit /\ [][RingNext]_ring

-----------------------------------------------------------------------------
(* What operator[] shows of a queue.                                       *)
Content(r) == [i \in 1 .. r.size |-> r.slots[SlotOf(r, i - 1)]]

Abstract == INSTANCE Fifo WITH queue <- [q \in Queue |-> Content(ring[q])]

(* However often the ring wraps, grows, shrinks or is moved, with and      *)
(* without memory for it, the queue is a FIFO.                             *)
IsFifo == Abstract!Spec
=============================================================================
