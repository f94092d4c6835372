---------------------------- MODULE FifoProofs -----------------------------
(***************************************************************************)
(* The two queues that promise their order, for every number of users.     *)
(*                                                                         *)
(* InlineRingQueue is a FIFO for every set of queues and values and every  *)
(* inline capacity.  The invariant says what a ring must be for its mask,  *)
(* its copies and its discriminator (capacity_) to be right; the lemmas    *)
(* say what the parts of push_back and pop_front do to a ring's content.   *)
(*                                                                         *)
(* CrossWorkerMutex has one owner at a time and serves its waiters in      *)
(* order, for any number of coroutines and workers.                        *)
(***************************************************************************)
EXTENDS RingQueue, CrossWorkerMutex, SequenceTheorems, TLAPS

Capacity == HeapCapacity \cup {kInlineCapacity}
Cell == Value \cup {Empty}

RingOK(r) ==
    /\ r = [slots |-> r.slots, head |-> r.head, size |-> r.size,
            capacity |-> r.capacity, pops |-> r.pops]
    /\ r.capacity \in Capacity
    /\ r.slots \in [0 .. r.capacity - 1 -> Cell]
    /\ r.head \in 0 .. r.capacity - 1 /\ r.size \in 0 .. r.capacity
    /\ r.pops \in Nat

(* Every ring is well formed: its head lies in its array, its size fits,   *)
(* and its capacity is the inline one or one of the heap's.                *)
RingInv == ring = [q \in Queue |-> ring[q]] /\ \A q \in Queue : RingOK(ring[q])

-----------------------------------------------------------------------------
(* Capacities are positive, and growing from one that is not the largest,  *)
(* or shrinking from one of the heap's, gives another.                     *)
LEMMA Capacities ==
    /\ Capacity \subseteq Nat \ {0}
    /\ kMinHeapCapacity \in Capacity /\ kInlineCapacity \in Capacity
    /\ \A c \in HeapCapacity : c > kInlineCapacity
    /\ \A c \in HeapCapacity : c # kMaxCapacity => 2 * c \in Capacity /\ 2 * c > c
    /\ \A c \in HeapCapacity : c # kMinHeapCapacity => c \div 2 \in Capacity
BY CapacityAssumption DEF Capacity

(* The remainder of an index that has wrapped at most once.                *)
LEMMA Remainder ==
    ASSUME NEW a \in Nat, NEW c \in Nat \ {0}, a < 2 * c
    PROVE  a % c = IF a < c THEN a ELSE a - c
OBVIOUS

(* Indices of a ring of c slots that begin at h: in range, different for   *)
(* different values, and one further after h has moved by one.             *)
LEMMA Wrap ==
    ASSUME NEW c \in Nat \ {0}, NEW h \in 0 .. c - 1, NEW i \in 0 .. c
    PROVE  /\ (h + i) % c = IF h + i < c THEN h + i ELSE h + i - c
           /\ (h + i) % c \in 0 .. c - 1
<1> DEFINE a == h + i
<1>1. a \in Nat /\ a < 2 * c
  OBVIOUS
<1> HIDE DEF a
<1>2. a % c = IF a < c THEN a ELSE a - c
  BY Zenon, <1>1, Remainder
<1>3. a % c \in 0 .. c - 1
  BY <1>1, <1>2
<1> QED
  BY <1>2, <1>3 DEF a

LEMMA WrapDiffers ==
    ASSUME NEW c \in Nat \ {0}, NEW h \in 0 .. c - 1,
           NEW i \in 0 .. c - 1, NEW j \in 0 .. c - 1, i # j
    PROVE  (h + i) % c # (h + j) % c
<1>1. i \in 0 .. c /\ j \in 0 .. c
  OBVIOUS
<1>2. (h + i) % c = IF h + i < c THEN h + i ELSE h + i - c
  BY Zenon, <1>1, Wrap
<1>3. (h + j) % c = IF h + j < c THEN h + j ELSE h + j - c
  BY Zenon, <1>1, Wrap
<1> QED
  BY <1>2, <1>3

LEMMA WrapAdvances ==
    ASSUME NEW c \in Nat \ {0}, NEW h \in 0 .. c - 1, NEW i \in 0 .. c - 1
    PROVE  (((h + 1) % c) + i) % c = (h + (i + 1)) % c
<1> DEFINE k == (h + 1) % c
<1>1. k = (IF h + 1 < c THEN h + 1 ELSE h + 1 - c) /\ k \in 0 .. c - 1
  <2>1. 1 \in 0 .. c
    OBVIOUS
  <2> QED
    BY Zenon, <2>1, Wrap
<1>2. i \in 0 .. c /\ i + 1 \in 0 .. c
  OBVIOUS
<1> HIDE DEF k
<1>3. (k + i) % c = IF k + i < c THEN k + i ELSE k + i - c
  BY Zenon, <1>1, <1>2, Wrap
<1>4. (h + (i + 1)) % c = IF h + (i + 1) < c THEN h + (i + 1) ELSE h + (i + 1) - c
  BY Zenon, <1>2, Wrap
<1>5. (k + i) % c = (h + (i + 1)) % c
  BY <1>1, <1>3, <1>4
<1> QED
  BY <1>5 DEF k

(* The slot of a live value, or of the next to come.                       *)
LEMMA SlotIs ==
    ASSUME NEW r, RingOK(r), NEW i \in 0 .. r.size
    PROVE  SlotOf(r, i) \in 0 .. r.capacity - 1
<1>1. r.capacity \in Nat \ {0} /\ r.head \in 0 .. r.capacity - 1
      /\ r.size \in 0 .. r.capacity
  BY Capacities DEF RingOK
<1>2. i \in 0 .. r.capacity
  BY <1>1
<1> QED
  BY Zenon, <1>1, <1>2, Wrap DEF SlotOf

(* CopyFrom reads the slot of the i-th value.                              *)
LEMMA CopyIsSlot ==
    ASSUME NEW r, RingOK(r), NEW i \in 0 .. r.size - 1
    PROVE  CopyFrom(r, i) = SlotOf(r, i) /\ SlotOf(r, i) \in 0 .. r.capacity - 1
<1> DEFINE h == r.head
           z == r.size
           c == r.capacity
<1>1. c \in Nat \ {0} /\ h \in 0 .. c - 1 /\ z \in 0 .. c /\ i \in 0 .. z - 1
  BY Capacities DEF RingOK
<1>2. CopyFrom(r, i) = IF i < (IF z <= c - h THEN z ELSE c - h)
                       THEN h + i ELSE i - (IF z <= c - h THEN z ELSE c - h)
  BY DEF CopyFrom
<1>3. SlotOf(r, i) = (h + i) % c
  BY DEF SlotOf
<1> HIDE DEF h, z, c
<1>4. i \in 0 .. z /\ i \in 0 .. c
  BY <1>1
<1>5. (h + i) % c = IF h + i < c THEN h + i ELSE h + i - c
  BY Zenon, <1>1, <1>4, Wrap
<1>6. CopyFrom(r, i) = SlotOf(r, i)
  BY <1>1, <1>2, <1>3, <1>5
<1> QED
  BY <1>4, <1>6, SlotIs DEF z

(* A content is a sequence of as many cells as the ring says.              *)
LEMMA ContentIs ==
    ASSUME NEW r, RingOK(r)
    PROVE  /\ Content(r) \in Seq(Cell) /\ Len(Content(r)) = r.size
           /\ \A i \in 1 .. r.size : Content(r)[i] = r.slots[SlotOf(r, i - 1)]
<1>1. r.size \in Nat /\ r.slots \in [0 .. r.capacity - 1 -> Cell]
  BY Capacities DEF RingOK
<1>2. ASSUME NEW i \in 1 .. r.size PROVE r.slots[SlotOf(r, i - 1)] \in Cell
  <2>1. i - 1 \in 0 .. r.size
    BY <1>1
  <2> QED
    BY Zenon, <1>1, <2>1, SlotIs
<1> QED
  BY <1>1, <1>2 DEF Content

(* Relocation keeps the content.                                           *)
LEMMA RelocatedOK ==
    ASSUME NEW r, RingOK(r), NEW c \in Capacity, r.size <= c
    PROVE  RingOK(Relocated(r, c)) /\ Content(Relocated(r, c)) = Content(r)
           /\ Relocated(r, c).size = r.size /\ Relocated(r, c).capacity = c
<1> DEFINE n == Relocated(r, c)
<1>1. r.capacity \in Nat \ {0} /\ r.size \in Nat /\ c \in Nat \ {0}
      /\ r.slots \in [0 .. r.capacity - 1 -> Cell]
  BY Capacities DEF RingOK
<1>2. n.slots = [i \in 0 .. c - 1 |->
                   IF i < r.size THEN r.slots[CopyFrom(r, i)] ELSE Empty]
      /\ n.head = 0 /\ n.size = r.size /\ n.capacity = c /\ n.pops = 0
      /\ n = [slots |-> n.slots, head |-> n.head, size |-> n.size,
              capacity |-> n.capacity, pops |-> n.pops]
  BY DEF Relocated
<1>3. n.slots \in [0 .. c - 1 -> Cell]
  BY <1>1, <1>2, CopyIsSlot DEF Cell
<1>4. RingOK(n)
  BY <1>1, <1>2, <1>3 DEF RingOK
<1>5. ASSUME NEW i \in 1 .. r.size
      PROVE  n.slots[SlotOf(n, i - 1)] = r.slots[SlotOf(r, i - 1)]
  <2>1. i - 1 \in 0 .. r.size - 1 /\ i - 1 \in Nat /\ i - 1 < c
    BY <1>1
  <2>2. SlotOf(n, i - 1) = i - 1
    <3>1. (i - 1) % c = i - 1
      BY <1>1, <2>1, Remainder
    <3>2. n.head + (i - 1) = i - 1
      BY <1>2, <2>1
    <3> QED
      BY <1>2, <3>1, <3>2 DEF SlotOf
  <2> QED
    BY SMTT(30), <1>1, <1>2, <2>1, <2>2, CopyIsSlot
<1>6. Content(n) = Content(r)
  BY Zenon, <1>2, <1>5 DEF Content
<1> QED
  BY <1>2, <1>4, <1>6

(* low_water_pops_ is no part of the content.                              *)
LEMMA CountOK ==
    ASSUME NEW r, RingOK(r), NEW k \in Nat
    PROVE  RingOK([r EXCEPT !.pops = k]) /\ Content([r EXCEPT !.pops = k]) = Content(r)
<1> DEFINE n == [r EXCEPT !.pops = k]
<1>1. n = [slots |-> r.slots, head |-> r.head, size |-> r.size,
           capacity |-> r.capacity, pops |-> k]
  BY DEF RingOK
<1> QED
  BY <1>1 DEF RingOK, Content, SlotOf

(* A value that is put in a ring with room becomes its last.               *)
LEMMA PushedOK ==
    ASSUME NEW r, RingOK(r), r.size < r.capacity, NEW v \in Value
    PROVE  RingOK(Pushed(r, v)) /\ Content(Pushed(r, v)) = Append(Content(r), v)
<1> DEFINE n == Pushed(r, v)
           z == r.size
           c == r.capacity
<1>1. /\ c \in Nat \ {0} /\ z \in Nat /\ r.head \in 0 .. c - 1 /\ z < c
      /\ r.slots \in [0 .. c - 1 -> Cell] /\ r.pops \in Nat /\ c \in Capacity
  BY Capacities DEF RingOK
<1>2. /\ n.slots = [r.slots EXCEPT ![SlotOf(r, z)] = v] /\ n.head = r.head
      /\ n.size = z + 1 /\ n.capacity = c /\ n.pops \in {0, r.pops}
      /\ n = [slots |-> n.slots, head |-> n.head, size |-> n.size,
              capacity |-> n.capacity, pops |-> n.pops]
  BY DEF Pushed
<1> HIDE DEF n
<1>3. n.slots \in [0 .. c - 1 -> Cell] /\ n.pops \in Nat
  <2>1. v \in Cell
    BY DEF Cell
  <2>2. n.slots \in [0 .. c - 1 -> Cell]
    BY Zenon, <1>1, <1>2, <2>1
  <2>3. 0 \in Nat
    OBVIOUS
  <2> QED
    BY Zenon, <1>1, <1>2, <2>2, <2>3
<1>4. RingOK(n)
  <2>1. n.size \in 0 .. n.capacity /\ n.head \in 0 .. n.capacity - 1
    BY <1>1, <1>2
  <2> QED
    BY Zenon, <1>1, <1>2, <1>3, <2>1 DEF RingOK
<1>5. \A i \in 0 .. z : SlotOf(n, i) = SlotOf(r, i)
  BY Zenon, <1>2 DEF SlotOf
<1>6. z \in 0 .. z /\ z \in 0 .. c - 1 /\ SlotOf(r, z) \in 0 .. c - 1
  <2>1. z \in 0 .. z /\ z \in 0 .. c - 1
    BY <1>1
  <2> QED
    BY <2>1, SlotIs
<1>7. \A i \in 1 .. z : n.slots[SlotOf(n, i - 1)] = r.slots[SlotOf(r, i - 1)]
  <2> TAKE i \in 1 .. z
  <2>1. i - 1 \in 0 .. z /\ i - 1 \in 0 .. c - 1 /\ i - 1 # z
    BY <1>1
  <2>2. SlotOf(r, i - 1) # SlotOf(r, z)
    BY Zenon, <1>1, <1>6, <2>1, WrapDiffers DEF SlotOf
  <2>3. SlotOf(r, i - 1) \in 0 .. c - 1
    BY <2>1, SlotIs
  <2> QED
    BY <1>1, <1>2, <1>5, <2>1, <2>2, <2>3
<1>8. n.slots[SlotOf(n, z)] = v
  BY <1>1, <1>2, <1>5, <1>6
<1>9. /\ Content(r) \in Seq(Cell) /\ Len(Content(r)) = z
      /\ \A i \in 1 .. z : Content(r)[i] = r.slots[SlotOf(r, i - 1)]
  BY ContentIs
<1>10. /\ Content(n) \in Seq(Cell) /\ Len(Content(n)) = z + 1
       /\ \A i \in 1 .. z + 1 : Content(n)[i] = n.slots[SlotOf(n, i - 1)]
  BY ZenonT(40), <1>2, <1>4, ContentIs
<1> DEFINE t == Append(Content(r), v)
<1>11. /\ t \in Seq(Cell) /\ Len(t) = z + 1
       /\ \A i \in 1 .. z : t[i] = Content(r)[i]
       /\ t[z + 1] = v
  <2>1. v \in Cell
    BY DEF Cell
  <2> QED
    BY <1>9, <2>1, AppendProperties
<1> HIDE DEF t
<1>12. \A i \in 1 .. z + 1 : Content(n)[i] = t[i]
  <2> TAKE i \in 1 .. z + 1
  <2>1. CASE i \in 1 .. z
    BY Zenon, <1>7, <1>9, <1>10, <1>11, <2>1
  <2>2. CASE i = z + 1
    <3>1. i - 1 = z
      BY <1>1, <2>2
    <3> QED
      BY <1>8, <1>10, <1>11, <2>2, <3>1
  <2> QED
    BY <1>1, <2>1, <2>2
<1>13. Content(n) = t
  BY <1>10, <1>11, <1>12, SeqEqual
<1> QED
  BY <1>4, <1>13 DEF n, t

(* pop_front takes the first value away.                                   *)
LEMMA PoppedOK ==
    ASSUME NEW r, RingOK(r), r.size > 0
    PROVE  /\ RingOK(Popped(r)) /\ Content(Popped(r)) = Tail(Content(r))
           /\ Content(r) # << >>
           /\ Popped(r).capacity = r.capacity /\ Popped(r).pops = r.pops
<1> DEFINE n == Popped(r)
           z == r.size
           c == r.capacity
<1>1. /\ c \in Nat \ {0} /\ z \in Nat \ {0} /\ r.head \in 0 .. c - 1 /\ z <= c
      /\ r.slots \in [0 .. c - 1 -> Cell] /\ r.pops \in Nat /\ c \in Capacity
  BY Capacities DEF RingOK
<1>2. /\ n.slots = [r.slots EXCEPT ![r.head] = Empty] /\ n.head = SlotOf(r, 1)
      /\ n.size = z - 1 /\ n.capacity = c /\ n.pops = r.pops
      /\ n = [slots |-> n.slots, head |-> n.head, size |-> n.size,
              capacity |-> n.capacity, pops |-> n.pops]
  BY DEF Popped
<1> HIDE DEF n
<1>3. n.slots \in [0 .. c - 1 -> Cell]
  BY <1>1, <1>2 DEF Cell
<1>4. RingOK(n)
  <2>1. 1 \in 0 .. r.size /\ n.size \in 0 .. n.capacity
    BY <1>1, <1>2
  <2>2. n.head \in 0 .. n.capacity - 1
    BY <1>2, <2>1, SlotIs
  <2> QED
    BY Zenon, <1>1, <1>2, <1>3, <2>1, <2>2 DEF RingOK
<1>5. \A i \in 1 .. z - 1 : n.slots[SlotOf(n, i - 1)] = r.slots[SlotOf(r, i)]
  <2> TAKE i \in 1 .. z - 1
  <2>1. /\ i - 1 \in 0 .. c - 1 /\ (i - 1) + 1 = i /\ i \in 0 .. z
        /\ i \in 0 .. c - 1 /\ 0 \in 0 .. c - 1 /\ i # 0
    BY <1>1
  <2>2. (((r.head + 1) % c) + (i - 1)) % c = (r.head + ((i - 1) + 1)) % c
    BY Zenon, <1>1, <2>1, WrapAdvances
  <2>3. SlotOf(n, i - 1) = SlotOf(r, i)
    BY Zenon, <1>2, <2>1, <2>2 DEF SlotOf
  <2>4. (r.head + i) % c # (r.head + 0) % c
    BY Zenon, <1>1, <2>1, WrapDiffers
  <2>5. (r.head + 0) % c = r.head
    <3>1. r.head + 0 = r.head /\ r.head \in Nat /\ r.head < 2 * c /\ r.head < c
      BY <1>1
    <3>2. r.head % c = IF r.head < c THEN r.head ELSE r.head - c
      BY <1>1, <3>1, Remainder, Zenon
    <3> QED BY <3>1, <3>2, Zenon
  <2>6. SlotOf(r, i) # r.head /\ SlotOf(r, i) \in 0 .. c - 1
    <3>1. SlotOf(r, i) \in 0 .. r.capacity - 1
      BY <1>1, <2>1, SlotIs, Zenon
    <3>2. SlotOf(r, i) = (r.head + i) % c
      BY Zenon DEF SlotOf
    <3> QED BY <2>4, <2>5, <3>1, <3>2, Zenon
  <2> QED
    BY <1>1, <1>2, <2>3, <2>6
<1>6. /\ Content(r) \in Seq(Cell) /\ Len(Content(r)) = z
      /\ \A i \in 1 .. z : Content(r)[i] = r.slots[SlotOf(r, i - 1)]
  BY ContentIs
<1>7. /\ Content(n) \in Seq(Cell) /\ Len(Content(n)) = z - 1
      /\ \A i \in 1 .. z - 1 : Content(n)[i] = n.slots[SlotOf(n, i - 1)]
  <2>1. /\ Content(n) \in Seq(Cell) /\ Len(Content(n)) = n.size
        /\ \A i \in 1 .. n.size : Content(n)[i] = n.slots[SlotOf(n, i - 1)]
    BY <1>4, ContentIs
  <2> QED
    BY Zenon, <1>2, <2>1
<1>8. Content(r) # << >>
  BY <1>1, <1>6, EmptySeq
<1> DEFINE t == Tail(Content(r))
<1>9. t \in Seq(Cell) /\ Len(t) = z - 1 /\ \A i \in 1 .. z - 1 : t[i] = Content(r)[i + 1]
  BY <1>6, <1>8, HeadTailProperties
<1> HIDE DEF t
<1>10. \A i \in 1 .. z - 1 : Content(n)[i] = t[i]
  <2> TAKE i \in 1 .. z - 1
  <2>1. i + 1 \in 1 .. z /\ (i + 1) - 1 = i
    BY <1>1
  <2>2. Content(r)[i + 1] = r.slots[SlotOf(r, i)]
    BY <1>6, <2>1
  <2> QED
    BY <1>5, <1>7, <1>9, <2>2
<1>11. Content(n) = t
  BY <1>7, <1>9, <1>10, SeqEqual
<1> QED
  BY <1>2, <1>4, <1>8, <1>11 DEF n, t

-----------------------------------------------------------------------------
(* An empty ring is well formed and has no content.                        *)
LEMMA EmptyOK ==
    ASSUME NEW c \in Capacity
    PROVE  RingOK(EmptyRing(c)) /\ Content(EmptyRing(c)) = << >>
<1> DEFINE n == EmptyRing(c)
<1>1. n = [slots |-> n.slots, head |-> 0, size |-> 0, capacity |-> c, pops |-> 0]
      /\ n.slots = [i \in 0 .. c - 1 |-> Empty]
  BY DEF EmptyRing
<1> QED
  BY <1>1, Capacities DEF RingOK, Content, Cell

(* Grow makes room.                                                        *)
LEMMA GrowOK ==
    ASSUME NEW r, RingOK(r), r.size = r.capacity, r.capacity # kMaxCapacity
    PROVE  RingOK(Grow(r)) /\ Content(Grow(r)) = Content(r)
           /\ Grow(r).size < Grow(r).capacity
<1> DEFINE c == IF r.capacity = kInlineCapacity THEN kMinHeapCapacity ELSE 2 * r.capacity
<1>1. c \in Capacity /\ r.size < c /\ r.size <= c
  BY Capacities, CapacityAssumption DEF RingOK, Capacity
<1>2. Grow(r) = Relocated(r, c)
  BY DEF Grow
<1> HIDE DEF c
<1> QED
  BY <1>1, <1>2, RelocatedOK

(* Shrink, at low water, keeps the content.                                *)
LEMMA ShrinkOK ==
    ASSUME NEW r, RingOK(r), r.capacity # kInlineCapacity,
           r.size <= LowWaterLimit(r), NEW s \in Shrink(r)
    PROVE  RingOK(s) /\ Content(s) = Content(r)
<1>1. r.capacity \in HeapCapacity /\ r.capacity \in Nat /\ r.size \in Nat
  BY Capacities DEF RingOK, Capacity
<1>2. CASE r.capacity = kMinHeapCapacity
  <2>1. s = Relocated(r, kInlineCapacity) /\ r.size <= kInlineCapacity
    BY <1>2 DEF Shrink, LowWaterLimit
  <2> QED
    BY <2>1, Capacities, RelocatedOK
<1>3. CASE r.capacity # kMinHeapCapacity
  <2>1. r.size <= r.capacity \div 4
    BY <1>3 DEF LowWaterLimit
  <2>2. r.size <= r.capacity \div 2 /\ r.capacity \div 2 \in Capacity
    BY <1>1, <1>3, <2>1, Capacities
  <2>3. s = Relocated(r, r.capacity \div 2) \/ s = [r EXCEPT !.pops = 0]
    BY <1>3 DEF Shrink
  <2>4. CASE s = Relocated(r, r.capacity \div 2)
    BY Zenon, <2>2, <2>4, RelocatedOK
  <2>5. CASE s = [r EXCEPT !.pops = 0]
    <3>1. 0 \in Nat
      OBVIOUS
    <3> QED
      BY Zenon, <2>5, <3>1, CountOK
  <2> QED
    BY <2>3, <2>4, <2>5
<1> QED
  BY <1>2, <1>3

-----------------------------------------------------------------------------
(* What the queues hold, as the abstract specification sees it.            *)
Contents == [q \in Queue |-> Content(ring[q])]

(* One queue changes: it stays well formed, and so do the others.          *)
LEMMA OneRing ==
    ASSUME RingInv, NEW q \in Queue, NEW n, RingOK(n), ring' = [ring EXCEPT ![q] = n]
    PROVE  RingInv' /\ Contents' = [Contents EXCEPT ![q] = Content(n)]
<1>1. \A p \in Queue : ring'[p] = IF p = q THEN n ELSE ring[p]
  BY Zenon DEF RingInv
<1>2. ring' = [p \in Queue |-> ring'[p]]
  BY DEF RingInv
<1>3. \A p \in Queue : RingOK(ring'[p])
  BY <1>1 DEF RingInv
<1>4. RingInv'
  BY <1>2, <1>3 DEF RingInv
<1>5. Contents' = [p \in Queue |-> IF p = q THEN Content(n) ELSE Content(ring[p])]
  BY <1>1 DEF Contents
<1>6. [Contents EXCEPT ![q] = Content(n)]
        = [p \in Queue |-> IF p = q THEN Content(n) ELSE Content(ring[p])]
  BY Zenon DEF Contents
<1> QED
  BY <1>4, <1>5, <1>6

(* push_back appends to the content of its queue.                          *)
LEMMA PushStep ==
    ASSUME RingInv, NEW q \in Queue, NEW v \in Value, push_back(q, v)
    PROVE  RingInv' /\ Contents' = [Contents EXCEPT ![q] = Append(Contents[q], v)]
<1> DEFINE r == ring[q]
           g == IF r.size = r.capacity THEN Grow(r) ELSE r
<1>1. RingOK(r) /\ Contents[q] = Content(r)
  BY DEF RingInv, Contents
<1>2. RingOK(g) /\ Content(g) = Content(r) /\ g.size < g.capacity
  <2>1. CASE r.size = r.capacity
    BY <1>1, <2>1, GrowOK DEF push_back
  <2>2. CASE r.size # r.capacity
    <3>1. r.size \in 0 .. r.capacity /\ r.capacity \in Nat
      BY Zenon, <1>1, Capacities DEF RingOK
    <3> HIDE DEF r
    <3>2. r.size < r.capacity
      BY <2>2, <3>1
    <3> QED
      BY <1>1, <2>2, <3>2
  <2> QED
    BY <2>1, <2>2
<1>3. ring' = [ring EXCEPT ![q] = Pushed(g, v)]
  BY DEF push_back
<1> HIDE DEF g, r
<1>4. RingOK(Pushed(g, v)) /\ Content(Pushed(g, v)) = Append(Content(g), v)
  BY <1>2, PushedOK
<1> QED
  BY ZenonT(40), <1>1, <1>2, <1>3, <1>4, OneRing

(* pop_front takes the first value of its queue, whether the ring shrinks  *)
(* or not.                                                                 *)
LEMMA PopStep ==
    ASSUME RingInv, NEW q \in Queue, pop_front(q)
    PROVE  /\ RingInv' /\ Contents' = [Contents EXCEPT ![q] = Tail(Contents[q])]
           /\ Contents[q] # << >>
<1> DEFINE o == ring[q]
           r == Popped(o)
<1>1. RingOK(o) /\ Contents[q] = Content(o) /\ o.size > 0
  BY DEF RingInv, Contents, pop_front
<1>2. RingOK(r) /\ Content(r) = Tail(Content(o)) /\ Content(o) # << >>
  BY <1>1, PoppedOK
<1>3. PICK s \in (IF r.capacity = kInlineCapacity THEN {r}
                  ELSE IF ~(r.size <= LowWaterLimit(r)) THEN {[r EXCEPT !.pops = 0]}
                  ELSE IF r.pops + 1 # r.capacity THEN {[r EXCEPT !.pops = @ + 1]}
                  ELSE Shrink(r)) : ring' = [ring EXCEPT ![q] = s]
  BY Zenon DEF pop_front
<1> HIDE DEF r, o
<1>4. RingOK(s) /\ Content(s) = Content(r)
  <2>1. 0 \in Nat /\ r.pops + 1 \in Nat
    BY <1>2 DEF RingOK
  <2>2. \/ s = r \/ s = [r EXCEPT !.pops = 0] \/ s = [r EXCEPT !.pops = r.pops + 1]
        \/ /\ r.capacity # kInlineCapacity /\ r.size <= LowWaterLimit(r)
           /\ s \in Shrink(r)
    BY <1>3
  <2>3. CASE s = r
    BY <1>2, <2>3
  <2>4. CASE s = [r EXCEPT !.pops = 0]
    BY Zenon, <1>2, <2>1, <2>4, CountOK
  <2>5. CASE s = [r EXCEPT !.pops = r.pops + 1]
    BY Zenon, <1>2, <2>1, <2>5, CountOK
  <2>6. CASE /\ r.capacity # kInlineCapacity /\ r.size <= LowWaterLimit(r)
             /\ s \in Shrink(r)
    BY <1>2, <2>6, ShrinkOK
  <2> QED
    BY <2>2, <2>3, <2>4, <2>5, <2>6
<1> QED
  BY ZenonT(40), <1>1, <1>2, <1>3, <1>4, OneRing

(* clear empties its queue.                                                *)
LEMMA ClearStep ==
    ASSUME RingInv, NEW q \in Queue, clear(q)
    PROVE  RingInv' /\ Contents' = [Contents EXCEPT ![q] = << >>]
<1>1. ring[q].capacity \in Capacity
  BY DEF RingInv, RingOK
<1> QED
  BY Zenon, <1>1, EmptyOK, OneRing DEF clear

(* A move hands the content over and leaves an empty queue.                *)
LEMMA MoveStep ==
    ASSUME RingInv, NEW p \in Queue, NEW q \in Queue, p # q, MoveTo(p, q)
    PROVE  /\ RingInv'
           /\ Contents' = [r \in Queue |-> IF r = p THEN Contents[q] ELSE
                                           IF r = q THEN << >> ELSE Contents[r]]
<1> DEFINE m == [Relocated(ring[q], kInlineCapacity) EXCEPT !.pops = ring[q].pops]
           n == IF ring[q].capacity = kInlineCapacity THEN m ELSE ring[q]
<1>1. RingOK(ring[q]) /\ RingOK(Fresh) /\ Content(Fresh) = << >>
  BY EmptyOK, Capacities DEF RingInv, Fresh
<1>2. RingOK(n) /\ Content(n) = Content(ring[q])
  <2>1. CASE ring[q].capacity = kInlineCapacity
    <3>1. ring[q].size <= kInlineCapacity /\ ring[q].pops \in Nat
      BY <1>1, <2>1, Capacities DEF RingOK
    <3>2. LET s == Relocated(ring[q], kInlineCapacity)
          IN  RingOK(s) /\ Content(s) = Content(ring[q])
      BY <1>1, <3>1, Capacities, RelocatedOK
    <3> QED
      BY Zenon, <2>1, <3>1, <3>2, CountOK
  <2>2. CASE ring[q].capacity # kInlineCapacity
    BY <1>1, <2>2
  <2> QED
    BY <2>1, <2>2
<1>3. ring' = [r \in Queue |-> IF r = p THEN n ELSE IF r = q THEN Fresh ELSE ring[r]]
  BY DEF MoveTo
<1> HIDE DEF n
<1>4. RingInv'
  BY <1>1, <1>2, <1>3 DEF RingInv
<1> QED
  BY <1>1, <1>2, <1>3, <1>4 DEF Contents

(* Every step of the ring is a step of the FIFO, or changes no content.    *)
LEMMA NextStep ==
    ASSUME RingInv, [RingNext]_ring
    PROVE  RingInv' /\ [Abstract!Next]_Contents
<1>1. ASSUME NEW q \in Queue, NEW v \in Value, push_back(q, v)
      PROVE  RingInv' /\ [Abstract!Next]_Contents
  <2>1. Abstract!Push(q, v)
    BY <1>1, PushStep DEF Abstract!Push, Contents
  <2> QED
    BY <1>1, <2>1, PushStep DEF Abstract!Next
<1>2. ASSUME NEW q \in Queue, pop_front(q)
      PROVE  RingInv' /\ [Abstract!Next]_Contents
  <2>1. Abstract!Pop(q)
    BY <1>2, PopStep DEF Abstract!Pop, Contents
  <2> QED
    BY <1>2, <2>1, PopStep DEF Abstract!Next
<1>3. ASSUME NEW q \in Queue, clear(q)
      PROVE  RingInv' /\ [Abstract!Next]_Contents
  <2>1. Abstract!Clear(q)
    BY <1>3, ClearStep DEF Abstract!Clear, Contents
  <2> QED
    BY <1>3, <2>1, ClearStep DEF Abstract!Next
<1>4. ASSUME NEW p \in Queue, NEW q \in Queue, p # q, MoveTo(p, q)
      PROVE  RingInv' /\ [Abstract!Next]_Contents
  <2>1. Abstract!Move(p, q)
    BY <1>4, MoveStep DEF Abstract!Move, Contents
  <2> QED
    BY <1>4, <2>1, MoveStep DEF Abstract!Next
<1>5. CASE UNCHANGED ring
  BY <1>5 DEF RingInv, Contents
<1> QED
  BY <1>1, <1>2, <1>3, <1>4, <1>5 DEF RingNext, RingStep, push_fails

(* InlineRingQueue implements a FIFO: whatever sequence of push_back,      *)
(* pop_front, clear and moves, wherever the ring wraps, and whether or not *)
(* memory for growing or shrinking is found.                               *)
THEOREM QueueIsFifo == RingSpec => IsFifo
<1>1. RingInit => RingInv /\ Contents = [q \in Queue |-> << >>]
  BY EmptyOK, Capacities DEF RingInit, Fresh, RingInv, Contents
<1>2. RingInv /\ [RingNext]_ring => RingInv' /\ [Abstract!Next]_Contents
  BY NextStep
<1> QED
  BY <1>1, <1>2, PTL DEF RingSpec, IsFifo, Abstract!Spec, Abstract!Init, Contents

-----------------------------------------------------------------------------
(* The invariant needs what a handoff under way looks like: only one is,   *)
(* and the waiter it took is still suspended and in the queue no more.     *)
HandOffOK ==
    /\ \A c \in Coroutine : wake[c] # None <=> state[c] = "wake"
    /\ \A c, d \in Coroutine : wake[c] # None /\ wake[d] # None => c = d
    /\ \A c \in Coroutine : wake[c] # None =>
          /\ state[wake[c]] = "queued"
          /\ \A i \in 1..Len(waiters) : waiters[i] # wake[c]

MutexInv == TypeOK /\ MutualExclusion /\ NoOvertaking /\ HandOffOK

(* What Append does to the elements of a sequence.                         *)
LEMMA AppendElements ==
    ASSUME NEW S, NEW s \in Seq(S), NEW e \in S
    PROVE  /\ Append(s, e) \in Seq(S) /\ Len(Append(s, e)) = Len(s) + 1
           /\ Append(s, e)[Len(s) + 1] = e
           /\ \A i \in 1..Len(s) : Append(s, e)[i] = s[i]
  OBVIOUS

(* What Head and Tail do to the elements of a sequence.                    *)
LEMMA TailElements ==
    ASSUME NEW S, NEW s \in Seq(S), s # <<>>
    PROVE  /\ Tail(s) \in Seq(S) /\ Len(Tail(s)) = Len(s) - 1
           /\ Len(s) \in Nat \ {0} /\ Head(s) = s[1] /\ s[1] \in S
           /\ \A i \in 1..Len(Tail(s)) : Tail(s)[i] = s[i + 1]
  OBVIOUS

(* co_await Lock only marks the coroutine.                                 *)
LEMMA InvLock ==
    ASSUME MutexInv, NEW c \in Coroutine, Lock(c)
    PROVE  MutexInv'
  <1>t. TypeOK'
    BY Zenon, HomeAssumption DEF MutexInv, TypeOK, State, Lock, Move, Start
  <1>o. Owner' = Owner
    BY DEF MutexInv, TypeOK, Owner, Lock, Move
  <1>m. MutualExclusion'
    BY <1>o DEF MutexInv, MutualExclusion, Lock
  <1>n. NoOvertaking'
    BY DEF MutexInv, TypeOK, NoOvertaking, Lock, Move
  <1>h. HandOffOK'
    BY DEF MutexInv, TypeOK, HandOffOK, Lock, Move
  <1> QED
    BY <1>t, <1>m, <1>n, <1>h DEF MutexInv

(* Taking the queue guard.                                                 *)
LEMMA InvLockQueue ==
    ASSUME MutexInv, NEW c \in Coroutine, LockQueue(c)
    PROVE  MutexInv'
  <1>t. TypeOK'
    BY HomeAssumption, NoneAssumption
    DEF MutexInv, TypeOK, State, LockQueue, Runs
  <1>o. Owner' = Owner
    BY DEF MutexInv, TypeOK, Owner, LockQueue, Move
  <1>m. MutualExclusion'
    BY <1>o DEF MutexInv, MutualExclusion, LockQueue
  <1>n. NoOvertaking'
    BY DEF MutexInv, TypeOK, NoOvertaking, LockQueue, Move
  <1>h. HandOffOK'
    BY DEF MutexInv, TypeOK, HandOffOK, LockQueue, Move
  <1> QED
    BY <1>t, <1>m, <1>n, <1>h DEF MutexInv

(* The owner starts to unlock.                                             *)
LEMMA InvUnlock ==
    ASSUME MutexInv, NEW c \in Coroutine, Unlock(c)
    PROVE  MutexInv'
  <1>t. TypeOK'
    BY Zenon, HomeAssumption, NoneAssumption
    DEF MutexInv, TypeOK, State, Unlock, Move, Start, CanRun
  <1>o. Owner' = Owner
    BY DEF MutexInv, TypeOK, Owner, Unlock, Move
  <1>m. MutualExclusion'
    BY <1>o DEF MutexInv, MutualExclusion, Unlock
  <1>n. NoOvertaking'
    BY DEF MutexInv, TypeOK, NoOvertaking, Unlock, Move
  <1>h. HandOffOK'
    BY DEF MutexInv, TypeOK, HandOffOK, Unlock, Move
  <1> QED
    BY <1>t, <1>m, <1>n, <1>h DEF MutexInv

(* The message of a handoff arrives.                                       *)
LEMMA InvResumeRemote ==
    ASSUME MutexInv, NEW c \in Coroutine, ResumeRemote(c)
    PROVE  MutexInv'
  <1>t. TypeOK'
    BY HomeAssumption, NoneAssumption
    DEF MutexInv, TypeOK, State, ResumeRemote, Move, CanRun
  <1>o. Owner' = Owner
    BY DEF MutexInv, TypeOK, Owner, ResumeRemote, Move
  <1>m. MutualExclusion'
    BY <1>o DEF MutexInv, MutualExclusion, ResumeRemote
  <1>n. NoOvertaking'
    BY DEF MutexInv, TypeOK, NoOvertaking, ResumeRemote, Move
  <1>h. HandOffOK'
    BY DEF MutexInv, TypeOK, HandOffOK, ResumeRemote, Move
  <1> QED
    BY <1>t, <1>m, <1>n, <1>h DEF MutexInv

(* The new owner runs.                                                     *)
LEMMA InvResume ==
    ASSUME MutexInv, NEW c \in Coroutine, Resume(c)
    PROVE  MutexInv'
  <1>t. TypeOK'
    BY Zenon, HomeAssumption, NoneAssumption
    DEF MutexInv, TypeOK, State, Resume, Move, Start, CanRun
  <1>o. Owner' = Owner
    BY DEF MutexInv, TypeOK, Owner, Resume, Move
  <1>m. MutualExclusion'
    BY <1>o DEF MutexInv, MutualExclusion, Resume
  <1>n. NoOvertaking'
    BY DEF MutexInv, TypeOK, NoOvertaking, Resume, Move
  <1>h. HandOffOK'
    BY DEF MutexInv, TypeOK, HandOffOK, Resume, Move
  <1> QED
    BY <1>t, <1>m, <1>n, <1>h DEF MutexInv

(* The new owner has touched the guard.                                    *)
LEMMA InvSynchronizeAcquisition ==
    ASSUME MutexInv, NEW c \in Coroutine, SynchronizeAcquisition(c)
    PROVE  MutexInv'
  <1>t. TypeOK'
    BY Zenon, HomeAssumption, NoneAssumption
    DEF MutexInv, TypeOK, State, SynchronizeAcquisition, Move, Suspend
  <1>o. Owner' = Owner
    BY DEF MutexInv, TypeOK, Owner, SynchronizeAcquisition, Move
  <1>m. MutualExclusion'
    BY <1>o DEF MutexInv, MutualExclusion, SynchronizeAcquisition
  <1>n. NoOvertaking'
    BY DEF MutexInv, TypeOK, NoOvertaking, SynchronizeAcquisition, Move
  <1>h. HandOffOK'
    BY DEF MutexInv, TypeOK, HandOffOK, SynchronizeAcquisition, Move
  <1> QED
    BY <1>t, <1>m, <1>n, <1>h DEF MutexInv

(* The mutex is free and gets its owner.                                   *)
LEMMA InvAcquire ==
    ASSUME MutexInv, NEW c \in Coroutine, Acquire(c)
    PROVE  MutexInv'
  <1>t. TypeOK'
    BY Zenon, HomeAssumption, NoneAssumption
    DEF MutexInv, TypeOK, State, Acquire, Move, Suspend
  <1>1. Owner = {} /\ held' = TRUE
    BY DEF MutexInv, MutualExclusion, Acquire
  <1>o. Owner' = {c}
    BY <1>1 DEF MutexInv, TypeOK, Owner, Acquire, Move
  <1>m. MutualExclusion'
    BY <1>1, <1>o DEF MutualExclusion
  <1>n. NoOvertaking'
    BY DEF MutexInv, TypeOK, NoOvertaking, Acquire, Move
  <1>h. HandOffOK'
    BY DEF MutexInv, TypeOK, HandOffOK, Acquire, Move
  <1> QED
    BY <1>t, <1>m, <1>n, <1>h DEF MutexInv

(* A coroutine that finds the mutex held waits in the queue, once.         *)
LEMMA InvQueue ==
    ASSUME MutexInv, NEW c \in Coroutine, QueueWaiter(c)
    PROVE  MutexInv'
  <1>1. /\ waiters' \in Seq(Coroutine) /\ Len(waiters') = Len(waiters) + 1
        /\ waiters'[Len(waiters) + 1] = c
        /\ \A i \in 1..Len(waiters) : waiters'[i] = waiters[i]
        /\ Len(waiters) \in Nat
    BY AppendElements DEF MutexInv, TypeOK, QueueWaiter
  <1>2. \A i \in 1..Len(waiters) : waiters[i] # c
    BY DEF MutexInv, NoOvertaking, QueueWaiter
  <1>3. \A d \in Coroutine : wake[d] # c
    BY Zenon, NoneAssumption DEF MutexInv, TypeOK, HandOffOK, QueueWaiter
  <1>t. TypeOK'
    BY Zenon, <1>1, HomeAssumption, NoneAssumption
    DEF MutexInv, TypeOK, State, QueueWaiter, Move, Suspend
  <1>o. Owner' = Owner
    BY <1>3 DEF MutexInv, TypeOK, Owner, QueueWaiter, Move
  <1>m. MutualExclusion'
    BY <1>o DEF MutexInv, MutualExclusion, QueueWaiter
  <1>n. NoOvertaking'
    BY <1>1, <1>2 DEF MutexInv, TypeOK, NoOvertaking, QueueWaiter, Move
  <1>h. HandOffOK'
    BY <1>1, <1>3 DEF MutexInv, TypeOK, HandOffOK, QueueWaiter, Move
  <1> QED
    BY <1>t, <1>m, <1>n, <1>h DEF MutexInv

(* With nobody waiting, the owner frees the mutex.                         *)
LEMMA InvRelease ==
    ASSUME MutexInv, NEW c \in Coroutine, Release(c)
    PROVE  MutexInv'
  <1>t. TypeOK'
    BY Zenon, HomeAssumption, NoneAssumption
    DEF MutexInv, TypeOK, State, Release, Move, Suspend
  <1>1. Owner = {c} /\ \A d \in Coroutine : wake[d] # c
    BY NoneAssumption
    DEF MutexInv, TypeOK, MutualExclusion, HandOffOK, Owner, Release
  <1>o. Owner' = {}
    BY <1>1 DEF MutexInv, TypeOK, Owner, Release, Move
  <1>m. MutualExclusion'
    BY <1>o DEF MutualExclusion, Release
  <1>n. NoOvertaking'
    BY DEF MutexInv, TypeOK, NoOvertaking, Release, Move
  <1>h. HandOffOK'
    BY DEF MutexInv, TypeOK, HandOffOK, Release, Move
  <1> QED
    BY <1>t, <1>m, <1>n, <1>h DEF MutexInv

(* The first waiter becomes the owner in the moment it leaves the queue.   *)
LEMMA InvHandOff ==
    ASSUME MutexInv, NEW c \in Coroutine, HandOff(c)
    PROVE  MutexInv'
  <1> DEFINE h == waiters[1]
  <1>1. /\ waiters' \in Seq(Coroutine) /\ Len(waiters') = Len(waiters) - 1
        /\ Len(waiters) \in Nat \ {0} /\ Head(waiters) = h
        /\ h \in Coroutine
        /\ \A i \in 1..Len(waiters') : waiters'[i] = waiters[i + 1]
    BY TailElements DEF MutexInv, TypeOK, HandOff
  <1>2. wake' = [wake EXCEPT ![c] = h]
    BY <1>1 DEF HandOff
  <1>3. /\ state[h] = "queued" /\ state[c] = "unlock" /\ h # c
        /\ \A i \in 1..Len(waiters') : waiters'[i] # h
    BY <1>1 DEF MutexInv, NoOvertaking, HandOff
  <1> HIDE DEF h
  <1>4. Owner = {c} /\ \A d \in Coroutine : wake[d] # c
    <2>1. c \in Owner
      BY DEF Owner, HandOff
    <2>2. Owner = {c}
      BY <2>1 DEF MutexInv, MutualExclusion
    <2>3. \A d \in Coroutine : wake[d] # c
      BY <1>3, NoneAssumption DEF MutexInv, HandOffOK
    <2> QED
      BY <2>2, <2>3
  <1>5. \A d \in Coroutine : wake[d] = None
    BY <1>4 DEF MutexInv, TypeOK, Owner
  <1>t. TypeOK'
    BY <1>1, <1>2, HomeAssumption
    DEF MutexInv, TypeOK, State, HandOff, Move
  <1>o. Owner' = {h}
    BY <1>1, <1>2, <1>3, <1>4, <1>5, NoneAssumption
    DEF MutexInv, TypeOK, Owner, HandOff, Move
  <1>m. MutualExclusion'
    BY <1>o, <1>4 DEF MutexInv, MutualExclusion, HandOff
  <1>n. NoOvertaking'
    <2>1. held' = TRUE
      BY <1>4 DEF MutexInv, TypeOK, MutualExclusion, HandOff
    <2>2. \A i, j \in 1..Len(waiters') : waiters'[i] = waiters'[j] => i = j
      BY <1>1 DEF MutexInv, NoOvertaking
    <2>3. \A i \in 1..Len(waiters') : state'[waiters'[i]] = "queued"
      BY <1>1, <1>3 DEF MutexInv, TypeOK, NoOvertaking, HandOff, Move
    <2> QED
      BY <2>1, <2>2, <2>3 DEF NoOvertaking
  <1>h. HandOffOK'
    BY SMTT(30), <1>1, <1>2, <1>3, <1>5, NoneAssumption
    DEF MutexInv, TypeOK, HandOffOK, HandOff, Move
  <1> QED
    BY <1>t, <1>m, <1>n, <1>h DEF MutexInv

(* The new owner is made ready, or told by a message.                      *)
LEMMA InvWake ==
    ASSUME MutexInv, NEW c \in Coroutine, Wake(c)
    PROVE  MutexInv'
  <1> DEFINE t == wake[c]
             s == IF Home[t] = Home[c] THEN "ready" ELSE "posted"
  <1>1. /\ t \in Coroutine /\ t # c /\ state[t] = "queued"
        /\ state[c] = "wake"
        /\ \A i \in 1..Len(waiters) : waiters[i] # t
        /\ \A d \in Coroutine : wake[d] # None => d = c
    BY DEF MutexInv, TypeOK, HandOffOK, Wake
  <1>2. /\ state' = [state EXCEPT ![c] = "idle", ![t] = s]
        /\ wake' = [wake EXCEPT ![c] = None]
        /\ s \in {"ready", "posted"}
    BY DEF Wake
  <1>3. Owner = {t}
    BY <1>1 DEF MutexInv, MutualExclusion, Owner
  <1> HIDE DEF t, s
  <1>t. TypeOK'
    BY Zenon, <1>1, <1>2, HomeAssumption
    DEF MutexInv, TypeOK, State, Wake, Suspend
  <1>o. Owner' = {t}
    BY <1>1, <1>2, <1>3, NoneAssumption DEF MutexInv, TypeOK, Owner
  <1>m. MutualExclusion'
    BY SMTT(30), <1>o, <1>3 DEF MutexInv, MutualExclusion, Wake
  <1>n. NoOvertaking'
    BY SMTT(30), <1>1, <1>2 DEF MutexInv, TypeOK, NoOvertaking, Wake
  <1>h. HandOffOK'
    BY <1>1, <1>2 DEF MutexInv, TypeOK, HandOffOK, Wake
  <1> QED
    BY <1>t, <1>m, <1>n, <1>h DEF MutexInv

LEMMA MutexInvInit == Init => MutexInv
  <1> SUFFICES ASSUME Init PROVE MutexInv
    OBVIOUS
  <1>1. TypeOK
    <2>1. waiters \in Seq(Coroutine)
      BY DEF Init
    <2> QED
      BY Zenon, <2>1 DEF Init, TypeOK, State
  <1>2. Owner = {}
    BY NoneAssumption DEF Init, Owner
  <1>3. MutualExclusion
    BY <1>2 DEF Init, MutualExclusion
  <1>4. NoOvertaking /\ HandOffOK
    BY DEF Init, NoOvertaking, HandOffOK
  <1> QED
    BY <1>1, <1>3, <1>4 DEF MutexInv

LEMMA MutexInvNext == MutexInv /\ [Next]_vars => MutexInv'
  <1> SUFFICES ASSUME MutexInv, [Next]_vars PROVE MutexInv'
    OBVIOUS
  <1>1. CASE UNCHANGED vars
    BY <1>1 DEF vars, MutexInv, TypeOK, MutualExclusion, NoOvertaking,
                HandOffOK, Owner
  <1>2. ASSUME NEW c \in Coroutine,
               Lock(c) \/ LockQueue(c) \/ Step(c) \/ Schedule(c)
        PROVE  MutexInv'
    BY SMTT(30), <1>2, InvLock, InvLockQueue, InvAcquire, InvQueue, InvRelease,
       InvHandOff, InvWake, InvSynchronizeAcquisition, InvUnlock,
       InvResumeRemote, InvResume
    DEF Step, Schedule
  <1> QED
    BY <1>1, <1>2 DEF Next

(* However many coroutines of however many workers use a CrossWorkerMutex, *)
(* one owns it at a time, also while Unlock hands it over.                 *)
THEOREM MutexExcludes == Spec => []MutualExclusion
  <1>1. MutexInv => MutualExclusion
    BY DEF MutexInv
  <1> QED
    BY MutexInvInit, MutexInvNext, <1>1, PTL DEF Spec

(* The queue of a CrossWorkerMutex holds each suspended coroutine once, and*)
(* the mutex is never free while it holds one: nobody overtakes a waiter.  *)
THEOREM MutexIsFair == Spec => []NoOvertaking
  <1>1. MutexInv => NoOvertaking
    BY DEF MutexInv
  <1> QED
    BY MutexInvInit, MutexInvNext, <1>1, PTL DEF Spec
=============================================================================
