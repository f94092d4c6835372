----------------------------- MODULE FramePool ------------------------------
(***************************************************************************)
(* The pool of coroutine frames (runtime/coroutine_frame_pool.h), one per  *)
(* thread: a frame goes back to the pool of the thread that destroys it,   *)
(* which need not be the one that allocated it.                            *)
(***************************************************************************)
EXTENDS Naturals, Sequences, FiniteSets, FiniteSetsExt

CONSTANTS Thread, Block, Size,   \* threads; blocks of memory; sizes asked for
          kMinClassBytes, kClassCount, kMaxFramesPerClass, kMaxCachedBytes

VARIABLES free, count, cached,   \* free_, count_ and cached_bytes_ of each thread
          class,                 \* class_index_ of a block's header
          frame                  \* of a block that holds a frame its size, else 0

poolVars == <<free, count, cached, class, frame>>
Class == 0 .. kClassCount - 1

Init == /\ free = [t \in Thread |-> [k \in Class |-> << >>]]
        /\ count = [t \in Thread |-> [k \in Class |-> 0]]
        /\ cached = [t \in Thread |-> 0]
        /\ class = [b \in Block |-> 0] /\ frame = [b \in Block |-> 0]

bit_width(n) == Cardinality({k \in 0 .. n : 2^k <= n})
ClassBytes(k) == kMinClassBytes * 2^k

(* Mutant: the width of the size itself, one class too low at a power of   *)
(* two plus one.                                                           *)
ClassFloor(requested) ==
    IF requested <= kMinClassBytes THEN 0
    ELSE bit_width(requested) - bit_width(kMinClassBytes)

ClassIndex(requested) ==
    IF requested <= kMinClassBytes THEN 0
    ELSE bit_width(requested - 1) - bit_width(kMinClassBytes - 1)

Cached(b) == \E t \in Thread, k \in Class : \E i \in DOMAIN free[t][k] : free[t][k][i] = b
Unused == {b \in Block : frame[b] = 0 /\ ~Cached(b)}

Allocate(t, requested) ==
    LET k == ClassIndex(requested) IN
    \/ /\ k \in Class /\ free[t][k] # << >>
       /\ free' = [free EXCEPT ![t][k] = Tail(@)]
       /\ count' = [count EXCEPT ![t][k] = @ - 1]
       /\ cached' = [cached EXCEPT ![t] = @ - ClassBytes(k)]
       /\ class' = [class EXCEPT ![Head(free[t][k])] = k]
       /\ frame' = [frame EXCEPT ![Head(free[t][k])] = requested]
    \/ /\ k \in Class => free[t][k] = << >>
       /\ \E b \in Unused :   \* operator new
            /\ class' = [class EXCEPT ![b] = IF k \in Class THEN k ELSE kClassCount]
            /\ frame' = [frame EXCEPT ![b] = requested]
       /\ UNCHANGED <<free, count, cached>>

(* Release caches the block, or returns it when its class is not cached or *)
(* the pool is full.                                                       *)
Release(t, b) ==
    LET k == class[b] IN
    /\ frame[b] # 0
    /\ frame' = [frame EXCEPT ![b] = 0]
    /\ IF k \notin Class \/ count[t][k] >= kMaxFramesPerClass
          \/ cached[t] + ClassBytes(k) > kMaxCachedBytes
       THEN UNCHANGED <<free, count, cached>>
       ELSE /\ free' = [free EXCEPT ![t][k] = <<b>> \o @]
            /\ count' = [count EXCEPT ![t][k] = @ + 1]
            /\ cached' = [cached EXCEPT ![t] = @ + ClassBytes(k)]
    /\ UNCHANGED class

Next == \E t \in Thread : (\E s \in Size : Allocate(t, s)) \/ (\E b \in Block : Release(t, b))

(* A block is a frame or in one pool once, in the list of the class its    *)
(* memory was allocated for; a frame's memory is large enough for it; and  *)
(* a pool's counts are true and within its limits, also after frames have  *)
(* moved from one thread's pool to another's.                              *)
FramesFit ==
    /\ \A b \in Block :
         /\ Cardinality({<<t, k, i>> \in Thread \X Class \X (1 .. Cardinality(Block)) :
                           i \in DOMAIN free[t][k] /\ free[t][k][i] = b})
              <= IF frame[b] = 0 THEN 1 ELSE 0
         /\ frame[b] # 0 /\ class[b] \in Class => frame[b] <= ClassBytes(class[b])
    /\ \A t \in Thread :
         /\ \A k \in Class : /\ count[t][k] = Len(free[t][k])
                             /\ count[t][k] <= kMaxFramesPerClass
                             /\ \A i \in DOMAIN free[t][k] : class[free[t][k][i]] = k
         /\ cached[t] = MapThenSumSet(LAMBDA k : count[t][k] * ClassBytes(k), Class)
         /\ cached[t] <= kMaxCachedBytes
=============================================================================
