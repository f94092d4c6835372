-------------------------- MODULE ConnectionProofs --------------------------
(***************************************************************************)
(* The counts of a connection are exact, nothing refers to it once it is   *)
(* erased, and its receive follows its reader, for any number of provided  *)
(* buffers, receives and writes.                                           *)
(***************************************************************************)
EXTENDS Connection, FiniteSetTheorems, TLAPS

Op == {"recv", "poll", "send"}

Fields ==
    [state : {"active", "closing", "draining", "retired", "freed"},
     closed : BOOLEAN, retired : BOOLEAN, inflight : Nat, armed : BOOLEAN,
     rearm : BOOLEAN, paused : BOOLEAN, eof : BOOLEAN, error : BOOLEAN,
     received : Nat, waiter : BOOLEAN, sending : BOOLEAN, poll : BOOLEAN,
     pollCancel : BOOLEAN, borrows : 0..1, multishot : BOOLEAN]

Cqe == [op : Op, more : BOOLEAN,
        res : {"data", "eof", "error", "nobufs", "cancelled", "hup", "done"}]

TypeOK ==
    /\ c \in Fields
    /\ reader \in {"none", "waiting", "ready", "cancelling", "draining", "paused"}
    /\ writer \in {"none", "waiting", "ready"}
    /\ kernel \in [Op -> {"none", "flight", "cancelled"}]
    /\ cq \in Seq(Cqe) /\ free \in Nat
    /\ pc \in {"round", "poll", "callback"}

(* The connection remembers an operation until it has handled its last     *)
(* completion.                                                             *)
Pending(o) == (o = "recv" /\ c.armed) \/ (o = "poll" /\ c.poll)
                 \/ (o = "send" /\ c.sending)

(* Such an operation is in the kernel, or its last completion is queued,   *)
(* behind all the others.                                                  *)
LastQueued(o) == \E i \in 1..Len(cq) : cq[i].op = o /\ ~cq[i].more

OperationOK(o) ==
    /\ kernel[o] # "none" => Pending(o) /\ ~LastQueued(o)
    /\ Pending(o) => kernel[o] # "none" \/ LastQueued(o)
    /\ \A i \in 1..Len(cq) : cq[i].op = o => Pending(o)
    /\ \A i, j \in 1..Len(cq) :
          i < j /\ cq[i].op = o /\ cq[j].op = o => cq[i].more

(* What a completion says, by its operation.                               *)
CqeOK(e) ==
    /\ e.more => e.res = "data"
    /\ e.res = "data" => e.op = "recv"
    /\ e.res = "nobufs" => e.op = "recv" /\ c.multishot
    /\ e.op = "recv" => e.res \in {"data", "eof", "error", "nobufs", "cancelled"}
    /\ e.op = "recv" /\ e.res = "cancelled" => c.paused \/ c.closed

QueueOK == \A i \in 1..Len(cq) : CqeOK(cq[i])

B(b) == IF b THEN 1 ELSE 0

InflightOK == c.inflight = B(c.armed) + B(c.poll) + B(c.sending)

(* The stages of closing.                                                  *)
StageOK ==
    /\ c.state = "active" <=> ~c.closed
    /\ c.retired <=> c.closed
    /\ pc = "callback" => c.state = "active"
    /\ c.borrows = 0 => c.closed /\ reader \in {"none", "paused"} /\ writer = "none"
    /\ c.state = "freed" => /\ c.borrows = 0 /\ pc = "round"
                            /\ \A o \in Op : ~Pending(o)

(* The reader, the writer and the receive.                                 *)
ReaderOK ==
    /\ c.waiter <=> reader = "waiting"
    /\ c.sending <=> writer = "waiting"
    /\ c.waiter => ~c.closed /\ ~c.eof /\ (c.paused \/ c.armed \/ c.rearm)
    /\ c.rearm => pc # "round" /\ ~c.armed /\ c.multishot
    /\ reader \in {"cancelling", "draining", "paused"} => c.paused
    /\ reader = "paused" => ~c.armed /\ ~c.rearm /\ c.received = 0
    /\ kernel["recv"] = "cancelled" => c.paused \/ c.closed

(* The parts of the invariant that speak of the queue, and the others.     *)
QueueInv == QueueOK /\ (\A o \in Op : OperationOK(o)) /\ BuffersConserved

FieldInv == InflightOK /\ StageOK /\ ReaderOK

ConnectionInv == TypeOK /\ QueueInv /\ FieldInv

(* The positions of the data in a queue of completions.                    *)
DataIn(q) == {i \in 1..Len(q) : q[i].res = "data"}

-----------------------------------------------------------------------------
(* What Append and Tail do to the data in a queue.                         *)

LEMMA DataFinite ==
    ASSUME NEW q \in Seq(Cqe)
    PROVE  /\ IsFiniteSet(DataIn(q)) /\ Cardinality(DataIn(q)) \in Nat
           /\ DataIn(q) = {} <=> Cardinality(DataIn(q)) = 0
<1>1. IsFiniteSet(1..Len(q))
  BY FS_Interval
<1>2. IsFiniteSet(DataIn(q))
  BY Zenon, <1>1, FS_Subset DEF DataIn
<1> QED BY Zenon, <1>2, FS_CardinalityType, FS_EmptySet

LEMMA DataAppended ==
    ASSUME NEW q \in Seq(Cqe), NEW e \in Cqe
    PROVE  Cardinality(DataIn(Append(q, e))) =
              Cardinality(DataIn(q)) + B(e.res = "data")
<1> DEFINE n == Len(q)
<1>1. n \in Nat /\ Len(Append(q, e)) = n + 1 /\ Append(q, e)[n + 1] = e
  OBVIOUS
<1>2. \A i \in 1..n : Append(q, e)[i] = q[i]
  OBVIOUS
<1>3. CASE e.res = "data"
  <2>1. DataIn(Append(q, e)) = DataIn(q) \cup {n + 1}
    BY <1>1, <1>2, <1>3 DEF DataIn
  <2>2. n + 1 \notin DataIn(q)
    BY <1>1 DEF DataIn
  <2>3. Cardinality(DataIn(q) \cup {n + 1}) = Cardinality(DataIn(q)) + 1
    BY ZenonT(40), <2>2, DataFinite, FS_AddElement
  <2> QED BY Zenon, <1>3, <2>1, <2>3 DEF B
<1>4. CASE e.res # "data"
  <2>1. DataIn(Append(q, e)) = DataIn(q)
    BY <1>1, <1>2, <1>4 DEF DataIn
  <2> QED BY <1>4, <2>1, DataFinite DEF B
<1> QED BY Zenon, <1>3, <1>4

LEMMA DataTaken ==
    ASSUME NEW q \in Seq(Cqe), q # <<>>
    PROVE  Cardinality(DataIn(q)) =
              Cardinality(DataIn(Tail(q))) + B(Head(q).res = "data")
<1> DEFINE S == DataIn(Tail(q))
           T == DataIn(q) \ {1}
           f == [i \in S |-> i + 1]
<1>1. /\ Tail(q) \in Seq(Cqe) /\ Len(q) \in Nat /\ Len(q) >= 1
      /\ Len(Tail(q)) = Len(q) - 1 /\ Head(q) = q[1]
  OBVIOUS
<1>2. \A i \in 1..Len(Tail(q)) : Tail(q)[i] = q[i + 1]
  OBVIOUS
<1>3. f \in Bijection(S, T)
  <2>1. S \subseteq Nat /\ T \subseteq Nat
    BY DEF DataIn
  <2>2. \A i \in S : i + 1 \in T
    BY <1>1, <1>2 DEF DataIn
  <2>3. \A j \in T : j - 1 \in S /\ (j - 1) + 1 = j
    BY <1>1, <1>2 DEF DataIn
  <2>4. \A i, j \in S : i + 1 = j + 1 => i = j
    BY <2>1
  <2> HIDE DEF S, T
  <2>5. f \in [S -> T] /\ \A i \in S : f[i] = i + 1
    BY Zenon, <2>2
  <2> QED BY Zenon, <2>3, <2>4, <2>5 DEF Bijection, Injection, IsInjective, Surjection
<1>4. Cardinality(T) = Cardinality(S)
  <2>1. ExistsBijection(S, T)
    BY Zenon, <1>3 DEF ExistsBijection
  <2> QED BY Zenon, <1>1, <2>1, DataFinite, FS_Bijection
<1>5. \A P, x : IsFiniteSet(P) =>
          Cardinality(P \ {x}) = IF x \in P THEN Cardinality(P) - 1 ELSE Cardinality(P)
  BY Zenon, FS_RemoveElement
<1>6. 1 \in DataIn(q) <=> Head(q).res = "data"
  BY <1>1 DEF DataIn
<1>7. Cardinality(T) = IF 1 \in DataIn(q) THEN Cardinality(DataIn(q)) - 1
                       ELSE Cardinality(DataIn(q))
  BY Zenon, <1>5, DataFinite
<1>8. Cardinality(DataIn(q)) \in Nat /\ Cardinality(S) \in Nat
  BY Zenon, <1>1, DataFinite
<1> QED BY <1>4, <1>6, <1>7, <1>8 DEF B

-----------------------------------------------------------------------------
(* What becomes of an operation when it is left alone, is submitted, posts *)
(* a completion, or has one handled.                                       *)

LEMMA OperationKept ==
    ASSUME NEW o \in Op, OperationOK(o), cq' = cq,
           kernel'[o] = "none" <=> kernel[o] = "none", Pending(o)' <=> Pending(o)
    PROVE  OperationOK(o)'
<1>1. LastQueued(o)' <=> LastQueued(o)
  BY Zenon DEF LastQueued
<1>2. /\ kernel'[o] # "none" => Pending(o)' /\ ~LastQueued(o)'
      /\ Pending(o)' => kernel'[o] # "none" \/ LastQueued(o)'
  BY Zenon, <1>1 DEF OperationOK
<1>3. \A i \in 1..Len(cq') : cq'[i].op = o => Pending(o)'
  BY Zenon DEF OperationOK
<1>4. \A i, j \in 1..Len(cq') :
         i < j /\ cq'[i].op = o /\ cq'[j].op = o => cq'[i].more
  BY Zenon DEF OperationOK
<1> QED BY Zenon, <1>2, <1>3, <1>4 DEF OperationOK

LEMMA OperationStarted ==
    ASSUME NEW o \in Op, OperationOK(o), cq' = cq, ~Pending(o),
           kernel'[o] # "none", Pending(o)'
    PROVE  OperationOK(o)'
<1>1. \A i \in 1..Len(cq') : cq'[i].op # o
  BY Zenon DEF OperationOK
<1>2. ~LastQueued(o)'
  BY Zenon, <1>1 DEF LastQueued
<1> QED BY Zenon, <1>1, <1>2 DEF OperationOK

LEMMA OperationPosted ==
    ASSUME TypeOK, NEW o \in Op, NEW p \in Op, NEW e \in Cqe, e.op = o,
           kernel[o] # "none", OperationOK(p), cq' = Append(cq, e),
           kernel' = IF e.more THEN kernel ELSE [kernel EXCEPT ![o] = "none"],
           Pending(p)' <=> Pending(p)
    PROVE  OperationOK(p)'
<1> DEFINE n == Len(cq)
<1>1. n \in Nat /\ Len(cq') = n + 1 /\ cq'[n + 1] = e
  BY DEF TypeOK
<1>2. \A i \in 1..n : cq'[i] = cq[i]
  BY DEF TypeOK
<1>3. kernel \in [Op -> {"none", "flight", "cancelled"}]
  BY Zenon DEF TypeOK
<1>4. CASE p # o
  <2>1. kernel'[p] = kernel[p]
    BY Zenon, <1>3, <1>4
  <2>2. LastQueued(p)' <=> LastQueued(p)
    BY <1>1, <1>2, <1>4 DEF LastQueued
  <2>3. /\ kernel'[p] # "none" => Pending(p)' /\ ~LastQueued(p)'
        /\ Pending(p)' => kernel'[p] # "none" \/ LastQueued(p)'
    BY Zenon, <2>1, <2>2 DEF OperationOK
  <2>4. \A i \in 1..Len(cq') : cq'[i].op = p => Pending(p)'
    BY <1>1, <1>2, <1>4 DEF OperationOK
  <2>5. \A i, j \in 1..Len(cq') :
           i < j /\ cq'[i].op = p /\ cq'[j].op = p => cq'[i].more
    BY <1>1, <1>2, <1>4 DEF OperationOK
  <2> QED BY Zenon, <2>3, <2>4, <2>5 DEF OperationOK
<1>5. CASE p = o
  <2>1. Pending(p) /\ \A i \in 1..n : cq[i].op = p => cq[i].more
    BY Zenon, <1>5 DEF OperationOK, LastQueued
  <2>2. kernel'[p] = "none" <=> ~e.more
    BY Zenon, <1>3, <1>5
  <2>3. LastQueued(p)' <=> ~e.more
    BY <1>1, <1>2, <1>5, <2>1 DEF LastQueued
  <2>4. \A i, j \in 1..Len(cq') :
           i < j /\ cq'[i].op = p /\ cq'[j].op = p => cq'[i].more
    BY <1>1, <1>2, <2>1
  <2> QED BY Zenon, <2>1, <2>2, <2>3, <2>4 DEF OperationOK
<1> QED BY Zenon, <1>4, <1>5

LEMMA OperationHandled ==
    ASSUME TypeOK, NEW p \in Op, OperationOK(p), cq # <<>>, cq' = Tail(cq),
           kernel' = kernel,
           Pending(p)' <=> Pending(p) /\ (Head(cq).op = p => Head(cq).more)
    PROVE  OperationOK(p)'
<1> DEFINE n == Len(cq)
           e == Head(cq)
<1>1. n \in Nat \ {0} /\ Len(cq') = n - 1 /\ cq[1] = e
  BY DEF TypeOK
<1>2. \A i \in 1..Len(cq') : cq'[i] = cq[i + 1]
  BY DEF TypeOK
<1>3. \A i, j \in 1..Len(cq') :
         i < j /\ cq'[i].op = p /\ cq'[j].op = p => cq'[i].more
  BY <1>1, <1>2 DEF OperationOK
<1>4. CASE e.op = p /\ ~e.more
  <2>1. kernel[p] = "none"
    BY <1>1, <1>4 DEF OperationOK, LastQueued
  <2>2. \A i \in 1..Len(cq') : cq'[i].op # p
    BY <1>1, <1>2, <1>4 DEF OperationOK
  <2>3. ~Pending(p)'
    BY Zenon, <1>4
  <2> QED BY Zenon, <1>3, <2>1, <2>2, <2>3 DEF OperationOK, LastQueued
<1>5. CASE e.op = p => e.more
  <2>1. LastQueued(p)' <=> LastQueued(p)
    <3>1. LastQueued(p)' => LastQueued(p)
      BY <1>1, <1>2 DEF LastQueued
    <3>2. ASSUME NEW i \in 1..n, cq[i].op = p, ~cq[i].more PROVE LastQueued(p)'
      <4>1. i # 1 /\ i - 1 \in 1..Len(cq') /\ cq'[i - 1] = cq[i]
        BY <1>1, <1>2, <1>5, <3>2
      <4> QED BY Zenon, <3>2, <4>1 DEF LastQueued
    <3> QED BY Zenon, <3>1, <3>2 DEF LastQueued
  <2>2. Pending(p)' <=> Pending(p)
    BY Zenon, <1>5
  <2>3. /\ kernel'[p] # "none" => Pending(p)' /\ ~LastQueued(p)'
        /\ Pending(p)' => kernel'[p] # "none" \/ LastQueued(p)'
    BY Zenon, <2>1, <2>2 DEF OperationOK
  <2>4. \A i \in 1..Len(cq') : cq'[i].op = p => Pending(p)'
    BY <1>1, <1>2, <2>2 DEF OperationOK
  <2> QED BY Zenon, <1>3, <2>3, <2>4 DEF OperationOK
<1> QED BY Zenon, <1>4, <1>5

-----------------------------------------------------------------------------
(* How the steps change the queue, the kernel and the buffers.             *)

(* The buffers that hold data, and those that a receive may still fill.    *)
Balanced(multishot, fr, received, data, idle) ==
    IF multishot THEN fr + (received + data) = Buffers
    ELSE fr = Buffers /\ (received + data) + (IF idle THEN 0 ELSE 1) <= 1

LEMMA BuffersBalanced ==
    BuffersConserved <=>
        Balanced(c.multishot, free, c.received, Cardinality(DataIn(cq)),
                 kernel["recv"] = "none")
  BY Zenon DEF BuffersConserved, Balanced, DataCompletions, DataIn

LEMMA BuffersBalancedNext ==
    BuffersConserved' <=>
        Balanced(c'.multishot, free', c'.received, Cardinality(DataIn(cq')),
                 kernel'["recv"] = "none")
  BY Zenon DEF BuffersConserved, Balanced, DataCompletions, DataIn

(* Without a receive there are no completions of one.                      *)
LEMMA NothingReceived ==
    ASSUME TypeOK, QueueInv, ~c.armed
    PROVE  /\ \A i \in 1..Len(cq) : cq[i].op # "recv"
           /\ Cardinality(DataIn(cq)) = 0 /\ kernel["recv"] = "none"
<1>1. "recv" \in Op /\ ~Pending("recv")
  BY Zenon DEF Op, Pending
<1>2. OperationOK("recv") /\ QueueOK
  BY Zenon, <1>1 DEF QueueInv
<1>3. kernel["recv"] = "none" /\ \A i \in 1..Len(cq) : cq[i].op # "recv"
  BY Zenon, <1>1, <1>2 DEF OperationOK
<1>4. DataIn(cq) = {}
  BY Zenon, <1>2, <1>3 DEF DataIn, QueueOK, CqeOK
<1>5. cq \in Seq(Cqe)
  BY Zenon DEF TypeOK
<1>6. Cardinality(DataIn(cq)) = 0
  BY Zenon, <1>4, <1>5, DataFinite
<1> QED BY Zenon, <1>3, <1>6

LEMMA CompletionsKept ==
    ASSUME QueueOK, cq' = cq, c'.multishot = c.multishot, c.paused => c'.paused,
           c.closed => c'.closed
    PROVE  QueueOK'
  BY Zenon DEF QueueOK, CqeOK

LEMMA QueueKept ==
    ASSUME TypeOK, TypeOK', QueueInv, cq' = cq, c'.multishot = c.multishot,
           c.paused => c'.paused, c.closed => c'.closed,
           \A o \in Op : kernel'[o] = "none" <=> kernel[o] = "none",
           \A o \in Op : Pending(o)' <=> Pending(o),
           c.multishot => free' + c'.received = free + c.received,
           ~c.multishot => free' = free /\ c'.received <= c.received
    PROVE  QueueInv'
<1>1. QueueOK'
  BY Zenon, CompletionsKept DEF QueueInv
<1>2. \A o \in Op : OperationOK(o)'
  BY Zenon, OperationKept DEF QueueInv
<1>3. BuffersConserved'
  <2>1. "recv" \in Op /\ cq \in Seq(Cqe)
    BY Zenon DEF Op, TypeOK
  <2>2. Cardinality(DataIn(cq)) \in Nat
    BY Zenon, <2>1, DataFinite
  <2>3. c.received \in Nat /\ c'.received \in Nat /\ free \in Nat /\ free' \in Nat
    BY Zenon DEF TypeOK, Fields
  <2>4. Balanced(c.multishot, free, c.received, Cardinality(DataIn(cq)),
                 kernel["recv"] = "none")
    BY Zenon, BuffersBalanced DEF QueueInv
  <2>5. Balanced(c'.multishot, free', c'.received, Cardinality(DataIn(cq')),
                 kernel'["recv"] = "none")
    <3>1. kernel'["recv"] = "none" <=> kernel["recv"] = "none"
      BY Zenon, <2>1
    <3>2. Cardinality(DataIn(cq')) = Cardinality(DataIn(cq))
      BY Zenon
    <3>3. CASE c.multishot
      BY <2>2, <2>3, <2>4, <3>2, <3>3 DEF Balanced
    <3>4. CASE ~c.multishot
      BY <2>2, <2>3, <2>4, <3>1, <3>2, <3>4 DEF Balanced
    <3> QED BY Zenon, <3>3, <3>4
  <2> QED BY Zenon, <2>5, BuffersBalancedNext
<1> QED BY Zenon, <1>1, <1>2, <1>3 DEF QueueInv

LEMMA QueueStarted ==
    ASSUME TypeOK, TypeOK', QueueInv, NEW o \in Op, cq' = cq, free' = free,
           c'.multishot = c.multishot, c'.received = c.received,
           c'.paused = c.paused, c'.closed = c.closed,
           kernel' = [kernel EXCEPT ![o] = "flight"], ~Pending(o), Pending(o)',
           \A p \in Op \ {o} : Pending(p)' <=> Pending(p),
           o = "recv" => c.multishot \/ c.received = 0
    PROVE  QueueInv'
<1>1. QueueOK'
  BY Zenon, CompletionsKept DEF QueueInv
<1>2. /\ kernel'[o] # "none"
      /\ \A p \in Op \ {o} : kernel'[p] = kernel[p]
  BY Zenon DEF TypeOK
<1>3. \A p \in Op : OperationOK(p)'
  <2> TAKE p \in Op
  <2>1. OperationOK(p)
    BY Zenon DEF QueueInv
  <2>2. CASE p = o
    BY Zenon, <1>2, <2>1, <2>2, OperationStarted
  <2>3. CASE p # o
    <3>1. kernel'[p] = "none" <=> kernel[p] = "none"
      BY Zenon, <1>2, <2>3
    <3>2. Pending(p)' <=> Pending(p)
      BY Zenon, <2>3
    <3> QED BY Zenon, <2>1, <3>1, <3>2, OperationKept
  <2> QED BY Zenon, <2>2, <2>3
<1>4. BuffersConserved'
  <2>1. Balanced(c.multishot, free, c.received, Cardinality(DataIn(cq)),
                 kernel["recv"] = "none")
    BY Zenon, BuffersBalanced DEF QueueInv
  <2>2. CASE o = "recv"
    <3>1. ~c.armed
      BY Zenon, <2>2 DEF Pending
    <3>2. Cardinality(DataIn(cq)) = 0
      BY Zenon, <3>1, NothingReceived
    <3>3. c.received \in Nat
      BY Zenon DEF TypeOK, Fields
    <3>4. Balanced(c'.multishot, free', c'.received, Cardinality(DataIn(cq')),
                   kernel'["recv"] = "none")
      BY <2>1, <2>2, <3>2, <3>3 DEF Balanced
    <3> QED BY Zenon, <3>4, BuffersBalancedNext
  <2>3. CASE o # "recv"
    <3>1. kernel'["recv"] = kernel["recv"]
      BY Zenon, <1>2, <2>3 DEF Op
    <3>2. Balanced(c'.multishot, free', c'.received, Cardinality(DataIn(cq')),
                   kernel'["recv"] = "none")
      BY Zenon, <2>1, <3>1 DEF Balanced
    <3> QED BY Zenon, <3>2, BuffersBalancedNext
  <2> QED BY Zenon, <2>2, <2>3
<1> QED BY Zenon, <1>1, <1>3, <1>4 DEF QueueInv

(* A free buffer that is filled is held.                                   *)
LEMMA BufferTaken ==
    ASSUME NEW f \in Nat, NEW r \in Nat, NEW d \in Nat
    PROVE  (f - 1) + (r + (d + 1)) = f + (r + d)
  OBVIOUS

LEMMA QueuePosted ==
    ASSUME TypeOK, TypeOK', QueueInv, NEW o \in Op, NEW e \in Cqe, e.op = o,
           CqeOK(e), e.more => c.multishot, kernel[o] # "none", c' = c,
           cq' = Append(cq, e),
           kernel' = IF e.more THEN kernel ELSE [kernel EXCEPT ![o] = "none"],
           free' = IF c.multishot /\ e.res = "data" THEN free - 1 ELSE free
    PROVE  QueueInv'
<1>0. cq \in Seq(Cqe)
  BY Zenon DEF TypeOK
<1>1. QueueOK'
  <2>1. \A i \in 1..Len(cq) : CqeOK(cq[i])
    BY Zenon DEF QueueInv, QueueOK
  <2>2. \A x : CqeOK(x)' <=> CqeOK(x)
    BY Zenon DEF CqeOK
  <2>3. \A i \in 1..Len(cq') : cq'[i] = e \/ \E j \in 1..Len(cq) : cq'[i] = cq[j]
    BY <1>0
  <2>4. \A i \in 1..Len(cq') : CqeOK(cq'[i])
    BY Zenon, <2>1, <2>3
  <2> QED BY Zenon, <2>2, <2>4 DEF QueueOK, CqeOK
<1>2. \A p \in Op : OperationOK(p)'
  <2>1. \A p \in Op : Pending(p)' <=> Pending(p)
    BY Zenon DEF Pending
  <2> QED BY Zenon, <2>1, OperationPosted DEF QueueInv
<1>3. BuffersConserved'
  <2>1. Balanced(c.multishot, free, c.received, Cardinality(DataIn(cq)),
                 kernel["recv"] = "none")
    BY Zenon, BuffersBalanced DEF QueueInv
  <2>2. Cardinality(DataIn(cq)) \in Nat
    BY Zenon, <1>0, DataFinite
  <2>3. Cardinality(DataIn(cq')) = Cardinality(DataIn(cq)) + B(e.res = "data")
    BY Zenon, <1>0, DataAppended
  <2>4. c.received \in Nat /\ free \in Nat
    BY Zenon DEF TypeOK, Fields
  <2>5. /\ o # "recv" => kernel'["recv"] = kernel["recv"]
        /\ o = "recv" /\ ~e.more => kernel'["recv"] = "none"
    BY Zenon DEF TypeOK, Op
  <2>6. /\ e.res = "data" => o = "recv"
        /\ e.more => e.res = "data"
    BY Zenon DEF CqeOK
  <2>7. Balanced(c'.multishot, free', c'.received, Cardinality(DataIn(cq')),
                 kernel'["recv"] = "none")
    <3>1. CASE c.multishot
      <4>1. free + (c.received + Cardinality(DataIn(cq))) = Buffers
        BY Zenon, <2>1, <3>1 DEF Balanced
      <4>2. free' + (c.received + Cardinality(DataIn(cq'))) = Buffers
        <5>1. CASE e.res = "data"
          <6>1. free' = free - 1 /\ Cardinality(DataIn(cq')) = Cardinality(DataIn(cq)) + 1
            BY Zenon, <2>3, <3>1, <5>1 DEF B
          <6>2. (free - 1) + (c.received + (Cardinality(DataIn(cq)) + 1)) =
                   free + (c.received + Cardinality(DataIn(cq)))
            BY Zenon, <2>2, <2>4, BufferTaken
          <6> QED BY Zenon, <4>1, <6>1, <6>2
        <5>2. CASE e.res # "data"
          <6>1. free' = free /\ Cardinality(DataIn(cq')) = Cardinality(DataIn(cq))
            BY <2>2, <2>3, <3>1, <5>2 DEF B
          <6> QED BY Zenon, <4>1, <6>1
        <5> QED BY Zenon, <5>1, <5>2
      <4> QED BY Zenon, <3>1, <4>2 DEF Balanced
    <3>2. CASE ~c.multishot
      BY <2>1, <2>2, <2>3, <2>4, <2>5, <2>6, <3>2 DEF Balanced, B
    <3> QED BY Zenon, <3>1, <3>2
  <2> QED BY Zenon, <2>7, BuffersBalancedNext
<1> QED BY Zenon, <1>1, <1>2, <1>3 DEF QueueInv

LEMMA QueueHandled ==
    ASSUME TypeOK, TypeOK', QueueInv, cq # <<>>, cq' = Tail(cq), kernel' = kernel,
           free' = free, c'.multishot = c.multishot, c'.paused = c.paused,
           c'.closed = c.closed,
           c'.received = c.received + B(Head(cq).res = "data"),
           \A p \in Op :
              Pending(p)' <=> Pending(p) /\ (Head(cq).op = p => Head(cq).more)
    PROVE  QueueInv'
<1>0. cq \in Seq(Cqe)
  BY Zenon DEF TypeOK
<1>1. QueueOK'
  <2>1. \A i \in 1..Len(cq) : CqeOK(cq[i])
    BY Zenon DEF QueueInv, QueueOK
  <2>2. \A i \in 1..Len(cq') : \E j \in 1..Len(cq) : cq'[i] = cq[j]
    BY <1>0
  <2>3. \A i \in 1..Len(cq') : CqeOK(cq'[i])
    BY Zenon, <2>1, <2>2
  <2> QED BY Zenon, <2>3 DEF QueueOK, CqeOK
<1>2. \A p \in Op : OperationOK(p)'
  BY Zenon, OperationHandled DEF QueueInv
<1>3. BuffersConserved'
  <2>1. Balanced(c.multishot, free, c.received, Cardinality(DataIn(cq)),
                 kernel["recv"] = "none")
    BY Zenon, BuffersBalanced DEF QueueInv
  <2>2. Cardinality(DataIn(cq)) = Cardinality(DataIn(cq')) + B(Head(cq).res = "data")
    BY Zenon, <1>0, DataTaken
  <2>3. Cardinality(DataIn(cq')) \in Nat
    <3>1. cq' \in Seq(Cqe)
      BY Zenon DEF TypeOK
    <3> QED BY Zenon, <3>1, DataFinite
  <2>4. c.received \in Nat /\ free \in Nat
    BY Zenon DEF TypeOK, Fields
  <2>5. Balanced(c'.multishot, free', c'.received, Cardinality(DataIn(cq')),
                 kernel'["recv"] = "none")
    <3>1. c'.received + Cardinality(DataIn(cq')) =
             c.received + Cardinality(DataIn(cq))
      BY <2>2, <2>3, <2>4 DEF B
    <3> QED BY Zenon, <2>1, <3>1 DEF Balanced
  <2> QED BY Zenon, <2>5, BuffersBalancedNext
<1> QED BY Zenon, <1>1, <1>2, <1>3 DEF QueueInv

-----------------------------------------------------------------------------
(* The steps of the session.                                               *)

LEMMA InvSetReadAhead ==
    ASSUME ConnectionInv, SetReadAhead
    PROVE  ConnectionInv'
<1>0. TypeOK /\ QueueInv /\ FieldInv
  BY Zenon DEF ConnectionInv
<1>1. PICK enabled \in BOOLEAN : c' = [c EXCEPT !.multishot = enabled]
  BY Zenon DEF SetReadAhead
<1>2. c' \in Fields
  BY Zenon, <1>0, <1>1 DEF TypeOK, Fields
<1>3. TypeOK'
  BY Zenon, <1>0, <1>2 DEF SetReadAhead, TypeOK
<1>4. FieldInv'
  BY Zenon, <1>0, <1>1 DEF SetReadAhead, InSession, TypeOK, FieldInv, InflightOK, StageOK,
     ReaderOK, Fields, Pending, B
<1>5. ~c.armed /\ cq' = cq /\ kernel' = kernel /\ free' = free /\ c.received = 0
  BY Zenon DEF SetReadAhead
<1>6. /\ \A i \in 1..Len(cq) : cq[i].op # "recv"
      /\ Cardinality(DataIn(cq)) = 0 /\ kernel["recv"] = "none"
  BY Zenon, <1>0, <1>5, NothingReceived
<1>7. /\ c'.received = 0 /\ c'.paused = c.paused /\ c'.closed = c.closed
      /\ \A o \in Op : Pending(o)' <=> Pending(o)
  BY Zenon, <1>0, <1>1, <1>5 DEF TypeOK, Fields, Pending
<1>8. QueueOK'
  BY Zenon, <1>0, <1>5, <1>6, <1>7 DEF QueueInv, QueueOK, CqeOK
<1>9. \A o \in Op : OperationOK(o)'
  BY Zenon, <1>0, <1>5, <1>7, OperationKept DEF QueueInv
<1>10. BuffersConserved'
  <2>1. Balanced(c.multishot, free, c.received, Cardinality(DataIn(cq)),
                 kernel["recv"] = "none")
    BY Zenon, <1>0, BuffersBalanced DEF QueueInv
  <2>2. free \in Nat
    BY Zenon, <1>0 DEF TypeOK
  <2>3. Balanced(c'.multishot, free', c'.received, Cardinality(DataIn(cq')),
                 kernel'["recv"] = "none")
    BY <1>5, <1>6, <1>7, <2>1, <2>2 DEF Balanced
  <2> QED BY Zenon, <2>3, BuffersBalancedNext
<1> QED BY Zenon, <1>3, <1>4, <1>8, <1>9, <1>10 DEF ConnectionInv, QueueInv

(* await_resume takes what was received out of the connection.             *)
LEMMA InvTakeReceived ==
    ASSUME ConnectionInv, TakeReceived, pc = "round", pc' = pc,
           UNCHANGED <<writer, kernel, cq>>,
           reader \in {"none", "ready"}, reader' = "none"
    PROVE  ConnectionInv'
<1>0. TypeOK /\ QueueInv /\ FieldInv
  BY Zenon DEF ConnectionInv
<1>1. PICK n \in 0..c.received :
         \/ c' = [c EXCEPT !.error = FALSE] /\ free' = free /\ n = 0
         \/ c' = [c EXCEPT !.received = @ - n] /\ free' = Recycle(n)
  BY <1>0 DEF TakeReceived, TypeOK, Fields
<1>2. c.received \in Nat /\ c.received - n \in Nat /\ n \in Nat
  BY <1>0 DEF TypeOK, Fields
<1>3. /\ c' \in Fields /\ free' \in Nat
      /\ c'.multishot = c.multishot /\ c'.paused = c.paused /\ c'.closed = c.closed
      /\ \A o \in Op : Pending(o)' <=> Pending(o)
      /\ c.multishot => free' + c'.received = free + c.received
      /\ ~c.multishot => free' = free /\ c'.received <= c.received
  <2>1. CASE c' = [c EXCEPT !.error = FALSE] /\ free' = free /\ n = 0
    <3>1. c' \in Fields
      BY ZenonT(40), <1>0, <2>1 DEF TypeOK, Fields
    <3>2. \A o \in Op : Pending(o)' <=> Pending(o)
      BY <1>0, <2>1 DEF TypeOK, Fields, Pending
    <3> QED BY SMTT(30), <1>0, <1>2, <2>1, <3>1, <3>2 DEF TypeOK, Fields
  <2>2. CASE c' = [c EXCEPT !.received = @ - n] /\ free' = Recycle(n)
    <3>1. c' \in Fields
      BY ZenonT(40), <1>0, <1>2, <2>2 DEF TypeOK, Fields
    <3>2. \A o \in Op : Pending(o)' <=> Pending(o)
      BY <1>0, <2>2 DEF TypeOK, Fields, Pending
    <3> QED BY SMTT(30), <1>0, <1>2, <2>2, <3>1, <3>2 DEF TypeOK, Fields, Recycle
  <2> QED BY Zenon, <1>1, <2>1, <2>2
<1>4. TypeOK'
  BY <1>0, <1>3 DEF TypeOK
<1>5. FieldInv'
  BY SMTT(30), <1>0, <1>1 DEF TypeOK, FieldInv, InflightOK, StageOK, ReaderOK, Fields,
     Pending, B
<1>7. QueueInv'
  BY Zenon, <1>0, <1>3, <1>4, QueueKept
<1> QED BY Zenon, <1>4, <1>5, <1>7 DEF ConnectionInv

LEMMA InvRead ==
    ASSUME ConnectionInv, ReadNow \/ ReadResume
    PROVE  ConnectionInv'
<1>1. /\ TakeReceived /\ pc = "round" /\ pc' = pc /\ UNCHANGED <<writer, kernel, cq>>
      /\ reader \in {"none", "ready"} /\ reader' = "none"
  BY Zenon DEF ReadNow, ReadResume, InSession
<1> QED BY Zenon, <1>1, InvTakeReceived

(* StartRecvMultishot, inside a step that changes nothing else but the     *)
(* waiter, or the rearm flag.                                              *)
LEMMA ArmFields ==
    ASSUME NEW k \in Fields, CanArm(k)
    PROVE  /\ Arm(k) \in Fields
           /\ Arm(k) = [k EXCEPT !.armed = TRUE, !.inflight = @ + 1]
<1>1. k.inflight + 1 \in Nat
  BY DEF Fields
<1>2. Arm(k) = [k EXCEPT !.armed = TRUE, !.inflight = @ + 1]
  BY Zenon DEF Arm
<1>3. [k EXCEPT !.armed = TRUE, !.inflight = @ + 1] \in Fields
  BY Zenon, <1>1 DEF Fields
<1> QED BY Zenon, <1>2, <1>3

LEMMA InvReadWait ==
    ASSUME ConnectionInv, ReadWait
    PROVE  ConnectionInv'
<1>0. TypeOK /\ QueueInv /\ FieldInv /\ c \in Fields
  BY Zenon DEF ConnectionInv, TypeOK
<1>1. CASE CanArm(c)
  <2>1. Arm(c) \in Fields /\ Arm(c) = [c EXCEPT !.armed = TRUE, !.inflight = @ + 1]
    BY Zenon, <1>0, <1>1, ArmFields
  <2>2. c' = [Arm(c) EXCEPT !.waiter = TRUE]
    BY Zenon DEF ReadWait
  <2>3. c' \in Fields
    BY Zenon, <2>1, <2>2 DEF Fields
  <2>4. c' = [c EXCEPT !.armed = TRUE, !.inflight = @ + 1, !.waiter = TRUE]
    BY Zenon, <1>0, <2>1, <2>2 DEF Fields
  <2>5. kernel' = [kernel EXCEPT !["recv"] = "flight"]
    BY Zenon, <1>1 DEF ReadWait, ArmKernel
  <2>6. TypeOK'
    BY ZenonT(40), <1>0, <2>3, <2>5 DEF ReadWait, TypeOK, Op
  <2>a. /\ pc = "round" /\ pc' = pc /\ reader = "none" /\ reader' = "waiting"
        /\ writer' = writer /\ cq' = cq /\ free' = free /\ c.state = "active"
        /\ c.borrows = 1 /\ ~c.eof
    BY Zenon DEF ReadWait, InSession
  <2>7. FieldInv'
    BY <1>0, <1>1, <2>4, <2>5, <2>a DEF CanArm, TypeOK, FieldInv,
       InflightOK, StageOK, ReaderOK, Fields, Pending, B, Op
  <2>8. QueueInv'
    <3>1. /\ "recv" \in Op /\ cq' = cq /\ free' = free /\ c'.multishot = c.multishot
          /\ c'.received = c.received /\ c'.paused = c.paused /\ c'.closed = c.closed
      BY Zenon, <1>0, <2>4, <2>a DEF Op, Fields
    <3>2. /\ ~Pending("recv") /\ Pending("recv")'
          /\ \A p \in Op \ {"recv"} : Pending(p)' <=> Pending(p)
          /\ c.multishot \/ c.received = 0
      BY Zenon, <1>0, <1>1, <2>4 DEF CanArm, Pending, Fields
    <3> QED BY Zenon, <1>0, <2>5, <2>6, <3>1, <3>2, QueueStarted
  <2> QED BY Zenon, <2>6, <2>7, <2>8 DEF ConnectionInv
<1>2. CASE ~CanArm(c)
  <2>1. c' = [c EXCEPT !.waiter = TRUE] /\ kernel' = kernel
    BY Zenon, <1>2 DEF ReadWait, Arm, ArmKernel
  <2>2. c' \in Fields
    BY Zenon, <1>0, <2>1 DEF Fields
  <2>3. TypeOK'
    BY Zenon, <1>0, <2>1, <2>2 DEF ReadWait, TypeOK
  <2>4. FieldInv'
    BY <1>0, <1>2, <2>1 DEF ReadWait, InSession, CanArm, TypeOK, FieldInv,
       InflightOK, StageOK, ReaderOK, Fields, Pending, B, Op
  <2>5. /\ cq' = cq /\ c'.multishot = c.multishot /\ c'.paused = c.paused
        /\ c'.closed = c.closed /\ free' = free /\ c'.received = c.received
        /\ \A o \in Op : Pending(o)' <=> Pending(o)
    BY Zenon, <1>0, <2>1 DEF ReadWait, Fields, Pending
  <2>6. c.received \in Nat /\ free \in Nat
    BY Zenon, <1>0 DEF TypeOK, Fields
  <2>7. /\ c.multishot => free' + c'.received = free + c.received
        /\ ~c.multishot => free' = free /\ c'.received <= c.received
    BY <2>5, <2>6
  <2>8. QueueInv'
    BY Zenon, <1>0, <2>1, <2>3, <2>5, <2>7, QueueKept
  <2> QED BY Zenon, <2>3, <2>4, <2>8 DEF ConnectionInv
<1> QED BY Zenon, <1>1, <1>2

LEMMA InvWrite ==
    ASSUME ConnectionInv, Write
    PROVE  ConnectionInv'
<1>0. TypeOK /\ QueueInv /\ FieldInv /\ c \in Fields
  BY Zenon DEF ConnectionInv, TypeOK
<1>1. /\ pc = "round" /\ pc' = pc /\ reader' = reader /\ writer = "none"
      /\ writer' = "waiting" /\ cq' = cq /\ free' = free /\ c.state = "active"
      /\ c.borrows = 1 /\ ~c.sending
      /\ kernel' = [kernel EXCEPT !["send"] = "flight"]
      /\ c' = [c EXCEPT !.sending = TRUE, !.inflight = @ + 1]
  BY Zenon DEF Write, InSession
<1>2. c' \in Fields
  <2>1. c.inflight + 1 \in Nat
    BY <1>0 DEF Fields
  <2> QED BY Zenon, <1>0, <1>1, <2>1 DEF Fields
<1>3. TypeOK'
  BY Zenon, <1>0, <1>1, <1>2 DEF TypeOK, Op
<1>4. FieldInv'
  BY <1>0, <1>1 DEF TypeOK, FieldInv, InflightOK, StageOK, ReaderOK, Fields,
     Pending, B, Op
<1>5. /\ "send" \in Op /\ c'.multishot = c.multishot
      /\ c'.received = c.received /\ c'.paused = c.paused /\ c'.closed = c.closed
  BY Zenon, <1>0, <1>1 DEF Op, Fields
<1>6. /\ ~Pending("send") /\ Pending("send")'
      /\ \A p \in Op \ {"send"} : Pending(p)' <=> Pending(p)
      /\ "send" # "recv"
  BY Zenon, <1>0, <1>1 DEF Pending, Fields
<1>7. QueueInv'
  BY Zenon, <1>0, <1>1, <1>3, <1>5, <1>6, QueueStarted
<1> QED BY Zenon, <1>3, <1>4, <1>7 DEF ConnectionInv

LEMMA InvWatchPeer ==
    ASSUME ConnectionInv, WatchPeer
    PROVE  ConnectionInv'
<1>0. TypeOK /\ QueueInv /\ FieldInv /\ c \in Fields
  BY Zenon DEF ConnectionInv, TypeOK
<1>1. /\ pc = "round" /\ UNCHANGED <<pc, reader, writer, cq, free>>
      /\ c.state = "active" /\ c.borrows = 1 /\ ~c.poll
      /\ kernel' = [kernel EXCEPT !["poll"] = "flight"]
      /\ c' = [c EXCEPT !.poll = TRUE, !.pollCancel = FALSE, !.inflight = @ + 1]
  BY Zenon DEF WatchPeer, InSession
<1>2. c' \in Fields
  <2>1. c.inflight + 1 \in Nat
    BY <1>0 DEF Fields
  <2> QED BY ZenonT(40), <1>0, <1>1, <2>1 DEF Fields
<1>3. TypeOK'
  BY Zenon, <1>0, <1>1, <1>2 DEF TypeOK, Op
<1>4. FieldInv'
  BY <1>0, <1>1 DEF TypeOK, FieldInv, InflightOK, StageOK, ReaderOK, Fields,
     Pending, B, Op
<1>5. /\ "poll" \in Op /\ c'.multishot = c.multishot
      /\ c'.received = c.received /\ c'.paused = c.paused /\ c'.closed = c.closed
  BY Zenon, <1>0, <1>1 DEF Op, Fields
<1>6. /\ ~Pending("poll") /\ Pending("poll")'
      /\ \A p \in Op \ {"poll"} : Pending(p)' <=> Pending(p)
      /\ "poll" # "recv"
  BY Zenon, <1>0, <1>1 DEF Pending, Fields
<1>7. QueueInv'
  BY Zenon, <1>0, <1>1, <1>3, <1>5, <1>6, QueueStarted
<1> QED BY Zenon, <1>3, <1>4, <1>7 DEF ConnectionInv

(* A step of a coroutine that touches neither the connection nor the       *)
(* kernel.                                                                 *)
LEMMA QueueUntouched ==
    ASSUME ConnectionInv, TypeOK', UNCHANGED <<c, kernel, cq, free>>
    PROVE  QueueInv'
<1>1. TypeOK /\ QueueInv
  BY Zenon DEF ConnectionInv
<1>2. c.received \in Nat /\ free \in Nat
  BY Zenon, <1>1 DEF TypeOK, Fields
<1>3. /\ c.multishot => free' + c'.received = free + c.received
      /\ ~c.multishot => free' = free /\ c'.received <= c.received
  BY <1>2
<1>4. \A o \in Op : Pending(o)' <=> Pending(o)
  BY Zenon DEF Pending
<1> QED BY Zenon, <1>1, <1>3, <1>4, QueueKept

LEMMA InvCoroutine ==
    ASSUME ConnectionInv, WriteResume \/ PauseCancelled \/ PauseDone
    PROVE  ConnectionInv'
<1>0. TypeOK /\ FieldInv
  BY Zenon DEF ConnectionInv
<1>1. TypeOK'
  BY Zenon, <1>0 DEF TypeOK, WriteResume, PauseCancelled, PauseDone, Paused
<1>2. UNCHANGED <<c, kernel, cq, free>>
  BY Zenon DEF WriteResume, PauseCancelled, PauseDone
<1>3. QueueInv'
  BY Zenon, <1>1, <1>2, QueueUntouched
<1>4. FieldInv'
  BY <1>0 DEF WriteResume, PauseCancelled, PauseDone, Paused, TypeOK, FieldInv,
     InflightOK, StageOK, ReaderOK, Fields, Pending
<1> QED BY Zenon, <1>1, <1>3, <1>4 DEF ConnectionInv

(* A cancelled operation stays in the kernel.                              *)
LEMMA CancelKeeps ==
    ASSUME TypeOK, NEW ops
    PROVE  /\ CancelKernel(kernel, ops) \in [Op -> {"none", "flight", "cancelled"}]
           /\ \A o \in Op : CancelKernel(kernel, ops)[o] = "none" <=> kernel[o] = "none"
  BY Zenon DEF TypeOK, CancelKernel

LEMMA InvPauseRead ==
    ASSUME ConnectionInv, PauseRead
    PROVE  ConnectionInv'
<1>0. TypeOK /\ QueueInv /\ FieldInv /\ c \in Fields
  BY Zenon DEF ConnectionInv, TypeOK
<1>1. /\ pc = "round" /\ UNCHANGED <<pc, writer, cq, free>>
      /\ c.state = "active" /\ c.borrows = 1 /\ ~c.waiter /\ reader = "none"
      /\ kernel' = IF c.armed THEN CancelKernel(kernel, {"recv"}) ELSE kernel
      /\ reader' = IF c.armed THEN "cancelling" ELSE Paused(c)
      /\ c' = [c EXCEPT !.paused = TRUE]
  BY Zenon DEF PauseRead, InSession
<1>2. c' \in Fields
  BY Zenon, <1>0, <1>1 DEF Fields
<1>3. /\ kernel' \in [Op -> {"none", "flight", "cancelled"}]
      /\ \A o \in Op : kernel'[o] = "none" <=> kernel[o] = "none"
  <2>1. CASE c.armed
    BY Zenon, <1>0, <1>1, <2>1, CancelKeeps
  <2>2. CASE ~c.armed
    BY Zenon, <1>0, <1>1, <2>2 DEF TypeOK
  <2> QED BY Zenon, <2>1, <2>2
<1>4. TypeOK'
  BY Zenon, <1>0, <1>1, <1>2, <1>3 DEF TypeOK, Paused
<1>5. FieldInv'
  BY Zenon, <1>0, <1>1 DEF TypeOK, FieldInv, InflightOK, StageOK, ReaderOK, Fields,
     Pending, B, Op, Paused
<1>6. /\ c'.multishot = c.multishot /\ c'.received = c.received
      /\ c'.paused /\ c'.closed = c.closed
      /\ \A o \in Op : Pending(o)' <=> Pending(o)
      /\ c.received \in Nat /\ free \in Nat
  BY Zenon, <1>0, <1>1 DEF TypeOK, Fields, Pending
<1>7. /\ c.multishot => free' + c'.received = free + c.received
      /\ ~c.multishot => free' = free /\ c'.received <= c.received
  BY <1>1, <1>6
<1>8. QueueInv'
  BY Zenon, <1>0, <1>1, <1>3, <1>4, <1>6, <1>7, QueueKept
<1> QED BY Zenon, <1>4, <1>5, <1>8 DEF ConnectionInv

-----------------------------------------------------------------------------
(* Closing and erasing.                                                    *)

Mode == [peer : BOOLEAN, failed : BOOLEAN]

(* What BeginClose makes of the fields k.                                  *)
ClosedFrom(k, n) ==
    /\ n.closed /\ n.retired /\ ~n.waiter
    /\ n.state \in {"closing", "draining", "retired"}
    /\ n.inflight = k.inflight /\ n.armed = k.armed /\ n.rearm = k.rearm
    /\ n.paused = k.paused /\ n.sending = k.sending /\ n.poll = k.poll
    /\ n.multishot = k.multishot
    /\ n.received = IF k.retired THEN k.received ELSE 0

LEMMA ClosedShape ==
    ASSUME c \in Fields, NEW mode \in Mode
    PROVE  /\ Closed(mode) \in Fields /\ ClosedFrom(c, Closed(mode))
           /\ Closed(mode).borrows = c.borrows
<1> DEFINE er == c.error \/ mode.failed
           eo == c.eof /\ mode.peer
           rv == IF c.retired THEN c.received ELSE 0
           st == IF c.retired THEN "closing"
                 ELSE IF c.armed \/ c.inflight # 0 \/ c.received # 0
                 THEN "draining" ELSE "retired"
<1>1. er \in BOOLEAN /\ eo \in BOOLEAN /\ rv \in Nat /\ c.poll \in BOOLEAN
  BY Zenon DEF Fields, Mode
<1>2. st \in {"closing", "draining", "retired"}
  BY Zenon
<1>3. Closed(mode) =
        [c EXCEPT !.error = er, !.closed = TRUE, !.eof = eo, !.waiter = FALSE,
                  !.pollCancel = c.poll, !.retired = TRUE, !.received = rv,
                  !.state = st]
  BY Zenon DEF Closed, Fields
<1> HIDE DEF er, eo, rv, st
<1>4. Closed(mode) \in Fields
  BY ZenonT(60), <1>1, <1>2, <1>3 DEF Fields
<1>5. ClosedFrom(c, Closed(mode)) /\ Closed(mode).borrows = c.borrows
  BY <1>2, <1>3 DEF ClosedFrom, Fields, rv
<1> QED BY Zenon, <1>4, <1>5

LEMMA InvAbandon ==
    ASSUME ConnectionInv, Abandon, Exists, c' \in Fields, ClosedFrom(c, c'),
           UNCHANGED <<writer, cq>>,
           pc' = pc \/ (pc = "callback" /\ pc' = "poll"),
           pc' # "callback",
           c'.borrows = c.borrows
              \/ (reader \in {"none", "paused"} /\ writer = "none")
    PROVE  ConnectionInv'
<1>0. TypeOK /\ QueueInv /\ FieldInv /\ c \in Fields
  BY Zenon DEF ConnectionInv, TypeOK
<1> DEFINE ops == {o \in {"poll", "recv"} : o = "recv" => c.armed}
<1>1. /\ free' = IF c.retired THEN free ELSE Recycle(c.received)
      /\ kernel' = CancelKernel(kernel, ops)
      /\ reader' = IF c.waiter THEN "ready" ELSE reader
  BY Zenon DEF Abandon
<1> HIDE DEF ops
<1>2. /\ kernel' \in [Op -> {"none", "flight", "cancelled"}]
      /\ \A o \in Op : kernel'[o] = "none" <=> kernel[o] = "none"
  BY Zenon, <1>0, <1>1, CancelKeeps
<1>3. TypeOK'
  BY <1>0, <1>1, <1>2 DEF TypeOK, Recycle, Fields
<1>4. c.state # "freed"
  BY Zenon DEF Exists
<1>5. FieldInv'
  <2>1. InflightOK'
    BY Zenon, <1>0 DEF FieldInv, InflightOK, ClosedFrom
  <2>2. StageOK'
    BY Zenon, <1>0, <1>1, <1>4 DEF TypeOK, FieldInv, StageOK, ReaderOK, Fields, ClosedFrom
  <2>3. ReaderOK'
    BY Zenon, <1>0, <1>1, <1>4 DEF TypeOK, FieldInv, StageOK, ReaderOK, Fields, ClosedFrom
  <2> QED BY Zenon, <2>1, <2>2, <2>3 DEF FieldInv
<1>6. /\ c'.multishot = c.multishot /\ c'.paused = c.paused /\ c'.closed
      /\ \A o \in Op : Pending(o)' <=> Pending(o)
  BY Zenon DEF ClosedFrom, Pending
<1>7. /\ c.multishot => free' + c'.received = free + c.received
      /\ ~c.multishot => free' = free /\ c'.received <= c.received
  BY <1>0, <1>1 DEF ClosedFrom, Recycle, TypeOK, Fields
<1>8. QueueInv'
  BY Zenon, <1>0, <1>2, <1>3, <1>6, <1>7, QueueKept
<1> QED BY Zenon, <1>3, <1>5, <1>8 DEF ConnectionInv

LEMMA InvClose ==
    ASSUME ConnectionInv, Close \/ IdleTimeout \/ CloseAtShutdown
    PROVE  ConnectionInv'
<1>1. PICK mode \in Mode : BeginClose(mode)
  <2>1. /\ [peer |-> FALSE, failed |-> FALSE] \in Mode
        /\ [peer |-> FALSE, failed |-> TRUE] \in Mode
    BY Zenon DEF Mode
  <2> QED BY Zenon, <2>1 DEF Close, IdleTimeout, CloseAtShutdown
<1>2. /\ Exists /\ UNCHANGED <<writer, cq>> /\ pc = "round" /\ pc' = pc
  BY Zenon DEF Close, IdleTimeout, CloseAtShutdown, InSession
<1>3. c \in Fields
  BY Zenon DEF ConnectionInv, TypeOK
<1>4. c' \in Fields /\ ClosedFrom(c, c') /\ c'.borrows = c.borrows
  BY Zenon, <1>1, <1>3, ClosedShape DEF BeginClose
<1>5. Abandon
  BY Zenon, <1>1 DEF BeginClose
<1>6. pc' # "callback"
  BY Zenon, <1>2
<1> QED BY Zenon, <1>2, <1>4, <1>5, <1>6, InvAbandon

LEMMA InvPeerCallback ==
    ASSUME ConnectionInv, PeerCallback
    PROVE  ConnectionInv'
<1>0. TypeOK /\ FieldInv /\ c \in Fields
  BY Zenon DEF ConnectionInv, TypeOK
<1>1. pc = "callback" /\ pc' = "poll" /\ UNCHANGED <<writer, cq>> /\ pc' # "callback"
  BY Zenon DEF PeerCallback
<1>2. CASE BeginClose([peer |-> FALSE, failed |-> TRUE])
  <2>1. [peer |-> FALSE, failed |-> TRUE] \in Mode
    BY Zenon DEF Mode
  <2>2. c' \in Fields /\ ClosedFrom(c, c') /\ c'.borrows = c.borrows
    BY Zenon, <1>0, <1>2, <2>1, ClosedShape DEF BeginClose
  <2>3. Exists
    BY Zenon, <1>0, <1>1 DEF FieldInv, StageOK, Exists
  <2>4. Abandon
    BY Zenon, <1>2 DEF BeginClose
  <2> QED BY Zenon, <1>1, <2>2, <2>3, <2>4, InvAbandon
<1>3. CASE UNCHANGED <<c, free, kernel, reader>>
  <2>1. TypeOK'
    BY Zenon, <1>0, <1>1, <1>3 DEF TypeOK
  <2>2. FieldInv'
    BY Zenon, <1>0, <1>1, <1>3 DEF FieldInv, InflightOK, StageOK, ReaderOK, Pending
  <2>3. QueueInv'
    BY Zenon, <1>1, <1>3, <2>1, QueueUntouched
  <2> QED BY Zenon, <2>1, <2>2, <2>3 DEF ConnectionInv
<1> QED BY Zenon, <1>2, <1>3 DEF PeerCallback

LEMMA InvEndSession ==
    ASSUME ConnectionInv, EndSession
    PROVE  ConnectionInv'
<1>1. PICK mode \in Mode : c' = [Closed(mode) EXCEPT !.borrows = 0]
  <2>0. c.eof \in BOOLEAN
    BY Zenon DEF ConnectionInv, TypeOK, Fields
  <2>1. PICK failed \in BOOLEAN :
          c' = [Closed([peer |-> c.eof /\ ~failed, failed |-> failed])
                  EXCEPT !.borrows = 0]
    BY Zenon DEF EndSession
  <2>2. [peer |-> c.eof /\ ~failed, failed |-> failed] \in Mode
    BY Zenon, <2>0 DEF Mode
  <2> QED BY Zenon, <2>1, <2>2
<1>2. /\ Exists /\ UNCHANGED <<writer, cq>> /\ pc = "round" /\ pc' = pc /\ Abandon
      /\ reader \in {"none", "paused"} /\ writer = "none"
  BY Zenon DEF EndSession, InSession
<1>3. c \in Fields
  BY Zenon DEF ConnectionInv, TypeOK
<1>4. Closed(mode) \in Fields /\ ClosedFrom(c, Closed(mode))
  BY Zenon, <1>3, ClosedShape
<1>5. c' \in Fields
  <2>1. 0 \in 0..1
    OBVIOUS
  <2> QED BY Zenon, <1>1, <1>4, <2>1 DEF Fields
<1>6. ClosedFrom(c, c')
  BY Zenon, <1>1, <1>4 DEF ClosedFrom, Fields
<1>7. pc' # "callback"
  BY Zenon, <1>2
<1> QED BY Zenon, <1>2, <1>5, <1>6, <1>7, InvAbandon

(* With no operation pending nothing of the connection is in the kernel or *)
(* in the queue.                                                           *)
LEMMA NothingPending ==
    ASSUME TypeOK, QueueInv, \A o \in Op : ~Pending(o)
    PROVE  cq = <<>> /\ \A o \in Op : kernel[o] = "none"
<1>1. \A o \in Op : OperationOK(o)
  BY Zenon DEF QueueInv
<1>2. \A o \in Op : kernel[o] = "none" /\ \A i \in 1..Len(cq) : cq[i].op # o
  BY Zenon, <1>1 DEF OperationOK
<1>3. cq \in Seq(Cqe) /\ \A i \in 1..Len(cq) : cq[i].op \in Op
  <2>1. cq \in Seq(Cqe)
    BY Zenon DEF TypeOK
  <2>2. \A i \in 1..Len(cq) : cq[i] \in Cqe
    BY <2>1
  <2> QED BY Zenon, <2>1, <2>2 DEF Cqe
<1>4. Len(cq) = 0
  <2>1. Len(cq) # 0 => 1 \in 1..Len(cq)
    BY <1>3
  <2> QED BY Zenon, <1>2, <1>3, <2>1
<1> QED BY <1>2, <1>3, <1>4

(* ReclaimConnections, and the end of a session that was closed before.    *)
LEMMA InvReclaim ==
    ASSUME ConnectionInv, Reclaim \/ EndClosedSession
    PROVE  ConnectionInv'
<1>0. TypeOK /\ QueueInv /\ FieldInv /\ c \in Fields
  BY Zenon DEF ConnectionInv, TypeOK
<1>1. UNCHANGED <<reader, writer, kernel, cq, free, pc>> /\ pc = "round"
  BY Zenon DEF Reclaim, EndClosedSession, InSession
<1>2. /\ c' \in Fields
      /\ \/ /\ c' = [c EXCEPT !.state = "freed"] /\ c.retired
            /\ CanReclaim(c)
         \/ c' = [c EXCEPT !.state = "draining"] /\ c.retired
         \/ /\ c' = [c EXCEPT !.borrows = 0] /\ c.state # "active"
            /\ reader \in {"none", "paused"} /\ writer = "none"
            /\ c.state # "freed"
  <2>1. CASE Reclaim
    <3>1. c' = [c EXCEPT !.state = IF CanReclaim(c) THEN "freed" ELSE "draining"]
      BY Zenon, <2>1 DEF Reclaim
    <3>2. \/ c' = [c EXCEPT !.state = "freed"] /\ CanReclaim(c)
          \/ c' = [c EXCEPT !.state = "draining"]
      BY Zenon, <3>1
    <3>3. c' \in Fields
      BY ZenonT(40), <1>0, <3>2 DEF Fields
    <3> QED BY Zenon, <2>1, <3>2, <3>3 DEF Reclaim
  <2>2. CASE EndClosedSession
    <3>1. c' = [c EXCEPT !.borrows = 0]
      BY Zenon, <2>2 DEF EndClosedSession
    <3>2. 0 \in 0..1
      OBVIOUS
    <3>3. c' \in Fields
      BY Zenon, <1>0, <3>1, <3>2 DEF Fields
    <3> QED BY Zenon, <2>2, <3>1, <3>3 DEF EndClosedSession, InSession, Exists
  <2> QED BY Zenon, <2>1, <2>2
<1>3. TypeOK'
  BY Zenon, <1>0, <1>1, <1>2 DEF TypeOK
<1>4. FieldInv'
  <2>1. InflightOK' /\ ReaderOK'
    BY <1>0, <1>1, <1>2 DEF FieldInv, InflightOK, ReaderOK, Fields
  <2>2. c.inflight = 0 => ~c.armed /\ ~c.poll /\ ~c.sending
    BY <1>0 DEF FieldInv, InflightOK, Fields, B
  <2>3. StageOK'
    BY <1>0, <1>1, <1>2, <2>2 DEF FieldInv, StageOK, CanReclaim, Fields, Pending
  <2> QED BY Zenon, <2>1, <2>3 DEF FieldInv
<1>5. /\ c'.multishot = c.multishot /\ c'.paused = c.paused /\ c'.closed = c.closed
      /\ c'.received = c.received /\ c.received \in Nat /\ free \in Nat
      /\ \A o \in Op : Pending(o)' <=> Pending(o)
  BY <1>0, <1>2 DEF TypeOK, Fields, Pending
<1>6. /\ c.multishot => free' + c'.received = free + c.received
      /\ ~c.multishot => free' = free /\ c'.received <= c.received
  BY <1>1, <1>5
<1>7. QueueInv'
  BY Zenon, <1>0, <1>1, <1>3, <1>5, <1>6, QueueKept
<1> QED BY Zenon, <1>3, <1>4, <1>7 DEF ConnectionInv

-----------------------------------------------------------------------------
(* The steps of Poll.                                                      *)

LEMMA InvPoll ==
    ASSUME ConnectionInv, Poll
    PROVE  ConnectionInv'
<1>0. TypeOK /\ QueueInv /\ FieldInv
  BY Zenon DEF ConnectionInv
<1>1. /\ UNCHANGED <<c, reader, writer, kernel, cq, free>> /\ pc = "round"
      /\ pc' = "poll" /\ cq # <<>>
  BY Zenon DEF Poll
<1>2. TypeOK'
  BY Zenon, <1>0, <1>1 DEF TypeOK
<1>3. QueueInv'
  BY Zenon, <1>1, <1>2, QueueUntouched
<1>4. ~(\A o \in Op : ~Pending(o))
  BY Zenon, <1>0, <1>1, NothingPending
<1>5. FieldInv'
  BY Zenon, <1>0, <1>1, <1>4 DEF FieldInv, InflightOK, StageOK, ReaderOK, Pending
<1> QED BY Zenon, <1>2, <1>3, <1>5 DEF ConnectionInv

(* The completion at the head of the queue.                                *)
LEMMA HeadOfQueue ==
    ASSUME ConnectionInv, cq # <<>>
    PROVE  /\ Head(cq) \in Cqe /\ CqeOK(Head(cq)) /\ Tail(cq) \in Seq(Cqe)
           /\ Pending(Head(cq).op)
<1>0. TypeOK /\ QueueInv
  BY Zenon DEF ConnectionInv
<1>1. cq \in Seq(Cqe)
  BY Zenon, <1>0 DEF TypeOK
<1>2. Head(cq) = cq[1] /\ 1 \in 1..Len(cq) /\ Tail(cq) \in Seq(Cqe) /\ cq[1] \in Cqe
  BY <1>1
<1>3. cq[1].op \in Op
  BY Zenon, <1>2 DEF Cqe
<1>4. CqeOK(cq[1])
  BY Zenon, <1>0, <1>2 DEF QueueInv, QueueOK
<1>5. OperationOK(cq[1].op)
  BY Zenon, <1>0, <1>3 DEF QueueInv
<1>6. Pending(cq[1].op)
  BY Zenon, <1>2, <1>5 DEF OperationOK
<1> QED BY Zenon, <1>2, <1>4, <1>6

LEMMA InvWriteComplete ==
    ASSUME ConnectionInv, WriteComplete
    PROVE  ConnectionInv'
<1>0. TypeOK /\ QueueInv /\ FieldInv /\ c \in Fields
  BY Zenon DEF ConnectionInv, TypeOK
<1>1. /\ pc = "poll" /\ pc' = pc /\ reader' = reader /\ writer' = "ready"
      /\ cq # <<>> /\ Head(cq).op = "send" /\ cq' = Tail(cq)
      /\ kernel' = kernel /\ free' = free
      /\ c' = [c EXCEPT !.sending = FALSE, !.inflight = @ - 1]
  BY Zenon DEF WriteComplete
<1>2. /\ Head(cq) \in Cqe /\ CqeOK(Head(cq)) /\ Tail(cq) \in Seq(Cqe)
      /\ Pending("send")
  BY Zenon, <1>1, HeadOfQueue
<1>3. c.sending
  BY Zenon, <1>2 DEF Pending
<1>4. c.inflight - 1 \in Nat
  BY <1>0, <1>3 DEF FieldInv, InflightOK, B, Fields
<1>5. c' \in Fields
  BY ZenonT(40), <1>0, <1>1, <1>4 DEF Fields
<1>6. TypeOK'
  BY Zenon, <1>0, <1>1, <1>2, <1>5 DEF TypeOK
<1>7. FieldInv'
  BY <1>0, <1>1, <1>3 DEF TypeOK, FieldInv, InflightOK, StageOK, ReaderOK, Fields,
     Pending, B, Op
<1>8. ~Head(cq).more /\ Head(cq).res # "data"
  BY Zenon, <1>1, <1>2 DEF CqeOK
<1>9. /\ c'.multishot = c.multishot /\ c'.paused = c.paused /\ c'.closed = c.closed
      /\ c'.received = c.received + B(Head(cq).res = "data")
  BY <1>0, <1>1, <1>8 DEF Fields, B
<1>10. \A p \in Op :
          Pending(p)' <=> Pending(p) /\ (Head(cq).op = p => Head(cq).more)
  BY Zenon, <1>0, <1>1, <1>8 DEF Fields, Pending
<1>11. QueueInv'
  BY ZenonT(40), <1>0, <1>1, <1>6, <1>9, <1>10, QueueHandled
<1> QED BY Zenon, <1>6, <1>7, <1>11 DEF ConnectionInv

LEMMA InvHandlePeerDisconnect ==
    ASSUME ConnectionInv, HandlePeerDisconnect
    PROVE  ConnectionInv'
<1>0. TypeOK /\ QueueInv /\ FieldInv /\ c \in Fields
  BY Zenon DEF ConnectionInv, TypeOK
<1>1. /\ pc = "poll" /\ UNCHANGED <<reader, writer, kernel, free>>
      /\ pc' = "poll" \/ (pc' = "callback" /\ c.state = "active")
      /\ cq # <<>> /\ Head(cq).op = "poll" /\ cq' = Tail(cq)
      /\ c' = [c EXCEPT !.poll = FALSE, !.pollCancel = FALSE, !.inflight = @ - 1]
  BY Zenon DEF HandlePeerDisconnect
<1>2. /\ Head(cq) \in Cqe /\ CqeOK(Head(cq)) /\ Tail(cq) \in Seq(Cqe)
      /\ Pending("poll")
  BY Zenon, <1>1, HeadOfQueue
<1>3. c.poll
  BY Zenon, <1>2 DEF Pending
<1>4. c.inflight - 1 \in Nat
  BY <1>0, <1>3 DEF FieldInv, InflightOK, B, Fields
<1>5. c' \in Fields
  BY ZenonT(40), <1>0, <1>1, <1>4 DEF Fields
<1>6. TypeOK'
  BY Zenon, <1>0, <1>1, <1>2, <1>5 DEF TypeOK
<1>7. FieldInv'
  BY <1>0, <1>1, <1>3 DEF TypeOK, FieldInv, InflightOK, StageOK, ReaderOK, Fields,
     Pending, B, Op
<1>8. ~Head(cq).more /\ Head(cq).res # "data"
  BY Zenon, <1>1, <1>2 DEF CqeOK
<1>9. /\ c'.multishot = c.multishot /\ c'.paused = c.paused /\ c'.closed = c.closed
      /\ c'.received = c.received + B(Head(cq).res = "data")
  BY <1>0, <1>1, <1>8 DEF Fields, B
<1>10. \A p \in Op :
          Pending(p)' <=> Pending(p) /\ (Head(cq).op = p => Head(cq).more)
  BY Zenon, <1>0, <1>1, <1>8 DEF Fields, Pending
<1>11. QueueInv'
  BY Zenon, <1>0, <1>1, <1>6, <1>9, <1>10, QueueHandled
<1> QED BY Zenon, <1>6, <1>7, <1>11 DEF ConnectionInv

(* What a completion of a receive makes of the fields k, before its end.   *)
GotFrom(k, res, n) ==
    /\ n \in Fields
    /\ n.received = k.received + B(res = "data")
    /\ n.eof <=> k.eof \/ res = "eof"
    /\ n.state = k.state /\ n.closed = k.closed /\ n.retired = k.retired
    /\ n.inflight = k.inflight /\ n.armed = k.armed /\ n.rearm = k.rearm
    /\ n.paused = k.paused /\ n.waiter = k.waiter /\ n.sending = k.sending
    /\ n.poll = k.poll /\ n.borrows = k.borrows /\ n.multishot = k.multishot

LEMMA Got ==
    ASSUME NEW res, c \in Fields
    PROVE  GotFrom(c, res, CASE res = "data" -> [c EXCEPT !.received = @ + 1]
                             [] res = "eof" -> [c EXCEPT !.eof = TRUE]
                             [] res = "error" -> [c EXCEPT !.error = TRUE]
                             [] OTHER -> c)
<1>1. CASE res = "data"
  <2>1. c.received + 1 \in Nat
    BY DEF Fields
  <2>2. [c EXCEPT !.received = @ + 1] \in Fields
    BY Zenon, <2>1 DEF Fields
  <2>3. GotFrom(c, res, [c EXCEPT !.received = @ + 1])
    BY Zenon, <1>1, <2>2 DEF GotFrom, Fields, B
  <2> QED BY Zenon, <1>1, <2>3
<1>2. CASE res = "eof"
  <2>1. [c EXCEPT !.eof = TRUE] \in Fields
    BY Zenon DEF Fields
  <2>2. GotFrom(c, res, [c EXCEPT !.eof = TRUE])
    BY <1>2, <2>1 DEF GotFrom, Fields, B
  <2> QED BY Zenon, <1>2, <2>2
<1>3. CASE res = "error"
  <2>1. [c EXCEPT !.error = TRUE] \in Fields
    BY Zenon DEF Fields
  <2>2. GotFrom(c, res, [c EXCEPT !.error = TRUE])
    BY <1>3, <2>1 DEF GotFrom, Fields, B
  <2> QED BY Zenon, <1>3, <2>2
<1>4. CASE res \notin {"data", "eof", "error"}
  <2>1. GotFrom(c, res, c)
    BY <1>4 DEF GotFrom, Fields, B
  <2> QED BY Zenon, <1>4, <2>1
<1> QED BY Zenon, <1>1, <1>2, <1>3, <1>4

(* What the end of a receive makes of the fields k.                        *)
EndedFrom(k, n) ==
    /\ n \in Fields
    /\ ~n.armed /\ n.inflight = k.inflight - 1
    /\ n.rearm <=> k.rearm \/ Rearms(k)
    /\ n.state = IF ~Rearms(k) /\ k.state # "active" THEN "draining" ELSE k.state
    /\ n.received = k.received /\ n.eof = k.eof /\ n.closed = k.closed
    /\ n.retired = k.retired /\ n.paused = k.paused /\ n.waiter = k.waiter
    /\ n.sending = k.sending /\ n.poll = k.poll /\ n.borrows = k.borrows
    /\ n.multishot = k.multishot

LEMMA Ended ==
    ASSUME NEW k \in Fields, k.inflight # 0
    PROVE  EndedFrom(k, EndReceive(k))
<1> DEFINE ra == k.rearm \/ Rearms(k)
           st == IF ~Rearms(k) /\ k.state # "active" THEN "draining" ELSE k.state
<1>1. /\ k.inflight - 1 \in Nat /\ ra \in BOOLEAN
      /\ st \in {"active", "closing", "draining", "retired", "freed"}
  BY DEF Fields
<1>2. EndReceive(k) = [k EXCEPT !.armed = FALSE, !.inflight = @ - 1, !.rearm = ra,
                                !.state = st]
  BY Zenon DEF EndReceive, Fields
<1> HIDE DEF ra, st
<1>3. EndReceive(k) \in Fields
  BY ZenonT(40), <1>1, <1>2 DEF Fields
<1> DEFINE n == EndReceive(k)
<1>4. /\ n.armed = FALSE /\ n.inflight = k.inflight - 1 /\ n.rearm = ra /\ n.state = st
      /\ n.received = k.received /\ n.eof = k.eof /\ n.closed = k.closed
      /\ n.retired = k.retired /\ n.paused = k.paused /\ n.waiter = k.waiter
      /\ n.sending = k.sending /\ n.poll = k.poll /\ n.borrows = k.borrows
      /\ n.multishot = k.multishot
  BY Zenon, <1>2 DEF Fields
<1> HIDE DEF n
<1>5. n.rearm <=> k.rearm \/ Rearms(k)
  BY Zenon, <1>4 DEF ra
<1> QED BY Zenon, <1>3, <1>4, <1>5 DEF EndedFrom, st, n

LEMMA InvHandleMultishotRecv ==
    ASSUME ConnectionInv, HandleMultishotRecv
    PROVE  ConnectionInv'
<1>0. TypeOK /\ QueueInv /\ FieldInv /\ c \in Fields
  BY Zenon DEF ConnectionInv, TypeOK
<1> DEFINE q == Head(cq)
           got == CASE q.res = "data" -> [c EXCEPT !.received = @ + 1]
                    [] q.res = "eof" -> [c EXCEPT !.eof = TRUE]
                    [] q.res = "error" -> [c EXCEPT !.error = TRUE]
                    [] OTHER -> c
           ended == IF q.more THEN got ELSE EndReceive(got)
           notify == q.res \in {"data", "eof", "error"} /\ c.waiter
<1>1. /\ pc = "poll" /\ pc' = pc /\ cq # <<>> /\ Head(cq).op = "recv"
      /\ c' = [ended EXCEPT !.waiter = @ /\ ~notify]
      /\ reader' = IF notify THEN "ready" ELSE reader
      /\ cq' = Tail(cq) /\ UNCHANGED <<writer, kernel, free>>
  BY Zenon DEF HandleMultishotRecv
<1>2. /\ q \in Cqe /\ CqeOK(q) /\ Tail(cq) \in Seq(Cqe) /\ Pending("recv")
  BY Zenon, <1>1, HeadOfQueue
<1>3. GotFrom(c, q.res, got)
  BY Zenon, <1>0, Got
<1>4. c.armed /\ got.inflight # 0
  BY <1>0, <1>2, <1>3 DEF Pending, FieldInv, InflightOK, B, Fields, GotFrom
<1>5. EndedFrom(got, EndReceive(got))
  BY Zenon, <1>3, <1>4, Ended DEF GotFrom
<1> DEFINE end == EndReceive(got)
<1>6. ended = IF q.more THEN got ELSE end
  BY Zenon
<1>7. ended \in Fields /\ ended.waiter = c.waiter
  BY Zenon, <1>3, <1>5, <1>6 DEF GotFrom, EndedFrom
<1> HIDE DEF got, end, ended
<1> DEFINE waits == c.waiter /\ ~notify
<1>8. waits \in BOOLEAN
  BY Zenon, <1>0 DEF Fields
<1>9. c' = [ended EXCEPT !.waiter = waits]
  BY Zenon, <1>1, <1>7 DEF Fields
<1> HIDE DEF notify, waits
<1>10. c' \in Fields
  BY Zenon, <1>7, <1>8, <1>9 DEF Fields
<1>11. TypeOK'
  BY Zenon, <1>0, <1>1, <1>2, <1>10 DEF TypeOK
<1>12. /\ c'.waiter = waits
       /\ c'.state = ended.state /\ c'.closed = ended.closed
       /\ c'.retired = ended.retired /\ c'.inflight = ended.inflight
       /\ c'.armed = ended.armed /\ c'.rearm = ended.rearm
       /\ c'.paused = ended.paused /\ c'.eof = ended.eof
       /\ c'.received = ended.received /\ c'.sending = ended.sending
       /\ c'.poll = ended.poll /\ c'.borrows = ended.borrows
       /\ c'.multishot = ended.multishot
  BY Zenon, <1>7, <1>9 DEF Fields
<1>w. c'.waiter <=> c.waiter /\ ~notify
  BY Zenon, <1>12 DEF waits
<1>13. /\ c'.armed <=> q.more
       /\ c'.inflight = IF q.more THEN c.inflight ELSE c.inflight - 1
       /\ c'.rearm <=> c.rearm \/ (~q.more /\ Rearms(got))
       /\ c'.state = IF ~q.more /\ ~Rearms(got) /\ c.state # "active"
                     THEN "draining" ELSE c.state
       /\ c'.received = c.received + B(q.res = "data")
       /\ c'.eof <=> c.eof \/ q.res = "eof"
       /\ c'.closed = c.closed /\ c'.retired = c.retired /\ c'.paused = c.paused
       /\ c'.sending = c.sending /\ c'.poll = c.poll /\ c'.borrows = c.borrows
       /\ c'.multishot = c.multishot
  <2>1. CASE q.more
    <3>1. ended = got
      BY Zenon, <1>6, <2>1
    <3> QED BY ZenonT(40), <1>3, <1>4, <1>12, <2>1, <3>1 DEF GotFrom
  <2>2. CASE ~q.more
    <3>1. ended = end
      BY Zenon, <1>6, <2>2
    <3> QED BY <1>3, <1>5, <1>12, <2>2, <3>1 DEF GotFrom, EndedFrom, end
  <2> QED BY Zenon, <2>1, <2>2
<1>14. Rearms(got) <=> /\ c.multishot /\ ~c.paused /\ c.state = "active" /\ ~c.closed
                       /\ ~c.eof /\ q.res # "eof"
  BY Zenon, <1>3 DEF GotFrom, Rearms
<1>15. FieldInv'
  <2>1. InflightOK'
    BY SMTT(30), <1>0, <1>4, <1>13 DEF FieldInv, InflightOK, B, Fields
  <2>2. StageOK'
    BY <1>0, <1>1, <1>4, <1>13 DEF FieldInv, StageOK, ReaderOK, Pending, notify, Op
  <2>3. ReaderOK'
    BY Zenon, <1>0, <1>1, <1>2, <1>4, <1>w, <1>13, <1>14
       DEF FieldInv, StageOK, ReaderOK, notify, CqeOK, TypeOK
  <2> QED BY Zenon, <2>1, <2>2, <2>3 DEF FieldInv
<1>16. \A p \in Op :
          Pending(p)' <=> Pending(p) /\ (Head(cq).op = p => Head(cq).more)
  BY Zenon, <1>1, <1>4, <1>13 DEF Pending
<1>17. QueueInv'
  BY Zenon, <1>0, <1>1, <1>11, <1>13, <1>16, QueueHandled
<1> QED BY Zenon, <1>11, <1>15, <1>17 DEF ConnectionInv

LEMMA InvDrainRecvRearm ==
    ASSUME ConnectionInv, DrainRecvRearm
    PROVE  ConnectionInv'
<1>0. TypeOK /\ QueueInv /\ FieldInv /\ c \in Fields
  BY Zenon DEF ConnectionInv, TypeOK
<1> DEFINE again == c.rearm /\ c.state = "active" /\ ~c.eof
           k == [c EXCEPT !.rearm = FALSE]
<1>1. /\ pc = "poll" /\ pc' = "round" /\ UNCHANGED <<reader, writer, cq, free>>
      /\ c' = IF again THEN Arm(k) ELSE k
      /\ kernel' = IF again THEN ArmKernel(k) ELSE kernel
  BY Zenon DEF DrainRecvRearm
<1>2. k \in Fields
  BY Zenon, <1>0 DEF Fields
<1>3. /\ k.armed = c.armed /\ k.closed = c.closed /\ k.paused = c.paused
      /\ k.multishot = c.multishot /\ k.received = c.received
  BY Zenon, <1>0 DEF Fields
<1>4. CASE again /\ CanArm(k)
  <2>1. c' \in Fields /\ c' = [k EXCEPT !.armed = TRUE, !.inflight = @ + 1]
    BY Zenon, <1>1, <1>2, <1>4, ArmFields
  <2>2. c' = [c EXCEPT !.rearm = FALSE, !.armed = TRUE, !.inflight = @ + 1]
    BY Zenon, <1>0, <2>1 DEF Fields
  <2>3. kernel' = [kernel EXCEPT !["recv"] = "flight"]
    BY Zenon, <1>1, <1>4 DEF ArmKernel
  <2>4. /\ ~c.armed /\ ~c.closed /\ ~c.paused /\ c.state = "active"
        /\ c.multishot \/ c.received = 0
    BY Zenon, <1>3, <1>4 DEF CanArm
  <2> HIDE DEF again, k
  <2>5. TypeOK'
    BY Zenon, <1>0, <1>1, <2>1, <2>3 DEF TypeOK, Op
  <2>6. FieldInv'
    <3>1. /\ pc = "poll" /\ pc' = "round" /\ UNCHANGED <<reader, writer>>
      BY Zenon, <1>1
    <3>2. /\ c'.rearm = FALSE /\ c'.armed = TRUE /\ c'.inflight = c.inflight + 1
          /\ c'.state = c.state /\ c'.closed = c.closed /\ c'.retired = c.retired
          /\ c'.paused = c.paused /\ c'.eof = c.eof /\ c'.waiter = c.waiter
          /\ c'.received = c.received /\ c'.sending = c.sending
          /\ c'.poll = c.poll /\ c'.borrows = c.borrows
          /\ c'.multishot = c.multishot /\ kernel'["recv"] = "flight"
      BY Zenon, <1>0, <2>2, <2>3 DEF Fields, TypeOK, Op
    <3>3. InflightOK'
      BY <1>0, <2>4, <3>2 DEF FieldInv, InflightOK, B, Fields
    <3>4. StageOK'
      BY Zenon, <1>0, <2>4, <3>1, <3>2 DEF FieldInv, StageOK
    <3>5. ReaderOK'
      BY Zenon, <1>0, <2>4, <3>1, <3>2 DEF FieldInv, ReaderOK, StageOK
    <3> QED BY Zenon, <3>3, <3>4, <3>5 DEF FieldInv
  <2>7. /\ "recv" \in Op /\ c'.multishot = c.multishot
        /\ c'.received = c.received /\ c'.paused = c.paused /\ c'.closed = c.closed
    BY Zenon, <1>0, <2>2 DEF Op, Fields
  <2>8. /\ ~Pending("recv") /\ Pending("recv")'
        /\ \A p \in Op \ {"recv"} : Pending(p)' <=> Pending(p)
    BY Zenon, <1>0, <2>2, <2>4 DEF Pending, Fields
  <2>9. QueueInv'
    BY ZenonT(40), <1>0, <1>1, <2>3, <2>4, <2>5, <2>7, <2>8, QueueStarted
  <2> QED BY Zenon, <2>5, <2>6, <2>9 DEF ConnectionInv
<1>5. CASE ~(again /\ CanArm(k))
  <2>1. c' = k /\ kernel' = kernel
    BY Zenon, <1>1, <1>5 DEF Arm, ArmKernel
  <2>2. TypeOK'
    <3> HIDE DEF again, k
    <3> QED BY Zenon, <1>0, <1>1, <1>2, <2>1 DEF TypeOK
  <2>3. c.waiter /\ ~c.paused => c.armed
    <3>1. c.waiter => c.state = "active" /\ ~c.closed /\ ~c.eof
      BY Zenon, <1>0 DEF FieldInv, StageOK, ReaderOK
    <3>2. c.rearm => ~c.armed /\ c.multishot
      BY Zenon, <1>0 DEF FieldInv, ReaderOK
    <3>3. c.waiter /\ ~c.paused => c.armed \/ c.rearm
      BY Zenon, <1>0 DEF FieldInv, ReaderOK
    <3> QED BY Zenon, <1>3, <1>5, <3>1, <3>2, <3>3 DEF CanArm
  <2>4. c' = [c EXCEPT !.rearm = FALSE]
    BY Zenon, <2>1
  <2> HIDE DEF again, k
  <2>5. FieldInv'
    BY SMTT(30), <1>0, <1>1, <2>1, <2>3, <2>4 DEF TypeOK, FieldInv, InflightOK, StageOK,
       ReaderOK, Fields, Pending, B
  <2>6. /\ c'.multishot = c.multishot /\ c'.paused = c.paused /\ c'.closed = c.closed
        /\ c'.received = c.received /\ c.received \in Nat /\ free \in Nat
        /\ \A o \in Op : Pending(o)' <=> Pending(o)
    BY Zenon, <1>0, <2>4 DEF TypeOK, Fields, Pending
  <2>7. /\ c.multishot => free' + c'.received = free + c.received
        /\ ~c.multishot => free' = free /\ c'.received <= c.received
    BY <1>1, <2>6
  <2>8. QueueInv'
    BY Zenon, <1>0, <1>1, <2>1, <2>2, <2>6, <2>7, QueueKept
  <2> QED BY Zenon, <2>2, <2>5, <2>8 DEF ConnectionInv
<1> QED BY Zenon, <1>4, <1>5

-----------------------------------------------------------------------------
(* The kernel.                                                             *)

LEMMA InvPostCqe ==
    ASSUME ConnectionInv, NEW o \in Op, NEW res, NEW more \in BOOLEAN,
           PostCqe(o, res, more), kernel[o] # "none",
           [op |-> o, res |-> res, more |-> more] \in Cqe,
           CqeOK([op |-> o, res |-> res, more |-> more]),
           more => c.multishot, c.multishot /\ res = "data" => free > 0,
           free' = IF c.multishot /\ res = "data" THEN free - 1 ELSE free
    PROVE  ConnectionInv'
<1>0. TypeOK /\ QueueInv /\ FieldInv /\ c \in Fields
  BY Zenon DEF ConnectionInv, TypeOK
<1> DEFINE e == [op |-> o, res |-> res, more |-> more]
<1>1. /\ pc = "round" /\ UNCHANGED <<c, reader, writer, pc>> /\ cq' = Append(cq, e)
      /\ kernel' = IF more THEN kernel ELSE [kernel EXCEPT ![o] = "none"]
  BY Zenon DEF PostCqe
<1>2. e \in Cqe /\ e.op = o /\ e.res = res /\ e.more = more /\ CqeOK(e)
  BY Zenon
<1> HIDE DEF e
<1>3. TypeOK'
  BY <1>0, <1>1, <1>2 DEF TypeOK
<1>4. FieldInv'
  BY Zenon, <1>0, <1>1 DEF TypeOK, FieldInv, InflightOK, StageOK, ReaderOK, Pending, Op
<1>5. /\ kernel' = IF e.more THEN kernel ELSE [kernel EXCEPT ![o] = "none"]
      /\ free' = IF c.multishot /\ e.res = "data" THEN free - 1 ELSE free
      /\ e.more => c.multishot
  BY Zenon, <1>1, <1>2
<1>6. QueueInv'
  BY Zenon, <1>0, <1>1, <1>2, <1>3, <1>5, QueuePosted
<1> QED BY Zenon, <1>3, <1>4, <1>6 DEF ConnectionInv

LEMMA InvPost ==
    ASSUME ConnectionInv,
           \/ PostData \/ PostNoBuffers \/ PostEnd \/ PostCancelled \/ PostHangup
           \/ PostSent
    PROVE  ConnectionInv'
<1>0. TypeOK /\ FieldInv /\ c.multishot \in BOOLEAN
  BY Zenon DEF ConnectionInv, TypeOK, Fields
<1>1. "recv" \in Op /\ "poll" \in Op /\ "send" \in Op
  BY Zenon DEF Op
<1>2. \A o \in Op, more \in BOOLEAN,
        res \in {"data", "eof", "error", "nobufs", "cancelled", "hup", "done"} :
         [op |-> o, res |-> res, more |-> more] \in Cqe
  BY ZenonT(40) DEF Cqe
<1>3. CASE PostData
  <2>1. PICK more \in {FALSE, c.multishot} : PostCqe("recv", "data", more)
    BY Zenon, <1>3 DEF PostData
  <2>2. more \in BOOLEAN /\ (more => c.multishot)
    BY Zenon, <1>0, <2>1
  <2>3. CqeOK([op |-> "recv", res |-> "data", more |-> more])
    BY Zenon DEF CqeOK
  <2>4. /\ kernel["recv"] # "none" /\ (c.multishot => free > 0)
        /\ free' = IF c.multishot THEN free - 1 ELSE free
    BY Zenon, <1>3 DEF PostData
  <2>5. [op |-> "recv", res |-> "data", more |-> more] \in Cqe
    BY Zenon, <1>1, <1>2, <2>2
  <2> QED BY Zenon, <1>1, <2>1, <2>2, <2>3, <2>4, <2>5, InvPostCqe
<1>4. CASE PostNoBuffers
  <2>1. /\ PostCqe("recv", "nobufs", FALSE) /\ kernel["recv"] # "none"
        /\ free' = free /\ c.multishot
    BY Zenon, <1>4 DEF PostNoBuffers
  <2>2. CqeOK([op |-> "recv", res |-> "nobufs", more |-> FALSE])
    BY Zenon, <2>1 DEF CqeOK
  <2>3. [op |-> "recv", res |-> "nobufs", more |-> FALSE] \in Cqe
    BY Zenon, <1>1, <1>2
  <2> QED BY Zenon, <1>1, <2>1, <2>2, <2>3, InvPostCqe
<1>5. CASE PostEnd
  <2>1. PICK res \in {"eof", "error"} : PostCqe("recv", res, FALSE)
    BY Zenon, <1>5 DEF PostEnd
  <2>2. kernel["recv"] # "none" /\ free' = free /\ res # "data"
    BY Zenon, <1>5 DEF PostEnd
  <2>3. CqeOK([op |-> "recv", res |-> res, more |-> FALSE])
    BY Zenon, <2>1 DEF CqeOK
  <2>4. [op |-> "recv", res |-> res, more |-> FALSE] \in Cqe
    BY Zenon, <1>1, <1>2
  <2> QED BY Zenon, <1>1, <2>1, <2>2, <2>3, <2>4, InvPostCqe
<1>6. CASE PostCancelled
  <2>1. PICK o \in {"recv", "poll"} : kernel[o] = "cancelled"
                                      /\ PostCqe(o, "cancelled", FALSE)
    BY Zenon, <1>6 DEF PostCancelled
  <2>2. free' = free /\ o \in Op /\ kernel[o] # "none"
    BY Zenon, <1>1, <1>6, <2>1 DEF PostCancelled
  <2>3. CqeOK([op |-> o, res |-> "cancelled", more |-> FALSE])
    BY Zenon, <1>0, <2>1 DEF CqeOK, FieldInv, ReaderOK
  <2>4. [op |-> o, res |-> "cancelled", more |-> FALSE] \in Cqe
    BY Zenon, <1>2, <2>2
  <2> QED BY Zenon, <2>1, <2>2, <2>3, <2>4, InvPostCqe
<1>7. CASE PostHangup
  <2>1. /\ PostCqe("poll", "hup", FALSE) /\ kernel["poll"] # "none" /\ free' = free
    BY Zenon, <1>7 DEF PostHangup
  <2>2. CqeOK([op |-> "poll", res |-> "hup", more |-> FALSE])
    BY Zenon DEF CqeOK
  <2>3. [op |-> "poll", res |-> "hup", more |-> FALSE] \in Cqe
    BY Zenon, <1>1, <1>2
  <2> QED BY Zenon, <1>1, <2>1, <2>2, <2>3, InvPostCqe
<1>8. CASE PostSent
  <2>1. /\ PostCqe("send", "done", FALSE) /\ kernel["send"] # "none" /\ free' = free
    BY Zenon, <1>8 DEF PostSent
  <2>2. CqeOK([op |-> "send", res |-> "done", more |-> FALSE])
    BY Zenon DEF CqeOK
  <2>3. [op |-> "send", res |-> "done", more |-> FALSE] \in Cqe
    BY Zenon, <1>1, <1>2
  <2> QED BY Zenon, <1>1, <2>1, <2>2, <2>3, InvPostCqe
<1> QED BY ZenonT(40), <1>3, <1>4, <1>5, <1>6, <1>7, <1>8

-----------------------------------------------------------------------------
(* What the invariant implies.                                             *)

(* One more operation, or not.                                             *)
LEMMA OneMore ==
    ASSUME NEW S, IsFiniteSet(S), NEW x, x \notin S, NEW b \in BOOLEAN
    PROVE  /\ IsFiniteSet(S \cup {y \in {x} : b})
           /\ Cardinality(S \cup {y \in {x} : b}) = Cardinality(S) + B(b)
<1>0. Cardinality(S) \in Nat
  BY Zenon, FS_CardinalityType
<1>1. CASE b
  <2>1. S \cup {y \in {x} : b} = S \cup {x}
    BY Zenon, <1>1
  <2> QED BY Zenon, <1>1, <2>1, FS_AddElement DEF B
<1>2. CASE ~b
  <2>1. S \cup {y \in {x} : b} = S
    BY Zenon, <1>2
  <2> QED BY <1>0, <1>2, <2>1 DEF B
<1> QED BY Zenon, <1>1, <1>2

LEMMA PendingCount ==
    ASSUME TypeOK
    PROVE  /\ IsFiniteSet({o \in Op : Pending(o)})
           /\ Cardinality({o \in Op : Pending(o)}) =
                 B(c.armed) + B(c.poll) + B(c.sending)
<1> DEFINE S1 == {} \cup {y \in {"recv"} : c.armed}
           S2 == S1 \cup {y \in {"poll"} : c.poll}
           S3 == S2 \cup {y \in {"send"} : c.sending}
<1>0. c.armed \in BOOLEAN /\ c.poll \in BOOLEAN /\ c.sending \in BOOLEAN
  BY Zenon DEF TypeOK, Fields
<1>1. "poll" \notin S1 /\ "send" \notin S2
  BY Zenon
<1>2. {o \in Op : Pending(o)} = S3
  BY Zenon DEF Op, Pending
<1>3. IsFiniteSet(S1) /\ Cardinality(S1) = 0 + B(c.armed)
  <2>1. IsFiniteSet({}) /\ Cardinality({}) = 0 /\ "recv" \notin {}
    BY Zenon, FS_EmptySet
  <2> QED BY Zenon, <1>0, <2>1, OneMore
<1> HIDE DEF S1
<1>4. IsFiniteSet(S2) /\ Cardinality(S2) = Cardinality(S1) + B(c.poll)
  BY Zenon, <1>0, <1>1, <1>3, OneMore
<1> HIDE DEF S2
<1>5. IsFiniteSet(S3) /\ Cardinality(S3) = Cardinality(S2) + B(c.sending)
  BY Zenon, <1>0, <1>1, <1>4, OneMore
<1> HIDE DEF S3
<1>6. B(c.armed) \in Nat /\ B(c.poll) \in Nat /\ B(c.sending) \in Nat
  BY Zenon DEF B
<1>7. 0 + B(c.armed) = B(c.armed)
  BY <1>6
<1> QED BY Zenon, <1>2, <1>3, <1>4, <1>5, <1>7

LEMMA ExactInflight ==
    ASSUME ConnectionInv
    PROVE  InflightExact
<1>0. TypeOK /\ InflightOK /\ cq \in Seq(Cqe)
  BY Zenon DEF ConnectionInv, FieldInv, TypeOK
<1>1. \A o \in Op : OperationOK(o)
  BY Zenon DEF ConnectionInv, QueueInv
<1> DEFINE K == {o \in DOMAIN kernel : kernel[o] # "none"}
           Q == {o \in Op : LastQueued(o)}
           P == {o \in Op : Pending(o)}
           f == [i \in LastCompletions |-> cq[i].op]
<1>2. DOMAIN kernel = Op
  BY Zenon, <1>0 DEF TypeOK
<1>3. K \cup Q = P /\ K \cap Q = {}
  <2>1. \A o \in Op : LastQueued(o) => Pending(o)
    BY Zenon, <1>1 DEF OperationOK, LastQueued
  <2>2. \A o \in Op : /\ kernel[o] # "none" => Pending(o) /\ ~LastQueued(o)
                      /\ Pending(o) => kernel[o] # "none" \/ LastQueued(o)
    BY Zenon, <1>1 DEF OperationOK
  <2> QED BY Zenon, <1>2, <2>1, <2>2
<1>4. f \in Bijection(LastCompletions, Q)
  <2>1. \A i \in 1..Len(cq) : cq[i].op \in Op
    <3>1. \A i \in 1..Len(cq) : cq[i] \in Cqe
      BY <1>0
    <3> QED BY Zenon, <3>1 DEF Cqe
  <2>2. \A i \in LastCompletions : i \in 1..Len(cq) /\ ~cq[i].more /\ cq[i].op \in Q
    BY Zenon, <2>1 DEF LastCompletions, LastQueued
  <2>3. \A o \in Q : \E i \in LastCompletions : cq[i].op = o
    BY Zenon DEF LastCompletions, LastQueued
  <2>4. ASSUME NEW i \in LastCompletions, NEW j \in LastCompletions, cq[i].op = cq[j].op
        PROVE  i = j
    <3>1. OperationOK(cq[i].op)
      BY Zenon, <1>1, <2>1, <2>2
    <3>2. ~(i < j) /\ ~(j < i)
      BY Zenon, <2>2, <2>4, <3>1 DEF OperationOK
    <3>3. i \in Int /\ j \in Int
      BY <2>2
    <3> QED BY <3>2, <3>3
  <2> HIDE DEF Q
  <2>5. f \in [LastCompletions -> Q] /\ \A i \in LastCompletions : f[i] = cq[i].op
    BY Zenon, <2>2
  <2> HIDE DEF f
  <2>6. \A i, j \in LastCompletions : f[i] = f[j] => i = j
    BY Zenon, <2>4, <2>5
  <2>7. \A o \in Q : \E i \in LastCompletions : f[i] = o
    BY Zenon, <2>3, <2>5
  <2> QED BY Zenon, <2>5, <2>6, <2>7 DEF Bijection, Injection, IsInjective, Surjection
<1>5. IsFiniteSet(LastCompletions)
  <2>1. IsFiniteSet(1..Len(cq)) /\ LastCompletions \in SUBSET (1..Len(cq))
    BY <1>0, FS_Interval DEF LastCompletions
  <2> QED BY Zenon, <2>1, FS_Subset
<1>6. Cardinality(Q) = Cardinality(LastCompletions)
  <2>1. ExistsBijection(LastCompletions, Q)
    BY Zenon, <1>4 DEF ExistsBijection
  <2> QED BY Zenon, <1>5, <2>1, FS_Bijection
<1>7. IsFiniteSet(P) /\ Cardinality(P) = c.inflight
  BY Zenon, <1>0, PendingCount DEF InflightOK
<1>8. IsFiniteSet(K) /\ IsFiniteSet(Q)
  <2>1. K \in SUBSET P /\ Q \in SUBSET P
    BY Zenon, <1>3
  <2> QED BY Zenon, <1>7, <2>1, FS_Subset
<1> HIDE DEF K, Q, P
<1>9. Cardinality(P) = Cardinality(K) + Cardinality(Q)
  <2>1. Cardinality(K \cup Q) = Cardinality(K) + Cardinality(Q) - Cardinality(K \cap Q)
    BY Zenon, <1>8, FS_Union
  <2>2. Cardinality(K) \in Nat /\ Cardinality(Q) \in Nat
    BY Zenon, <1>8, FS_CardinalityType
  <2>3. Cardinality(K \cap Q) = 0
    BY Zenon, <1>3, FS_EmptySet
  <2>4. \A x, y \in Nat : x + y - 0 = x + y
    OBVIOUS
  <2> QED BY Zenon, <1>3, <2>1, <2>2, <2>3, <2>4
<1>10. c.inflight = Cardinality(K) + Cardinality(LastCompletions)
  BY Zenon, <1>6, <1>7, <1>9
<1> QED BY Zenon, <1>10 DEF InflightExact, K

LEMMA NobodyRefers ==
    ASSUME ConnectionInv
    PROVE  NoUseAfterReclaim
<1> SUFFICES ASSUME c.state = "freed"
             PROVE  /\ \A o \in DOMAIN kernel : kernel[o] = "none"
                    /\ cq = <<>> /\ ~c.rearm
                    /\ reader \in {"none", "paused"} /\ writer = "none"
                    /\ c.borrows = 0
  BY Zenon DEF NoUseAfterReclaim
<1>0. TypeOK /\ QueueInv /\ StageOK /\ ReaderOK
  BY Zenon DEF ConnectionInv, FieldInv
<1>1. /\ c.borrows = 0 /\ pc = "round" /\ reader \in {"none", "paused"}
      /\ writer = "none" /\ \A o \in Op : ~Pending(o)
  BY Zenon, <1>0 DEF StageOK
<1>2. cq = <<>> /\ \A o \in Op : kernel[o] = "none"
  BY Zenon, <1>0, <1>1, NothingPending
<1>3. DOMAIN kernel = Op
  BY Zenon, <1>0 DEF TypeOK
<1>4. ~c.rearm
  BY Zenon, <1>0, <1>1 DEF ReaderOK
<1> QED BY Zenon, <1>1, <1>2, <1>3, <1>4

LEMMA ReceiveServes ==
    ASSUME ConnectionInv
    PROVE  ReceiveFollowsReader
<1>0. TypeOK /\ QueueInv /\ ReaderOK
  BY Zenon DEF ConnectionInv, FieldInv
<1>1. ReaderHasReceive
  <2> SUFFICES ASSUME reader = "waiting", ~c.paused
               PROVE  /\ c.waiter
                      /\ \/ kernel["recv"] # "none" \/ Completions("recv") # {}
                         \/ c.rearm
    BY Zenon DEF ReaderHasReceive
  <2>1. c.waiter /\ (c.armed \/ c.rearm)
    BY Zenon, <1>0 DEF ReaderOK
  <2>2. "recv" \in Op /\ (c.armed => Pending("recv"))
    BY Zenon DEF Op, Pending
  <2>3. OperationOK("recv")
    BY Zenon, <1>0, <2>2 DEF QueueInv
  <2>4. c.armed => kernel["recv"] # "none" \/ LastQueued("recv")
    BY Zenon, <2>2, <2>3 DEF OperationOK
  <2>5. LastQueued("recv") => Completions("recv") # {}
    BY Zenon DEF LastQueued, Completions
  <2> QED BY Zenon, <2>1, <2>4, <2>5
<1>2. PausedIsQuiet
  <2> SUFFICES ASSUME reader = "paused"
               PROVE  /\ kernel["recv"] = "none" /\ Completions("recv") = {}
                      /\ ~c.rearm /\ c.received = 0
    BY Zenon DEF PausedIsQuiet
  <2>1. ~c.armed /\ ~c.rearm /\ c.received = 0
    BY Zenon, <1>0 DEF ReaderOK
  <2>2. /\ \A i \in 1..Len(cq) : cq[i].op # "recv"
        /\ kernel["recv"] = "none"
    BY Zenon, <1>0, <2>1, NothingReceived
  <2>3. Completions("recv") = {}
    BY Zenon, <2>2 DEF Completions
  <2> QED BY Zenon, <2>1, <2>2, <2>3
<1> QED BY Zenon, <1>1, <1>2 DEF ReceiveFollowsReader

-----------------------------------------------------------------------------
LEMMA InvInit ==
    ASSUME Init
    PROVE  ConnectionInv
<1>1. /\ cq = <<>> /\ Len(cq) = 0 /\ cq \in Seq(Cqe)
  BY DEF Init
<1>2. c \in Fields
  <2>1. 0 \in Nat /\ 1 \in 0..1
    OBVIOUS
  <2> QED BY Zenon, <2>1 DEF Init, Fields
<1>3. TypeOK
  BY Zenon, BuffersAssumption, <1>1, <1>2 DEF Init, TypeOK, Op
<1>4. FieldInv
  BY DEF Init, FieldInv, InflightOK, StageOK, ReaderOK, Pending, B, Op
<1>5. QueueOK /\ \A o \in Op : OperationOK(o)
  BY <1>1 DEF Init, QueueOK, OperationOK, LastQueued, Pending, Op
<1>6. BuffersConserved
  <2>1. DataCompletions = {}
    BY <1>1 DEF DataCompletions
  <2>2. Cardinality(DataCompletions) = 0
    BY Zenon, <2>1, FS_EmptySet
  <2> QED BY BuffersAssumption, <2>2 DEF Init, BuffersConserved
<1> QED BY Zenon, <1>3, <1>4, <1>5, <1>6 DEF ConnectionInv, QueueInv

LEMMA InvNext ==
    ASSUME ConnectionInv, [Next]_vars
    PROVE  ConnectionInv'
<1>1. CASE UNCHANGED vars
  <2>1. UNCHANGED <<c, reader, writer, kernel, cq, free, pc>>
    BY Zenon, <1>1 DEF vars
  <2>2. TypeOK' /\ FieldInv'
    BY ZenonT(40), <2>1 DEF ConnectionInv, TypeOK, FieldInv, InflightOK, StageOK, ReaderOK, Pending
  <2>3. QueueInv'
    BY Zenon, <2>1, <2>2, QueueUntouched
  <2> QED BY Zenon, <2>2, <2>3 DEF ConnectionInv
<1>2. CASE SessionStep
  BY Zenon, <1>2, InvRead, InvCoroutine, InvReclaim DEF SessionStep
<1>3. CASE WorkerStep
  BY ZenonT(40), <1>3, InvPoll, InvHandleMultishotRecv, InvHandlePeerDisconnect,
     InvPeerCallback, InvWriteComplete, InvDrainRecvRearm DEF WorkerStep
<1>4. CASE KernelStep \/ PostData \/ PostNoBuffers \/ PostEnd \/ PostHangup
  BY Zenon, <1>4, InvPost DEF KernelStep
<1>5. CASE Reclaim \/ Close \/ EndSession \/ IdleTimeout \/ CloseAtShutdown
  BY Zenon, <1>5, InvReclaim, InvClose, InvEndSession
<1>6. CASE SetReadAhead \/ ReadNow \/ ReadWait \/ Write \/ WatchPeer \/ PauseRead
  BY Zenon, <1>6, InvSetReadAhead, InvRead, InvReadWait, InvWrite, InvWatchPeer,
     InvPauseRead
<1> QED BY Zenon, <1>1, <1>2, <1>3, <1>4, <1>5, <1>6 DEF Next

(* The invariant is inductive.                                             *)
THEOREM ConnectionInvariant ==
    Spec => []ConnectionInv
<1>1. Init => ConnectionInv
  BY Zenon, InvInit
<1>2. ConnectionInv /\ [Next]_vars => ConnectionInv'
  BY Zenon, InvNext
<1> QED BY <1>1, <1>2, PTL DEF Spec

(* inflight_ops_ counts exactly the operations that will still report, and *)
(* every provided buffer is free, queued or held: whatever the order of    *)
(* arming, cancelling, rearming, pausing and closing, with any number of   *)
(* buffers.                                                                *)
THEOREM CountsStayExact ==
    Spec => []CountsExact
<1>1. ConnectionInv => CountsExact
  BY Zenon, ExactInflight DEF CountsExact, ConnectionInv, QueueInv
<1> QED BY <1>1, ConnectionInvariant, PTL

(* When ReclaimConnections erases a connection, no operation, completion,  *)
(* rearm entry, coroutine or session refers to it, then or later.          *)
THEOREM ErasedIsUnreferenced ==
    Spec => []NoUseAfterReclaim
<1>1. ConnectionInv => NoUseAfterReclaim
  BY Zenon, NobodyRefers
<1> QED BY <1>1, ConnectionInvariant, PTL

(* A suspended reader has a receive that will resume it, and no receive    *)
(* takes bytes from the socket once PauseRead has succeeded.               *)
THEOREM ReceiveServesReader ==
    Spec => []ReceiveFollowsReader
<1>1. ConnectionInv => ReceiveFollowsReader
  BY Zenon, ReceiveServes
<1> QED BY <1>1, ConnectionInvariant, PTL
=============================================================================
