--------------------------- MODULE IoUringProofs ---------------------------
(***************************************************************************)
(* Every operation the backend accepts has one terminal completion to      *)
(* come, cancels hit what they are aimed at, and the kernel is given       *)
(* current operations in the order they were accepted, for any addresses,  *)
(* descriptors and sizes.                                                  *)
(***************************************************************************)
EXTENDS IoUring, WellFoundedInduction, TLAPS

Address == Tag \cup {None}
Entry == [op : {"io", "cancel", "cancelled", "nop"}, tag : Address, n : Nat,
          fd : Fd \cup {None}, g : Nat, target : Address, aim : Nat]
Completion == [tag : Address, n : Nat, more : BOOLEAN]

QueueTypes == pendingIo \in Seq(Entry) /\ sq \in Seq(Entry) /\ Len(sq) <= SqEntries

TypeOK ==
    /\ QueueTypes
    /\ kernel \subseteq Entry
    /\ cq \in Seq(Completion) /\ deferred \in Seq(Completion)
    /\ detached \in Seq(Completion)
    /\ mayCancel \in BOOLEAN
    /\ live \in [Tag -> Nat] /\ ops \in Nat /\ generation \in [Fd -> Nat]

-----------------------------------------------------------------------------
(* Who owes the last completion of a tag: entries of a queue, operations   *)
(* in the kernel, completions on their way.                                *)
Tags(s) == {t \in Tag : \E i \in 1..Len(s) : s[i].tag = t}
InKernelTags(k) == {t \in Tag : \E r \in k : r.tag = t}
Ends(s) == {t \in Tag : \E i \in 1..Len(s) : s[i].tag = t /\ ~s[i].more}
Owned(l) == {t \in Tag : l[t] # 0}

(* None of them owes it twice.                                             *)
OnceIn(s) == \A i, j \in 1..Len(s) : s[i].tag \in Tag /\ s[i].tag = s[j].tag => i = j
OnceInKernel(k) == \A r, q \in k : r.tag \in Tag /\ r.tag = q.tag => r = q
OnceEnded(s) ==
    \A i, j \in 1..Len(s) :
        s[i].tag \in Tag /\ s[i].tag = s[j].tag /\ ~s[i].more /\ ~s[j].more => i = j

(* No two of them owe it.                                                  *)
Apart(U, K, Q, D, E) ==
    /\ U \cap K = {} /\ U \cap Q = {} /\ U \cap D = {} /\ U \cap E = {}
    /\ K \cap Q = {} /\ K \cap D = {} /\ K \cap E = {}
    /\ Q \cap D = {} /\ Q \cap E = {} /\ D \cap E = {}
Shared(U, K, Q, D, E, L) == Apart(U, K, Q, D, E) /\ L = U \cup K \cup Q \cup D \cup E

Owing ==
    Shared(Tags(Unsubmitted), InKernelTags(kernel), Ends(cq), Ends(deferred),
           Ends(detached), Owned(live))

(* All of them know the operation that owns the tag.                       *)
KnownIn(s, l) == \A i \in 1..Len(s) : s[i].tag \in Tag => s[i].n = l[s[i].tag]
KnownInKernel(k, l) == \A r \in k : r.tag \in Tag => r.n = l[r.tag]
KnownEnds(s, l) ==
    \A i \in 1..Len(s) : s[i].tag \in Tag /\ ~s[i].more => s[i].n = l[s[i].tag]

(* What the kernel has not taken: an operation or a no-op, current, ...    *)
EntryOK(e, l, o, g) ==
    /\ e.op \in {"io", "cancel", "nop"}
    /\ e.op = "nop" => e = Nop
    /\ e.op # "nop" => e.n \in 1..o
    /\ e.op = "cancel" => e.target \in IoTag /\ e.aim # 0 /\ l[e.target] = e.aim
    /\ e.op = "io" /\ e.fd # None => e.g = g[e.fd]

(* ... in order.                                                           *)
Ordered(s) ==
    \A i, j \in 1..Len(s) :
        i < j /\ s[i].op # "nop" /\ s[j].op # "nop" => s[i].n < s[j].n

QueueOK(s, l, o, g, m) ==
    /\ OnceIn(s) /\ KnownIn(s, l) /\ Ordered(s)
    /\ \A i \in 1..Len(s) : EntryOK(s[i], l, o, g) /\ (s[i].op = "cancel" => m)

EndsOK(s, l) == OnceEnded(s) /\ KnownEnds(s, l)

(* The invariant.  The completions that are dispatched last only a round.  *)
BackendInv ==
    /\ TypeOK
    /\ Owing
    /\ QueueOK(Unsubmitted, live, ops, generation, mayCancel)
    /\ OnceInKernel(kernel) /\ KnownInKernel(kernel, live)
    /\ EndsOK(cq, live) /\ EndsOK(deferred, live) /\ EndsOK(detached, live)
    /\ pc # "deferred" => detached = <<>>

-----------------------------------------------------------------------------
(* The places of entries.  A set of natural numbers has a least element.   *)
LEMMA Least ==
    ASSUME NEW T, T \subseteq Nat, T # {}
    PROVE  \E x \in T : \A y \in T : x <= y
  <1>1. PICK x \in T : \A y \in T : ~ (<<y, x>> \in OpToRel(<, Nat))
    BY NatLessThanWellFounded, WFMin, Zenon
  <1>2. ASSUME NEW y \in T PROVE x <= y
    <2>1. x \in Nat /\ y \in Nat
      OBVIOUS
    <2>2. ~ (<<y, x>> \in {ss \in Nat \X Nat : ss[1] < ss[2]})
      BY <1>1 DEF OpToRel
    <2> QED BY <2>1, <2>2
  <1> QED BY <1>2

(* The numbers of P, which are at most m, in their order.                  *)
Sorted(P, k, p) ==
    /\ p \in [1..k -> P]
    /\ \A x \in P : \E i \in 1..k : p[i] = x
    /\ \A i, j \in 1..k : i < j => p[i] < p[j]

(* They can be sorted: the largest comes behind the others.                *)
LEMMA CanBeSorted ==
    ASSUME NEW n \in Nat, NEW P \in SUBSET (1..n)
    PROVE  \E k \in 0..n : \E p : Sorted(P, k, p)
  <1> DEFINE Works(m) == \A Q \in SUBSET (1..m) : \E k \in 0..m : \E p : Sorted(Q, k, p)
             T == {m \in Nat : ~Works(m)}
  <1>1. SUFFICES T = {}
    <2>1. n \notin T
      BY <1>1
    <2>2. Works(n)
      BY <2>1
    <2> QED BY <2>2
  <1>2. SUFFICES ASSUME T # {} PROVE FALSE
    OBVIOUS
  <1>3. PICK m \in T : \A y \in T : m <= y
    BY Zenon, <1>2, Least
  <1>4. m \in Nat /\ ~Works(m)
    BY <1>3
  <1>5. PICK Q \in SUBSET (1..m) : \A k \in 0..m : \A p : ~Sorted(Q, k, p)
    BY <1>4
  <1>6. m # 0
    <2>1. SUFFICES ASSUME m = 0 PROVE FALSE
      OBVIOUS
    <2>2. Q = {}
      BY <2>1, <1>5
    <2>3. Sorted(Q, 0, [i \in 1..0 |-> i])
      BY <2>2 DEF Sorted
    <2>4. 0 \in 0..m
      BY <1>4
    <2> QED BY <2>3, <2>4, <1>5
  <1>7. m - 1 \in Nat /\ m - 1 \notin T
    <2>1. m - 1 \in Nat /\ ~(m <= m - 1)
      BY <1>4, <1>6
    <2> QED BY <2>1, <1>3, Zenon
  <1>8. Works(m - 1)
    BY <1>7
  <1> DEFINE R == Q \ {m}
  <1>9. R \in SUBSET (1..(m - 1))
    BY <1>4, <1>5
  <1>10. PICK k \in 0..(m - 1) : \E p : Sorted(R, k, p)
    BY <1>8, <1>9
  <1>11. PICK p : Sorted(R, k, p)
    BY <1>10
  <1>12. k \in 0..m /\ k + 1 \in 0..m /\ k \in Nat
    BY <1>4, <1>10, <1>6
  <1>13. CASE m \notin Q
    <2>1. R = Q
      BY <1>13
    <2> QED BY <2>1, <1>11, <1>12, <1>5
  <1>14. CASE m \in Q
    <2> DEFINE q == [i \in 1..(k + 1) |-> IF i = k + 1 THEN m ELSE p[i]]
    <2>0. \A i \in 1..k : p[i] \in R /\ p[i] \in 1..(m - 1) /\ q[i] = p[i]
      <3> TAKE i \in 1..k
      <3>1. p[i] \in R
        BY <1>11 DEF Sorted
      <3>2. p[i] \in 1..(m - 1)
        BY Zenon, <3>1, <1>9
      <3>3. i \in 1..(k + 1) /\ i # k + 1
        BY <1>12
      <3> QED BY <3>1, <3>2, <3>3
    <2>1. q[k + 1] = m /\ \A i \in 1..(k + 1) : i # k + 1 => i \in 1..k
      BY <1>12
    <2>2. q \in [1..(k + 1) -> Q]
      BY Zenon, <2>0, <2>1, <1>14
    <2>3. \A x \in Q : \E i \in 1..(k + 1) : q[i] = x
      <3> TAKE x \in Q
      <3>1. CASE x = m
        BY <3>1, <2>1, <1>12
      <3>2. CASE x # m
        <4>1. PICK i \in 1..k : p[i] = x
          BY <3>2, <1>11 DEF Sorted
        <4> QED BY <4>1, <2>0, <1>12
      <3> QED BY <3>1, <3>2
    <2>4. \A i, j \in 1..(k + 1) : i < j => q[i] < q[j]
      <3> TAKE i, j \in 1..(k + 1)
      <3> HAVE i < j
      <3>1. i \in 1..k
        BY <1>12
      <3>2. CASE j = k + 1
        <4>1. q[i] \in 1..(m - 1) /\ q[j] = m
          BY <3>1, <3>2, <2>0, <2>1, Zenon
        <4> HIDE DEF q
        <4> QED BY <4>1, <1>4
      <3>3. CASE j # k + 1
        <4>1. j \in 1..k
          BY <3>3, <2>1
        <4>2. p[i] < p[j]
          BY <3>1, <4>1, <1>11 DEF Sorted
        <4> QED BY <3>1, <4>1, <4>2, <2>0
      <3> QED BY <3>2, <3>3
    <2>5. Sorted(Q, k + 1, q)
      BY <2>2, <2>3, <2>4 DEF Sorted
    <2> QED BY <2>5, <1>12, <1>5
  <1> QED BY <1>13, <1>14

(* Entries takes the entries at the places of P, each once, in their order.*)
LEMMA EntriesAre ==
    ASSUME NEW S, NEW s \in Seq(S), NEW P \in SUBSET (1..Len(s))
    PROVE  \E k \in Nat : \E p : /\ Sorted(P, k, p)
                                 /\ Entries(s, P) = [i \in 1..k |-> s[p[i]]]
                                 /\ Entries(s, P) \in Seq(S)
                                 /\ Len(Entries(s, P)) = k
  <1> DEFINE n == Len(s)
             O == InOrder(P, n)
             o == CHOOSE q \in O : TRUE
  <1>1. n \in Nat
    OBVIOUS
  <1> HIDE DEF n
  <1>2. PICK k \in 0..n : \E p : Sorted(P, k, p)
    BY Zenon, <1>1, CanBeSorted DEF n
  <1>3. PICK p : Sorted(P, k, p)
    BY <1>2
  <1>4. p \in O
    <2>1. p \in [1..k -> P] /\ DOMAIN p = 1..k
      BY <1>3 DEF Sorted
    <2>2. Range(p) = P
      BY Zenon, <2>1, <1>3 DEF Sorted, Range
    <2>3. \A i, j \in DOMAIN p : i < j => p[i] < p[j]
      BY <2>1, <1>3, Zenon DEF Sorted
    <2> QED BY <1>2, <2>1, <2>2, <2>3, Zenon DEF InOrder
  <1>5. o \in O
    BY <1>4, Zenon
  <1> HIDE DEF o
  <1>6. PICK l \in 0..n : o \in [1..l -> P]
    BY <1>5, Zenon DEF InOrder
  <1>7. l \in Nat /\ DOMAIN o = 1..l
    BY <1>1, <1>6
  <1>8. Sorted(P, l, o)
    <2>1. \A i, j \in 1..l : i < j => o[i] < o[j]
      BY <1>5, <1>7, Zenon DEF InOrder
    <2>2. \A x \in P : \E i \in 1..l : o[i] = x
      <3>1. Range(o) = P
        BY <1>5, Zenon DEF InOrder
      <3> QED BY <3>1, <1>7, Zenon DEF Range
    <2> QED BY <1>6, <2>1, <2>2, Zenon DEF Sorted
  <1>9. Entries(s, P) = [i \in 1..l |-> s[o[i]]]
    BY <1>7, Zenon DEF Entries, o, n
  <1>10. \A i \in 1..l : s[o[i]] \in S
    <2> TAKE i \in 1..l
    <2>1. o[i] \in 1..Len(s)
      BY Zenon, <1>6
    <2> QED BY <2>1
  <1>11. [i \in 1..l |-> s[o[i]]] \in Seq(S) /\ Len([i \in 1..l |-> s[o[i]]]) = l
    BY <1>7, <1>10
  <1> QED BY <1>7, <1>8, <1>9, <1>11, Zenon

-----------------------------------------------------------------------------
(* Sequences.  Two are equal if their elements are.                        *)
LEMMA SameSequence ==
    ASSUME NEW S, NEW s \in Seq(S), NEW t \in Seq(S), Len(s) = Len(t),
           \A i \in 1..Len(s) : s[i] = t[i]
    PROVE  s = t
  OBVIOUS

LEMMA Appended ==
    ASSUME NEW S, NEW s \in Seq(S), NEW e \in S
    PROVE  /\ Append(s, e) \in Seq(S) /\ Len(Append(s, e)) = Len(s) + 1
           /\ Append(s, e)[Len(s) + 1] = e
           /\ \A i \in 1..Len(s) : Append(s, e)[i] = s[i]
           /\ \A i \in 1..Len(Append(s, e)) : i \in 1..Len(s) \/ i = Len(s) + 1
           /\ Len(s) \in Nat
  OBVIOUS

LEMMA Concatenated ==
    ASSUME NEW S, NEW s \in Seq(S), NEW t \in Seq(S)
    PROVE  /\ s \o t \in Seq(S) /\ Len(s \o t) = Len(s) + Len(t)
           /\ Len(s) \in Nat /\ Len(t) \in Nat
           /\ \A i \in 1..Len(s) : (s \o t)[i] = s[i]
           /\ \A i \in 1..Len(t) : (s \o t)[Len(s) + i] = t[i]
           /\ \A i \in 1..Len(s \o t) :
                 i \in 1..Len(s) \/ \E j \in 1..Len(t) : i = Len(s) + j
  <1>1. /\ s \o t \in Seq(S) /\ Len(s \o t) = Len(s) + Len(t)
        /\ Len(s) \in Nat /\ Len(t) \in Nat
        /\ \A i \in 1..Len(s) : (s \o t)[i] = s[i]
        /\ \A i \in 1..Len(t) : (s \o t)[Len(s) + i] = t[i]
    OBVIOUS
  <1>2. ASSUME NEW i \in 1..Len(s \o t), i \notin 1..Len(s)
        PROVE  i - Len(s) \in 1..Len(t) /\ i = Len(s) + (i - Len(s))
    BY <1>1, <1>2
  <1> QED BY Zenon, <1>1, <1>2

LEMMA TailTaken ==
    ASSUME NEW S, NEW s \in Seq(S), s # <<>>
    PROVE  /\ Tail(s) \in Seq(S) /\ Len(Tail(s)) = Len(s) - 1
           /\ Len(s) \in Nat \ {0} /\ Head(s) = s[1] /\ s[1] \in S
           /\ \A i \in 1..Len(Tail(s)) : Tail(s)[i] = s[i + 1] /\ i + 1 \in 2..Len(s)
           /\ \A i \in 2..Len(s) : i - 1 \in 1..Len(Tail(s)) /\ Tail(s)[i - 1] = s[i]
           /\ \A i \in 1..Len(s) : i = 1 \/ i \in 2..Len(s)
  OBVIOUS

LEMMA AppendedBehind ==
    ASSUME NEW S, NEW s \in Seq(S), NEW t \in Seq(S), NEW e \in S
    PROVE  s \o Append(t, e) = Append(s \o t, e) /\ s \o <<>> = s
  OBVIOUS

(* The tail of what comes first.                                           *)
LEMMA TailOfFirst ==
    ASSUME NEW S, NEW s \in Seq(S), NEW t \in Seq(S), s # <<>>
    PROVE  /\ Tail(s) \o t = Tail(s \o t) /\ s \o t # <<>>
           /\ Head(s \o t) = Head(s)
  BY SMTT(30)

-----------------------------------------------------------------------------
(* What the kernel has not taken is one queue, in two pieces.              *)
LEMMA UnsubmittedType ==
    ASSUME QueueTypes
    PROVE  Unsubmitted \in Seq(Entry) /\ Len(Unsubmitted) \in Nat
  <1>1. Unsubmitted \in Seq(Entry)
    BY Concatenated, Zenon DEF QueueTypes, Unsubmitted
  <1> QED BY <1>1

(* An operation that is accepted comes last...                             *)
LEMMA SubmitAppends ==
    ASSUME QueueTypes, NEW e \in Entry, SubmitOrQueue(e)
    PROVE  QueueTypes' /\ Unsubmitted' = Append(Unsubmitted, e)
  <1>1. CASE pendingIo = <<>> /\ Len(sq) < SqEntries
    <2>1. sq' = Append(sq, e) /\ pendingIo' = <<>>
      BY <1>1 DEF SubmitOrQueue
    <2>2. sq' \o <<>> = sq' /\ sq \o <<>> = sq
      BY <2>1 DEF QueueTypes
    <2>3. QueueTypes'
      BY <1>1, <2>1, SizeAssumption DEF QueueTypes
    <2> QED BY <1>1, <2>1, <2>2, <2>3 DEF Unsubmitted
  <1>2. CASE ~(pendingIo = <<>> /\ Len(sq) < SqEntries)
    <2>1. pendingIo' = Append(pendingIo, e) /\ sq' = sq
      BY <1>2 DEF SubmitOrQueue
    <2>2. sq \o Append(pendingIo, e) = Append(sq \o pendingIo, e)
      BY DEF QueueTypes
    <2>3. QueueTypes'
      BY <2>1 DEF QueueTypes
    <2> QED BY <2>1, <2>2, <2>3 DEF Unsubmitted
  <1> QED BY <1>1, <1>2

(* ... and DrainPending keeps the order.                                   *)
LEMMA DrainKeeps ==
    ASSUME QueueTypes, DrainPending(sq, pendingIo)
    PROVE  QueueTypes' /\ Unsubmitted' = Unsubmitted
  <1> DEFINE room == SqEntries - Len(sq)
             k == IF room <= Len(pendingIo) THEN room ELSE Len(pendingIo)
  <1>1. /\ sq \in Seq(Entry) /\ pendingIo \in Seq(Entry) /\ Len(sq) \in Nat
        /\ Len(pendingIo) \in Nat /\ Len(sq) <= SqEntries
    BY DEF QueueTypes
  <1>2. k \in 0..Len(pendingIo) /\ Len(sq) + k <= SqEntries
    BY <1>1, SizeAssumption
  <1>3. /\ sq' = sq \o SubSeq(pendingIo, 1, k)
        /\ pendingIo' = SubSeq(pendingIo, k + 1, Len(pendingIo))
    BY Zenon DEF DrainPending
  <1> HIDE DEF k
  <1>4. /\ sq' \in Seq(Entry) /\ pendingIo' \in Seq(Entry) /\ Len(sq') = Len(sq) + k
        /\ sq' \o pendingIo' = sq \o pendingIo
    <2> DEFINE t == pendingIo
               a == SubSeq(t, 1, k)
               b == SubSeq(t, k + 1, Len(t))
    <2>1. /\ a \in Seq(Entry) /\ Len(a) = k /\ k \in Nat
          /\ \A i \in 1..k : a[i] = t[i]
      BY <1>1, <1>2
    <2>2. /\ b \in Seq(Entry) /\ Len(b) = Len(t) - k
          /\ \A i \in 1..(Len(t) - k) : b[i] = t[k + i]
      BY <1>1, <1>2
    <2>3. sq' = sq \o a /\ pendingIo' = b
      BY <1>3, Zenon
    <2> HIDE DEF a, b, t
    <2>4. t \in Seq(Entry) /\ Len(t) \in Nat /\ k \in 0..Len(t)
      BY <1>1, <1>2 DEF t
    <2>5. a \o b \in Seq(Entry) /\ Len(a \o b) = Len(t)
      BY ONLY <2>1, <2>2, <2>4
    <2>6. \A i \in 1..Len(a \o b) : (a \o b)[i] = t[i]
      <3> TAKE i \in 1..Len(a \o b)
      <3>1. CASE i \in 1..k
        BY ONLY <2>1, <2>2, <3>1
      <3>2. CASE i \notin 1..k
        <4>1. i - k \in 1..Len(b) /\ k + (i - k) = i
          BY <2>1, <2>2, <2>4, <2>5, <3>2
        <4>2. (a \o b)[i] = b[i - k]
          BY <2>1, <2>2, <3>2, <4>1
        <4> QED BY <2>2, <4>1, <4>2
      <3> QED BY <3>1, <3>2
    <2>7. a \o b = t
      BY ONLY <2>4, <2>5, <2>6, SameSequence, Zenon
    <2>8. sq \in Seq(Entry) /\ a \in Seq(Entry) /\ b \in Seq(Entry) /\ Len(a) = k
      BY <1>1, <2>1, <2>2, Zenon
    <2>9. /\ (sq \o a) \o b = sq \o (a \o b) /\ sq \o a \in Seq(Entry)
          /\ Len(sq \o a) = Len(sq) + k
      BY ONLY <2>8, SMTT(60)
    <2> QED BY <2>3, <2>7, <2>8, <2>9, Zenon DEF t
  <1> QED BY <1>2, <1>4 DEF QueueTypes, Unsubmitted

(* v is what is left of u when the entries in M are retired, by no-ops or  *)
(* by taking them out; g tells where its entries were.                     *)
LeftOf(u, v, M, g) ==
    /\ g \in [1..Len(v) -> 1..Len(u)]
    /\ \A i, j \in 1..Len(v) : i < j => g[i] < g[j]
    /\ \A i \in 1..Len(v) : v[i] = IF u[g[i]] \in M THEN Nop ELSE u[g[i]]
    /\ \A i \in 1..Len(u) : u[i] \notin M => \E j \in 1..Len(v) : g[j] = i

LEMMA NopType == Nop \in Entry
  BY DEF Nop, Entry, Address

(* CancelUnsubmittedMatching retires the entries in M.                     *)
LEMMA MatchingRetired ==
    ASSUME QueueTypes, NEW M, CancelUnsubmittedMatching(M)
    PROVE  QueueTypes' /\ \E g : LeftOf(Unsubmitted, Unsubmitted', M, g)
  <1> DEFINE n == Len(sq)
             P == 1..Len(pendingIo) \ Matching(pendingIo, M)
  <1>1. /\ sq \in Seq(Entry) /\ pendingIo \in Seq(Entry) /\ n \in Nat
        /\ Len(pendingIo) \in Nat /\ n <= SqEntries
    BY DEF QueueTypes
  <1>2. /\ sq' = [i \in 1..n |-> IF sq[i] \in M THEN Nop ELSE sq[i]]
        /\ pendingIo' = Entries(pendingIo, P)
    BY Zenon DEF CancelUnsubmittedMatching
  <1>3. P \in SUBSET (1..Len(pendingIo))
    OBVIOUS
  <1>4. \A i \in 1..Len(pendingIo) : i \in P <=> pendingIo[i] \notin M
    BY Zenon DEF Matching
  <1> HIDE DEF P, n
  <1>5. PICK k \in Nat : \E p : /\ Sorted(P, k, p)
                                /\ pendingIo' = [i \in 1..k |-> pendingIo[p[i]]]
                                /\ pendingIo' \in Seq(Entry) /\ Len(pendingIo') = k
    <2>1. \E k \in Nat : \E p : /\ Sorted(P, k, p)
                                /\ Entries(pendingIo, P) = [i \in 1..k |-> pendingIo[p[i]]]
                                /\ Entries(pendingIo, P) \in Seq(Entry)
                                /\ Len(Entries(pendingIo, P)) = k
      BY <1>1, <1>3, EntriesAre, SMTT(60)
    <2> QED BY <1>2, <2>1, Zenon
  <1>6. PICK p : /\ Sorted(P, k, p)
                 /\ pendingIo' = [i \in 1..k |-> pendingIo[p[i]]]
                 /\ pendingIo' \in Seq(Entry) /\ Len(pendingIo') = k
    BY Zenon, <1>5
  <1>7. sq' \in Seq(Entry) /\ Len(sq') = n /\ \A i \in 1..n : sq'[i] \in Entry
    <2>1. \A i \in 1..n : sq[i] \in Entry
      BY <1>1 DEF n
    <2> QED BY <1>1, <1>2, <2>1, NopType
  <1>8. QueueTypes'
    BY <1>1, <1>6, <1>7 DEF QueueTypes
  <1> DEFINE u == Unsubmitted
             v == sq' \o pendingIo'
             g == [i \in 1..(n + k) |-> IF i \in 1..n THEN i ELSE n + p[i - n]]
  <1>9. /\ Len(u) = n + Len(pendingIo) /\ \A i \in 1..n : u[i] = sq[i]
        /\ \A i \in 1..Len(pendingIo) : u[n + i] = pendingIo[i]
    <2>1. /\ Len(sq \o pendingIo) = Len(sq) + Len(pendingIo)
          /\ \A i \in 1..Len(sq) : (sq \o pendingIo)[i] = sq[i]
          /\ \A i \in 1..Len(pendingIo) : (sq \o pendingIo)[Len(sq) + i] = pendingIo[i]
      BY <1>1, Concatenated
    <2> QED BY <2>1, Zenon DEF Unsubmitted, n
  <1>10. /\ Len(v) = n + k /\ \A i \in 1..n : v[i] = sq'[i]
         /\ \A i \in 1..k : v[n + i] = pendingIo'[i]
    <2>1. /\ Len(sq' \o pendingIo') = Len(sq') + Len(pendingIo')
          /\ \A i \in 1..Len(sq') : (sq' \o pendingIo')[i] = sq'[i]
          /\ \A i \in 1..Len(pendingIo') :
                (sq' \o pendingIo')[Len(sq') + i] = pendingIo'[i]
      <3>1. sq' \in Seq(Entry) /\ pendingIo' \in Seq(Entry)
        BY <1>6, <1>7, Zenon
      <3> QED BY ONLY <3>1, Concatenated
    <2> QED BY <2>1, <1>6, <1>7, Zenon
  <1> HIDE DEF u, v
  <1>11. \A i \in 1..k : /\ p[i] \in 1..Len(pendingIo) /\ pendingIo[p[i]] \notin M
                         /\ g[n + i] = n + p[i] /\ n + i \in 1..(n + k)
    <2> TAKE i \in 1..k
    <2>1. p[i] \in P
      BY <1>6 DEF Sorted
    <2>2. n + i \in 1..(n + k) /\ n + i \notin 1..n /\ (n + i) - n = i
      BY <1>1
    <2> QED BY Zenon, <1>3, <1>4, <2>1, <2>2
  <1>12. \A i \in 1..n : g[i] = i /\ i \in 1..(n + k)
    BY <1>1
  <1>13. \A i \in 1..(n + k) : i \in 1..n \/ \E j \in 1..k : i = n + j
    <2>1. ASSUME NEW i \in 1..(n + k), i \notin 1..n
          PROVE  i - n \in 1..k /\ i = n + (i - n)
      BY <1>1, <2>1
    <2> QED BY <2>1
  <1>14. \A i \in 1..(n + k) : g[i] \in 1..Len(u)
    <2> TAKE i \in 1..(n + k)
    <2>1. CASE i \in 1..n
      BY <2>1, <1>1, <1>9, <1>12
    <2>2. CASE \E j \in 1..k : i = n + j
      <3>1. PICK j \in 1..k : i = n + j
        BY <2>2
      <3>2. g[i] = n + p[j] /\ p[j] \in 1..Len(pendingIo)
        BY <3>1, <1>11, Zenon
      <3> HIDE DEF g
      <3> QED BY <3>2, <1>1, <1>9
    <2> QED BY <2>1, <2>2, <1>13
  <1>15. g \in [1..(n + k) -> 1..Len(u)]
    BY <1>14
  <1> HIDE DEF g
  <1>16. \A i, j \in 1..(n + k) : i < j => g[i] < g[j]
    <2> TAKE i, j \in 1..(n + k)
    <2> HAVE i < j
    <2>1. CASE i \in 1..n /\ j \in 1..n
      BY <2>1, <1>12
    <2>2. CASE i \in 1..n /\ j \notin 1..n
      <3>1. PICK l \in 1..k : j = n + l
        BY <2>2, <1>13
      <3>2. g[j] = n + p[l] /\ p[l] \in 1..Len(pendingIo) /\ g[i] = i
        BY <3>1, <2>2, <1>11, <1>12, Zenon
      <3> QED BY <3>2, <2>2, <1>1
    <2>3. CASE i \notin 1..n
      <3>1. PICK m \in 1..k : i = n + m
        BY <2>3, <1>13
      <3>2. j \notin 1..n
        BY <2>3, <1>1
      <3>3. PICK l \in 1..k : j = n + l
        BY <3>2, <1>13
      <3>4. m < l
        BY <3>1, <3>3, <1>1
      <3>5. p[m] < p[l]
        BY <3>4, <1>6, Zenon DEF Sorted
      <3>6. g[i] = n + p[m] /\ g[j] = n + p[l]
        BY <3>1, <3>3, <1>11, Zenon
      <3>7. p[m] \in Nat /\ p[l] \in Nat
        BY <1>11
      <3> QED BY SMTT(30), <3>5, <3>6, <3>7, <1>1
    <2> QED BY <2>1, <2>2, <2>3
  <1>17. \A i \in 1..(n + k) : v[i] = IF u[g[i]] \in M THEN Nop ELSE u[g[i]]
    <2> TAKE i \in 1..(n + k)
    <2>1. CASE i \in 1..n
      <3>1. sq'[i] = IF sq[i] \in M THEN Nop ELSE sq[i]
        BY <2>1, <1>2
      <3> QED BY <3>1, <2>1, <1>9, <1>10, <1>12, Zenon
    <2>2. CASE \E j \in 1..k : i = n + j
      <3>1. PICK j \in 1..k : i = n + j
        BY <2>2
      <3>2. pendingIo'[j] = pendingIo[p[j]]
        BY <1>6
      <3> QED BY <3>1, <3>2, <1>9, <1>10, <1>11, ZenonT(40)
    <2> QED BY <2>1, <2>2, <1>13
  <1>18. ASSUME NEW i \in 1..Len(u), u[i] \notin M PROVE \E j \in 1..(n + k) : g[j] = i
    <2>1. CASE i \in 1..n
      BY <2>1, <1>12
    <2>2. CASE i \notin 1..n
      <3>1. i - n \in 1..Len(pendingIo) /\ n + (i - n) = i
        BY <2>2, <1>1, <1>9
      <3>2. i - n \in P
        BY <3>1, <1>4, <1>9, <1>18
      <3>3. PICK j \in 1..k : p[j] = i - n
        BY <3>2, <1>6 DEF Sorted
      <3> QED BY <3>1, <3>3, <1>11
    <2> QED BY <2>1, <2>2
  <1>19. LeftOf(u, v, M, g)
    BY <1>10, <1>15, <1>16, <1>17, <1>18, Zenon DEF LeftOf
  <1> QED BY <1>8, <1>19, Zenon DEF u, v, Unsubmitted

-----------------------------------------------------------------------------
(* The entries of a queue that is as it should be stay so when others are  *)
(* added, taken or retired.                                                *)
LEMMA QueueChanged ==
    ASSUME NEW u, NEW l, NEW o \in Nat, NEW g, NEW m, QueueOK(u, l, o, g, m),
           NEW l2, NEW o2 \in Nat, NEW g2, NEW m2, o <= o2,
           \A i \in 1..Len(u) :
               /\ u[i].tag \in Tag => l2[u[i].tag] = l[u[i].tag]
               /\ u[i].op = "cancel" => l2[u[i].target] = l[u[i].target] /\ m2
               /\ u[i].op = "io" /\ u[i].fd # None => g2[u[i].fd] = g[u[i].fd]
    PROVE  QueueOK(u, l2, o2, g2, m2)
  <1>1. OnceIn(u) /\ KnownIn(u, l) /\ Ordered(u)
    BY Zenon DEF QueueOK
  <1>2. KnownIn(u, l2)
    BY <1>1, Zenon DEF KnownIn
  <1>3. \A n \in 1..o : n \in 1..o2
    OBVIOUS
  <1>4. ASSUME NEW i \in 1..Len(u)
        PROVE  EntryOK(u[i], l2, o2, g2) /\ (u[i].op = "cancel" => m2)
    <2>1. EntryOK(u[i], l, o, g)
      BY Zenon DEF QueueOK
    <2> QED BY <1>3, <2>1, Zenon DEF EntryOK
  <1> QED BY <1>1, <1>2, <1>4, Zenon DEF QueueOK

LEMMA QueueAppended ==
    ASSUME NEW u \in Seq(Entry), NEW e \in Entry, NEW l, NEW o, NEW g, NEW m,
           QueueOK(u, l, o, g, m), EntryOK(e, l, o, g), e.op = "cancel" => m,
           \A i \in 1..Len(u) : u[i].op # "nop" => u[i].n < e.n,
           e.tag \in Tag => e.tag \notin Tags(u) /\ e.n = l[e.tag]
    PROVE  /\ QueueOK(Append(u, e), l, o, g, m)
           /\ Tags(Append(u, e)) = Tags(u) \cup (Tag \cap {e.tag})
  <1> DEFINE v == Append(u, e)
             k == Len(u)
  <1>1. /\ v \in Seq(Entry) /\ Len(v) = k + 1 /\ v[k + 1] = e
        /\ \A i \in 1..k : v[i] = u[i] /\ i \in 1..Len(v)
        /\ \A i \in 1..Len(v) : i \in 1..k \/ i = k + 1
        /\ k \in Nat /\ k + 1 \in 1..Len(v)
    BY Appended
  <1>2. \A i \in 1..k : u[i].tag \in Tag => u[i].tag \in Tags(u)
    BY Zenon DEF Tags
  <1>3. \A i, j \in 1..Len(v) : i < j => i \in 1..k
    BY <1>1
  <1> HIDE DEF v, k
  <1>4. OnceIn(v)
    <2>1. OnceIn(u)
      BY Zenon DEF QueueOK
    <2>2. \A i, j \in 1..k : u[i].tag \in Tag /\ u[i].tag = u[j].tag => i = j
      BY <2>1, Zenon DEF OnceIn, k
    <2> SUFFICES ASSUME NEW i \in 1..Len(v), NEW j \in 1..Len(v), v[i].tag \in Tag,
                        v[i].tag = v[j].tag
                 PROVE  i = j
      BY Zenon DEF OnceIn
    <2> QED BY <1>1, <1>2, <2>2, Zenon
  <1>5. KnownIn(v, l)
    <2>1. \A i \in 1..k : u[i].tag \in Tag => u[i].n = l[u[i].tag]
      BY Zenon DEF QueueOK, KnownIn, k
    <2> QED BY <1>1, <2>1, Zenon DEF KnownIn
  <1>6. Ordered(v)
    <2>1. \A i, j \in 1..k :
              i < j /\ u[i].op # "nop" /\ u[j].op # "nop" => u[i].n < u[j].n
      BY Zenon DEF QueueOK, Ordered, k
    <2>2. \A i \in 1..k : u[i].op # "nop" => u[i].n < e.n
      BY Zenon DEF k
    <2> SUFFICES ASSUME NEW i \in 1..Len(v), NEW j \in 1..Len(v), i < j,
                        v[i].op # "nop", v[j].op # "nop"
                 PROVE  v[i].n < v[j].n
      BY Zenon DEF Ordered
    <2>3. i \in 1..k /\ v[i] = u[i]
      BY <1>1, <1>3, Zenon
    <2> QED BY <1>1, <2>1, <2>2, <2>3, Zenon
  <1>7. \A i \in 1..Len(v) : EntryOK(v[i], l, o, g) /\ (v[i].op = "cancel" => m)
    <2>1. \A i \in 1..k : EntryOK(u[i], l, o, g) /\ (u[i].op = "cancel" => m)
      BY Zenon DEF QueueOK, k
    <2> QED BY <1>1, <2>1, Zenon
  <1>8. QueueOK(v, l, o, g, m)
    BY <1>4, <1>5, <1>6, <1>7, Zenon DEF QueueOK
  <1>9. Tags(v) = Tags(u) \cup (Tag \cap {e.tag})
    <2>1. ASSUME NEW t \in Tags(v) PROVE t \in Tags(u) \cup (Tag \cap {e.tag})
      <3>1. PICK i \in 1..Len(v) : v[i].tag = t
        BY Zenon DEF Tags
      <3> QED BY <3>1, <1>1, <1>2, Zenon DEF Tags
    <2>2. ASSUME NEW t \in Tags(u) PROVE t \in Tags(v)
      <3>1. PICK i \in 1..k : u[i].tag = t
        BY Zenon DEF Tags, k
      <3> QED BY <3>1, <1>1, Zenon DEF Tags
    <2>3. ASSUME e.tag \in Tag PROVE e.tag \in Tags(v)
      BY <1>1, <2>3, Zenon DEF Tags
    <2> QED BY <2>1, <2>2, <2>3, Zenon
  <1> QED BY <1>8, <1>9, Zenon DEF v

LEMMA NopIsNothing ==
    /\ Nop.tag \notin Tag /\ Nop.op = "nop"
    /\ \A l, o, g : EntryOK(Nop, l, o, g)
  <1>1. Nop.tag = None /\ Nop.op = "nop"
    BY DEF Nop
  <1>2. None \notin Tag
    BY NoneAssumption, Zenon DEF Tag
  <1>3. \A l, o, g : EntryOK(Nop, l, o, g)
    BY <1>1, Zenon DEF EntryOK
  <1> QED BY <1>1, <1>2, <1>3, Zenon

(* Entries of u, in their order, and no-ops.                               *)
LEMMA QueueMapped ==
    ASSUME NEW u \in Seq(Entry), NEW v \in Seq(Entry),
           NEW h \in [1..Len(v) -> 1..Len(u)],
           \A i, j \in 1..Len(v) : i < j => h[i] < h[j],
           \A i \in 1..Len(v) : v[i] = Nop \/ v[i] = u[h[i]],
           NEW l, NEW o, NEW g, NEW m, QueueOK(u, l, o, g, m)
    PROVE  QueueOK(v, l, o, g, m) /\ \A i, j \in 1..Len(v) : h[i] = h[j] => i = j
  <1> DEFINE k == Len(u)
             n == Len(v)
  <1>1. k \in Nat /\ n \in Nat
    OBVIOUS
  <1>2. /\ \A i \in 1..n : h[i] \in 1..k /\ (v[i] = Nop \/ v[i] = u[h[i]])
        /\ \A i, j \in 1..n : i < j => h[i] < h[j]
    BY SMTT(30)
  <1>3. /\ \A i, j \in 1..k : u[i].tag \in Tag /\ u[i].tag = u[j].tag => i = j
        /\ \A i \in 1..k : u[i].tag \in Tag => u[i].n = l[u[i].tag]
        /\ \A i, j \in 1..k :
              i < j /\ u[i].op # "nop" /\ u[j].op # "nop" => u[i].n < u[j].n
        /\ \A i \in 1..k : EntryOK(u[i], l, o, g) /\ (u[i].op = "cancel" => m)
    BY Zenon DEF QueueOK, OnceIn, KnownIn, Ordered
  <1> HIDE DEF k, n
  <1>4. \A i, j \in 1..n : h[i] = h[j] => i = j
    <2> SUFFICES ASSUME NEW i \in 1..n, NEW j \in 1..n, h[i] = h[j], i # j
                 PROVE  FALSE
      OBVIOUS
    <2>1. i < j \/ j < i
      BY <1>1
    <2>2. h[i] < h[j] \/ h[j] < h[i]
      BY <1>2, <2>1, Zenon
    <2>3. h[i] \in Nat /\ h[j] \in Nat
      BY <1>1, <1>2
    <2> QED BY <2>2, <2>3
  <1>5. OnceIn(v)
    <2> SUFFICES ASSUME NEW i \in 1..n, NEW j \in 1..n, v[i].tag \in Tag,
                        v[i].tag = v[j].tag
                 PROVE  i = j
      BY Zenon DEF OnceIn, n
    <2>1. v[i] = u[h[i]] /\ v[j] = u[h[j]] /\ h[i] \in 1..k /\ h[j] \in 1..k
      BY <1>2, NopIsNothing, Zenon
    <2>2. h[i] = h[j]
      BY <1>3, <2>1, Zenon
    <2> QED BY <1>4, <2>2, Zenon
  <1>6. KnownIn(v, l)
    <2> SUFFICES ASSUME NEW i \in 1..n, v[i].tag \in Tag PROVE v[i].n = l[v[i].tag]
      BY Zenon DEF KnownIn, n
    <2>1. v[i] = u[h[i]] /\ h[i] \in 1..k
      BY <1>2, NopIsNothing, Zenon
    <2> QED BY <1>3, <2>1, Zenon
  <1>7. Ordered(v)
    <2> SUFFICES ASSUME NEW i \in 1..n, NEW j \in 1..n, i < j, v[i].op # "nop",
                        v[j].op # "nop"
                 PROVE  v[i].n < v[j].n
      BY Zenon DEF Ordered, n
    <2>1. v[i] = u[h[i]] /\ v[j] = u[h[j]] /\ h[i] \in 1..k /\ h[j] \in 1..k
      BY <1>2, NopIsNothing, Zenon
    <2>2. h[i] < h[j]
      BY <1>2, Zenon
    <2> QED BY <1>3, <2>1, <2>2, ZenonT(40)
  <1>8. ASSUME NEW i \in 1..n
        PROVE  EntryOK(v[i], l, o, g) /\ (v[i].op = "cancel" => m)
    <2>1. CASE v[i] = Nop
      BY <2>1, NopIsNothing, Zenon
    <2>2. CASE v[i] = u[h[i]]
      BY <1>2, <1>3, <2>2, Zenon
    <2> QED BY <1>2, <2>1, <2>2, Zenon
  <1> QED BY <1>4, <1>5, <1>6, <1>7, <1>8, Zenon DEF QueueOK, n

LEMMA QueueTaken ==
    ASSUME NEW u \in Seq(Entry), u # <<>>, NEW l, NEW o, NEW g, NEW m,
           QueueOK(u, l, o, g, m)
    PROVE  /\ QueueOK(Tail(u), l, o, g, m) /\ Tags(Tail(u)) = Tags(u) \ {Head(u).tag}
           /\ EntryOK(Head(u), l, o, g) /\ Head(u) \in Entry
           /\ Head(u).tag \in Tag => /\ Head(u).tag \in Tags(u)
                                     /\ Head(u).n = l[Head(u).tag]
  <1> DEFINE v == Tail(u)
             k == Len(u)
  <1>1. /\ Len(v) = k - 1 /\ k \in Nat \ {0} /\ Head(u) = u[1] /\ u[1] \in Entry
        /\ \A i \in 1..Len(v) : v[i] = u[i + 1] /\ i + 1 \in 2..k
        /\ \A i \in 2..k : i - 1 \in 1..Len(v) /\ v[i - 1] = u[i]
        /\ \A i \in 1..k : i = 1 \/ i \in 2..k
    BY TailTaken
  <1>2. /\ \A i \in 1..Len(v) : i + 1 \in 1..k /\ i + 1 # 1 /\ v[i] = u[i + 1]
        /\ \A i, j \in 1..Len(v) : /\ i < j => i + 1 < j + 1
                                   /\ i + 1 = j + 1 => i = j
        /\ 1 \in 1..k
    BY <1>1
  <1>3. \A i \in 1..k : i # 1 => \E j \in 1..Len(v) : v[j] = u[i]
    BY <1>1, Zenon
  <1> HIDE DEF v, k
  <1>4. /\ \A i, j \in 1..k : u[i].tag \in Tag /\ u[i].tag = u[j].tag => i = j
        /\ \A i \in 1..k : u[i].tag \in Tag => u[i].n = l[u[i].tag]
        /\ \A i, j \in 1..k :
              i < j /\ u[i].op # "nop" /\ u[j].op # "nop" => u[i].n < u[j].n
        /\ \A i \in 1..k : EntryOK(u[i], l, o, g) /\ (u[i].op = "cancel" => m)
    BY Zenon DEF QueueOK, OnceIn, KnownIn, Ordered, k
  <1>9. QueueOK(v, l, o, g, m)
    <2> DEFINE h == [i \in 1..Len(v) |-> i + 1]
    <2>1. v \in Seq(Entry)
      BY TailTaken DEF v
    <2>2. /\ h \in [1..Len(v) -> 1..Len(u)]
          /\ \A i, j \in 1..Len(v) : i < j => h[i] < h[j]
          /\ \A i \in 1..Len(v) : v[i] = Nop \/ v[i] = u[h[i]]
      BY <1>2, Zenon DEF k
    <2> HIDE DEF h
    <2> QED BY SMTT(30), <2>1, <2>2, QueueMapped
  <1>10. Tags(v) = Tags(u) \ {u[1].tag}
    <2>1. ASSUME NEW t \in Tags(v) PROVE t \in Tags(u) /\ t # u[1].tag
      <3>1. PICK i \in 1..Len(v) : v[i].tag = t
        BY Zenon DEF Tags
      <3>2. t \in Tag /\ i + 1 \in 1..k /\ i + 1 # 1 /\ u[i + 1].tag = t
        BY <3>1, <1>2, Zenon DEF Tags
      <3>3. t \in Tags(u)
        BY <3>2, Zenon DEF Tags, k
      <3>4. t # u[1].tag
        BY <3>2, <1>2, <1>4, Zenon
      <3> QED BY <3>3, <3>4
    <2>2. ASSUME NEW t \in Tags(u), t # u[1].tag PROVE t \in Tags(v)
      <3>1. PICK i \in 1..k : u[i].tag = t
        BY Zenon DEF Tags, k
      <3>2. PICK j \in 1..Len(v) : v[j] = u[i]
        BY <3>1, <2>2, <1>3, Zenon
      <3> QED BY <3>1, <3>2, Zenon DEF Tags
    <2> QED BY <2>1, <2>2, Zenon
  <1>11. u[1].tag \in Tag => u[1].tag \in Tags(u) /\ u[1].n = l[u[1].tag]
    BY <1>2, <1>4, Zenon DEF Tags, k
  <1> QED BY <1>1, <1>2, <1>4, <1>9, <1>10, <1>11, Zenon DEF v

(* The tags of the entries of u that are in M.                             *)
TagsIn(u, M) == {t \in Tag : \E i \in 1..Len(u) : u[i].tag = t /\ u[i] \in M}

LEMMA QueueLeft ==
    ASSUME NEW u \in Seq(Entry), NEW v \in Seq(Entry), NEW M, NEW h,
           LeftOf(u, v, M, h), NEW l, NEW o, NEW g, NEW m, QueueOK(u, l, o, g, m)
    PROVE  /\ QueueOK(v, l, o, g, m) /\ Tags(v) = Tags(u) \ TagsIn(u, M)
           /\ \A i \in 1..Len(v) : v[i] = Nop \/ (v[i] \notin M /\ v[i] \in Range(u))
  <1> DEFINE k == Len(u)
             n == Len(v)
  <1>1. /\ h \in [1..n -> 1..k] /\ \A i, j \in 1..n : i < j => h[i] < h[j]
        /\ \A i \in 1..n : v[i] = IF u[h[i]] \in M THEN Nop ELSE u[h[i]]
        /\ \A i \in 1..k : u[i] \notin M => \E j \in 1..n : h[j] = i
    BY Zenon DEF LeftOf
  <1>2. \A i \in 1..n : /\ h[i] \in 1..k
                        /\ v[i] = Nop \/ (v[i] = u[h[i]] /\ u[h[i]] \notin M)
    BY <1>1, Zenon
  <1>3. QueueOK(v, l, o, g, m)
    <2>1. /\ h \in [1..Len(v) -> 1..Len(u)]
          /\ \A i, j \in 1..Len(v) : i < j => h[i] < h[j]
          /\ \A i \in 1..Len(v) : v[i] = Nop \/ v[i] = u[h[i]]
      BY <1>1, <1>2, Zenon
    <2> QED BY SMTT(30), <2>1, QueueMapped
  <1>4. \A i \in 1..n : v[i] = Nop \/ (v[i] \notin M /\ v[i] \in Range(u))
    <2>1. DOMAIN u = 1..k
      OBVIOUS
    <2> QED BY <1>2, <2>1, Zenon DEF Range
  <1>5. \A i, j \in 1..k : u[i].tag \in Tag /\ u[i].tag = u[j].tag => i = j
    BY Zenon DEF QueueOK, OnceIn
  <1> HIDE DEF k, n
  <1>6. ASSUME NEW t \in Tags(v) PROVE t \in Tags(u) \ TagsIn(u, M)
    <2>1. PICK i \in 1..n : v[i].tag = t
      BY Zenon DEF Tags, n
    <2>2. t \in Tag
      BY Zenon DEF Tags
    <2>3. v[i] = u[h[i]] /\ u[h[i]] \notin M /\ h[i] \in 1..k
      BY <1>2, <2>1, <2>2, NopIsNothing, Zenon
    <2>4. t \in Tags(u)
      BY <2>1, <2>2, <2>3, Zenon DEF Tags, k
    <2>5. t \notin TagsIn(u, M)
      BY <1>5, <2>1, <2>2, <2>3, Zenon DEF TagsIn, k
    <2> QED BY <2>4, <2>5
  <1>7. ASSUME NEW t \in Tags(u), t \notin TagsIn(u, M) PROVE t \in Tags(v)
    <2>1. PICK i \in 1..k : u[i].tag = t
      BY Zenon DEF Tags, k
    <2>2. t \in Tag /\ u[i] \notin M
      BY <1>7, <2>1, Zenon DEF Tags, TagsIn, k
    <2>3. PICK j \in 1..n : h[j] = i
      BY <1>1, <2>2, Zenon
    <2>4. v[j].tag = t
      BY <1>1, <2>1, <2>2, <2>3, Zenon
    <2> QED BY <2>2, <2>4, Zenon DEF Tags, n
  <1> QED BY <1>3, <1>4, <1>6, <1>7, Zenon DEF n

-----------------------------------------------------------------------------
(* Completions on their way.                                               *)
LEMMA EndsChanged ==
    ASSUME NEW s, NEW l, EndsOK(s, l), NEW l2, \A t \in Ends(s) : l2[t] = l[t]
    PROVE  EndsOK(s, l2)
  BY Zenon DEF EndsOK, KnownEnds, Ends

LEMMA NoEnds == ASSUME NEW l PROVE EndsOK(<<>>, l) /\ Ends(<<>>) = {}
  <1>1. Len(<<>>) = 0 /\ 1..0 = {}
    OBVIOUS
  <1> QED BY <1>1 DEF EndsOK, OnceEnded, KnownEnds, Ends

LEMMA EndsTogether ==
    ASSUME NEW s \in Seq(Completion), NEW r \in Seq(Completion), NEW l,
           EndsOK(s, l), EndsOK(r, l), Ends(s) \cap Ends(r) = {}
    PROVE  /\ s \o r \in Seq(Completion) /\ EndsOK(s \o r, l)
           /\ Ends(s \o r) = Ends(s) \cup Ends(r)
  <1> DEFINE v == s \o r
             k == Len(s)
             n == Len(r)
  <1>1. /\ v \in Seq(Completion) /\ Len(v) = k + n /\ k \in Nat /\ n \in Nat
        /\ \A i \in 1..k : v[i] = s[i] /\ i \in 1..Len(v)
        /\ \A i \in 1..n : v[k + i] = r[i] /\ k + i \in 1..Len(v)
    OBVIOUS
  <1> HIDE DEF v, k, n
  <1>2. \A i \in 1..Len(v) : i \in 1..k \/ \E j \in 1..n : i = k + j
    <2>1. ASSUME NEW i \in 1..Len(v), i \notin 1..k
          PROVE  i - k \in 1..n /\ i = k + (i - k)
      BY <1>1, <2>1
    <2> QED BY <2>1
  <1>3. /\ \A i, j \in 1..k : s[i].tag \in Tag /\ s[i].tag = s[j].tag /\ ~s[i].more
                              /\ ~s[j].more => i = j
        /\ \A i \in 1..k : s[i].tag \in Tag /\ ~s[i].more =>
              s[i].n = l[s[i].tag] /\ s[i].tag \in Ends(s)
    BY Zenon DEF EndsOK, OnceEnded, KnownEnds, Ends, k
  <1>4. /\ \A i, j \in 1..n : r[i].tag \in Tag /\ r[i].tag = r[j].tag /\ ~r[i].more
                              /\ ~r[j].more => i = j
        /\ \A i \in 1..n : r[i].tag \in Tag /\ ~r[i].more =>
              r[i].n = l[r[i].tag] /\ r[i].tag \in Ends(r)
    BY Zenon DEF EndsOK, OnceEnded, KnownEnds, Ends, n
  <1>5. OnceEnded(v)
    <2> SUFFICES ASSUME NEW i \in 1..Len(v), NEW j \in 1..Len(v), v[i].tag \in Tag,
                        v[i].tag = v[j].tag, ~v[i].more, ~v[j].more
                 PROVE  i = j
      BY Zenon DEF OnceEnded
    <2>1. CASE i \in 1..k /\ j \in 1..k
      BY <1>1, <1>3, <2>1, Zenon
    <2>2. CASE i \in 1..k /\ \E b \in 1..n : j = k + b
      <3>1. PICK b \in 1..n : j = k + b
        BY <2>2
      <3>2. v[i].tag \in Ends(s) /\ v[j].tag \in Ends(r)
        BY <1>1, <1>3, <1>4, <2>2, <3>1, ZenonT(40)
      <3> QED BY <3>2
    <2>3. CASE j \in 1..k /\ \E a \in 1..n : i = k + a
      <3>1. PICK a \in 1..n : i = k + a
        BY <2>3
      <3>2. v[j].tag \in Ends(s) /\ v[i].tag \in Ends(r)
        BY <1>1, <1>3, <1>4, <2>3, <3>1, Zenon
      <3> QED BY <3>2
    <2>4. CASE (\E a \in 1..n : i = k + a) /\ \E b \in 1..n : j = k + b
      <3>1. PICK a \in 1..n, b \in 1..n : i = k + a /\ j = k + b
        BY <2>4, Zenon
      <3>2. v[i] = r[a] /\ v[j] = r[b]
        BY <1>1, <3>1, Zenon
      <3>3. a = b
        BY <1>4, <3>2, Zenon
      <3> QED BY <3>1, <3>3, Zenon
    <2> QED BY <1>2, <2>1, <2>2, <2>3, <2>4, Zenon
  <1>6. KnownEnds(v, l)
    <2> SUFFICES ASSUME NEW i \in 1..Len(v), v[i].tag \in Tag, ~v[i].more
                 PROVE  v[i].n = l[v[i].tag]
      BY Zenon DEF KnownEnds
    <2>1. CASE i \in 1..k
      BY <1>1, <1>3, <2>1, Zenon
    <2>2. CASE \E j \in 1..n : i = k + j
      <3>1. PICK j \in 1..n : i = k + j
        BY <2>2
      <3>2. v[i] = r[j]
        BY <1>1, <3>1, Zenon
      <3> QED BY <1>4, <3>2, Zenon
    <2> QED BY <1>2, <2>1, <2>2, Zenon
  <1>7. ASSUME NEW t \in Ends(v) PROVE t \in Ends(s) \cup Ends(r)
    <2>1. PICK i \in 1..Len(v) : v[i].tag = t /\ ~v[i].more
      BY Zenon DEF Ends
    <2>2. t \in Tag
      BY Zenon DEF Ends
    <2>3. CASE i \in 1..k
      BY <1>1, <1>3, <2>1, <2>2, <2>3, Zenon
    <2>4. CASE \E j \in 1..n : i = k + j
      <3>1. PICK j \in 1..n : i = k + j
        BY <2>4
      <3>2. v[i] = r[j]
        BY <1>1, <3>1, Zenon
      <3> QED BY <1>4, <2>1, <2>2, <3>2, Zenon
    <2> QED BY <1>2, <2>3, <2>4, Zenon
  <1>8. ASSUME NEW t \in Ends(s) PROVE t \in Ends(v)
    <2>1. PICK i \in 1..k : s[i].tag = t /\ ~s[i].more
      BY Zenon DEF Ends, k
    <2> QED BY <1>1, <2>1, Zenon DEF Ends
  <1>9. ASSUME NEW t \in Ends(r) PROVE t \in Ends(v)
    <2>1. PICK i \in 1..n : r[i].tag = t /\ ~r[i].more
      BY Zenon DEF Ends, n
    <2> QED BY <1>1, <2>1, Zenon DEF Ends
  <1>10. Ends(v) = Ends(s) \cup Ends(r)
    BY <1>7, <1>8, <1>9, Zenon
  <1> QED BY <1>1, <1>5, <1>6, <1>10, Zenon DEF v, EndsOK

(* The tag whose operation ends with completion c.                         *)
EndOf(c) == {t \in Tag : c.tag = t /\ ~c.more}

LEMMA EndsAppended ==
    ASSUME NEW s \in Seq(Completion), NEW c \in Completion, NEW l, EndsOK(s, l),
           EndOf(c) \cap Ends(s) = {}, \A t \in EndOf(c) : c.n = l[t]
    PROVE  /\ Append(s, c) \in Seq(Completion) /\ EndsOK(Append(s, c), l)
           /\ Ends(Append(s, c)) = Ends(s) \cup EndOf(c)
  <1> DEFINE r == <<c>>
  <1>1. /\ r \in Seq(Completion) /\ Append(s, c) = s \o r
        /\ \A i \in 1..Len(r) : i = 1 /\ r[i] = c
        /\ 1 \in 1..Len(r) /\ r[1] = c
    OBVIOUS
  <1> HIDE DEF r
  <1>2. EndsOK(r, l)
    <2>1. OnceEnded(r)
      BY <1>1, Zenon DEF OnceEnded
    <2>2. KnownEnds(r, l)
      BY <1>1, Zenon DEF KnownEnds, EndOf
    <2> QED BY <2>1, <2>2, Zenon DEF EndsOK
  <1>3. Ends(r) = EndOf(c)
    <2>1. \A t \in Tag : (\E i \in 1..Len(r) : r[i].tag = t /\ ~r[i].more)
                            <=> (c.tag = t /\ ~c.more)
      BY <1>1, Zenon
    <2> QED BY <2>1, Zenon DEF Ends, EndOf
  <1>4. Ends(s) \cap Ends(r) = {}
    BY <1>3, Zenon
  <1>5. /\ s \o r \in Seq(Completion) /\ EndsOK(s \o r, l)
        /\ Ends(s \o r) = Ends(s) \cup Ends(r)
    BY <1>1, <1>2, <1>4, EndsTogether
  <1> QED BY <1>1, <1>3, <1>5, Zenon

LEMMA EndsTaken ==
    ASSUME NEW s \in Seq(Completion), s # <<>>, NEW l, EndsOK(s, l)
    PROVE  /\ Head(s) \in Completion /\ Tail(s) \in Seq(Completion)
           /\ EndsOK(Tail(s), l) /\ Ends(Tail(s)) = Ends(s) \ EndOf(Head(s))
           /\ EndOf(Head(s)) \subseteq Ends(s)
           /\ \A t \in EndOf(Head(s)) : Head(s).n = l[t]
  <1> DEFINE v == Tail(s)
             k == Len(s)
  <1>1. /\ v \in Seq(Completion) /\ Len(v) = k - 1 /\ k \in Nat \ {0}
        /\ Head(s) = s[1] /\ s[1] \in Completion
        /\ \A i \in 1..Len(v) : v[i] = s[i + 1] /\ i + 1 \in 2..k
        /\ \A i \in 2..k : i - 1 \in 1..Len(v) /\ v[i - 1] = s[i]
        /\ \A i \in 1..k : i = 1 \/ i \in 2..k
    BY TailTaken
  <1>2. /\ \A i \in 1..Len(v) : i + 1 \in 1..k /\ i + 1 # 1 /\ v[i] = s[i + 1]
        /\ \A i, j \in 1..Len(v) : i + 1 = j + 1 => i = j
        /\ 1 \in 1..k
    BY <1>1
  <1>3. \A i \in 1..k : i # 1 => \E j \in 1..Len(v) : v[j] = s[i]
    BY <1>1, Zenon
  <1> HIDE DEF v, k
  <1>4. /\ \A i, j \in 1..k : s[i].tag \in Tag /\ s[i].tag = s[j].tag /\ ~s[i].more
                              /\ ~s[j].more => i = j
        /\ \A i \in 1..k : s[i].tag \in Tag /\ ~s[i].more =>
              s[i].n = l[s[i].tag] /\ s[i].tag \in Ends(s)
    BY Zenon DEF EndsOK, OnceEnded, KnownEnds, Ends, k
  <1>5. OnceEnded(v)
    <2> SUFFICES ASSUME NEW i \in 1..Len(v), NEW j \in 1..Len(v), v[i].tag \in Tag,
                        v[i].tag = v[j].tag, ~v[i].more, ~v[j].more
                 PROVE  i = j
      BY Zenon DEF OnceEnded
    <2>1. /\ v[i] = s[i + 1] /\ v[j] = s[j + 1]
          /\ i + 1 \in 1..k /\ j + 1 \in 1..k
      BY <1>2, Zenon
    <2>2. i + 1 = j + 1
      BY <1>4, <2>1, Zenon
    <2> QED BY <1>2, <2>2, Zenon
  <1>6. KnownEnds(v, l)
    <2> SUFFICES ASSUME NEW i \in 1..Len(v), v[i].tag \in Tag, ~v[i].more
                 PROVE  v[i].n = l[v[i].tag]
      BY Zenon DEF KnownEnds
    <2>1. v[i] = s[i + 1] /\ i + 1 \in 1..k
      BY <1>2, Zenon
    <2> QED BY <1>4, <2>1, Zenon
  <1>7. ASSUME NEW t \in Ends(v) PROVE t \in Ends(s) \ EndOf(s[1])
    <2>1. PICK i \in 1..Len(v) : v[i].tag = t /\ ~v[i].more
      BY Zenon DEF Ends
    <2>2. t \in Tag
      BY Zenon DEF Ends
    <2>3. v[i] = s[i + 1] /\ i + 1 \in 1..k /\ i + 1 # 1
      BY <1>2, Zenon
    <2>4. t \in Ends(s)
      BY <1>4, <2>1, <2>2, <2>3, Zenon
    <2>5. t \notin EndOf(s[1])
      BY <1>2, <1>4, <2>1, <2>2, <2>3, Zenon DEF EndOf
    <2> QED BY <2>4, <2>5
  <1>8. ASSUME NEW t \in Ends(s), t \notin EndOf(s[1]) PROVE t \in Ends(v)
    <2>1. PICK i \in 1..k : s[i].tag = t /\ ~s[i].more
      BY Zenon DEF Ends, k
    <2>2. t \in Tag
      BY Zenon DEF Ends
    <2>3. i # 1
      BY <1>8, <2>1, <2>2, Zenon DEF EndOf
    <2>4. PICK j \in 1..Len(v) : v[j] = s[i]
      BY <1>3, <2>3, Zenon
    <2> QED BY <2>1, <2>2, <2>4, Zenon DEF Ends
  <1>9. /\ EndOf(s[1]) \subseteq Ends(s) /\ \A t \in EndOf(s[1]) : s[1].n = l[t]
    BY <1>2, <1>4, Zenon DEF EndOf
  <1>10. Ends(v) = Ends(s) \ EndOf(s[1])
    BY <1>7, <1>8, Zenon
  <1> QED BY <1>1, <1>5, <1>6, <1>9, <1>10, Zenon DEF v, EndsOK

(* The completions of the entries that are retired.                        *)
LEMMA RetiredAre ==
    ASSUME QueueTypes, NEW M, NEW l, OnceIn(Unsubmitted), KnownIn(Unsubmitted, l)
    PROVE  /\ Retired(M) \in Seq(Completion) /\ EndsOK(Retired(M), l)
           /\ Ends(Retired(M)) = TagsIn(Unsubmitted, M)
  <1> DEFINE u == Unsubmitted
             k == Len(u)
             P == Matching(u, M)
             a == Entries(u, P)
             v == Retired(M)
  <1>1. u \in Seq(Entry) /\ k \in Nat
    BY UnsubmittedType, Zenon
  <1>2. P \in SUBSET (1..k) /\ \A i \in 1..k : i \in P <=> u[i] \in M
    BY Zenon DEF Matching
  <1>3. /\ \A i, j \in 1..k : u[i].tag \in Tag /\ u[i].tag = u[j].tag => i = j
        /\ \A i \in 1..k : u[i].tag \in Tag => u[i].n = l[u[i].tag]
    BY Zenon DEF OnceIn, KnownIn
  <1>4. v = [i \in 1..Len(a) |-> Cqe(a[i], FALSE)]
    BY Zenon DEF Retired
  <1> HIDE DEF u, P, v
  <1>5. PICK n \in Nat : \E p : /\ Sorted(P, n, p) /\ a = [i \in 1..n |-> u[p[i]]]
                                /\ a \in Seq(Entry) /\ Len(a) = n
    BY <1>1, <1>2, EntriesAre
  <1>6. PICK p : /\ Sorted(P, n, p) /\ a = [i \in 1..n |-> u[p[i]]]
                 /\ a \in Seq(Entry) /\ Len(a) = n
    BY <1>5
  <1> HIDE DEF a, k
  <1>7. \A i \in 1..n : /\ p[i] \in 1..k /\ u[p[i]] \in M
                        /\ v[i] = Cqe(u[p[i]], FALSE) /\ v[i] \in Completion
    <2> TAKE i \in 1..n
    <2>1. p[i] \in P
      BY <1>6 DEF Sorted
    <2>2. p[i] \in 1..k /\ u[p[i]] \in M
      BY <1>2, <2>1, Zenon
    <2>3. a[i] = u[p[i]]
      BY <1>6
    <2>4. v[i] = Cqe(u[p[i]], FALSE)
      BY <1>4, <1>6, <2>3, Zenon
    <2>5. u[p[i]] \in Entry
      BY <1>1, <2>2 DEF k
    <2>6. u[p[i]].tag \in Address /\ u[p[i]].n \in Nat
      BY <2>5 DEF Entry
    <2>7. v[i] \in Completion
      BY <2>4, <2>6 DEF Cqe, Completion
    <2> QED BY <2>2, <2>4, <2>7, Zenon
  <1>8. v \in Seq(Completion) /\ Len(v) = n
    <2>1. v = [i \in 1..n |-> v[i]]
      BY <1>4, <1>6, Zenon
    <2>2. \A i \in 1..n : v[i] \in Completion
      BY <1>7, Zenon
    <2> QED BY <2>1, <2>2
  <1>9. \A i \in 1..n : v[i].tag = u[p[i]].tag /\ v[i].n = u[p[i]].n /\ ~v[i].more
    <2> TAKE i \in 1..n
    <2>1. v[i] = [tag |-> u[p[i]].tag, n |-> u[p[i]].n, more |-> FALSE]
      BY <1>7, Zenon DEF Cqe
    <2> QED BY <2>1
  <1>10. \A i, j \in 1..n : p[i] = p[j] => i = j
    <2> SUFFICES ASSUME NEW i \in 1..n, NEW j \in 1..n, p[i] = p[j], i # j
                 PROVE  FALSE
      OBVIOUS
    <2>1. i < j \/ j < i
      OBVIOUS
    <2>2. p[i] < p[j] \/ p[j] < p[i]
      BY <1>6, <2>1, Zenon DEF Sorted
    <2>3. p[i] \in 1..k /\ p[j] \in 1..k
      BY <1>7, Zenon
    <2> QED BY <1>1, <2>2, <2>3
  <1>11. OnceEnded(v)
    <2> SUFFICES ASSUME NEW i \in 1..n, NEW j \in 1..n, v[i].tag \in Tag,
                        v[i].tag = v[j].tag
                 PROVE  i = j
      BY <1>8, Zenon DEF OnceEnded
    <2>1. /\ p[i] \in 1..k /\ p[j] \in 1..k /\ u[p[i]].tag = v[i].tag
          /\ u[p[j]].tag = v[j].tag
      BY <1>7, <1>9, Zenon
    <2>2. p[i] = p[j]
      BY <1>3, <2>1, Zenon
    <2> QED BY <1>10, <2>2, Zenon
  <1>12. KnownEnds(v, l)
    <2> SUFFICES ASSUME NEW i \in 1..n, v[i].tag \in Tag PROVE v[i].n = l[v[i].tag]
      BY <1>8, Zenon DEF KnownEnds
    <2>1. p[i] \in 1..k /\ u[p[i]].tag = v[i].tag /\ u[p[i]].n = v[i].n
      BY <1>7, <1>9, Zenon
    <2> QED BY <1>3, <2>1, Zenon
  <1>13. ASSUME NEW t \in Ends(v) PROVE t \in TagsIn(u, M)
    <2>1. PICK i \in 1..n : v[i].tag = t
      BY <1>8, Zenon DEF Ends
    <2>2. t \in Tag
      BY Zenon DEF Ends
    <2> QED BY <1>7, <1>9, <2>1, <2>2, Zenon DEF TagsIn, k
  <1>14. ASSUME NEW t \in TagsIn(u, M) PROVE t \in Ends(v)
    <2>1. PICK i \in 1..k : u[i].tag = t /\ u[i] \in M
      BY Zenon DEF TagsIn, k
    <2>2. t \in Tag
      BY Zenon DEF TagsIn
    <2>3. PICK j \in 1..n : p[j] = i
      BY <1>2, <1>6, <2>1, Zenon DEF Sorted
    <2>4. v[j].tag = t /\ ~v[j].more
      BY <1>9, <2>1, <2>3, Zenon
    <2> QED BY <1>8, <2>2, <2>4, Zenon DEF Ends
  <1>15. Ends(v) = TagsIn(u, M)
    BY <1>13, <1>14, Zenon
  <1> QED BY <1>8, <1>11, <1>12, <1>15, Zenon DEF v, u, EndsOK

-----------------------------------------------------------------------------
(* Operations in the kernel.                                               *)
LEMMA KernelTakesOne ==
    ASSUME NEW k, NEW l, OnceInKernel(k), KnownInKernel(k, l), NEW e,
           e.tag \in Tag => e.tag \notin InKernelTags(k) /\ e.n = l[e.tag]
    PROVE  /\ OnceInKernel(k \cup {e}) /\ KnownInKernel(k \cup {e}, l)
           /\ InKernelTags(k \cup {e}) = InKernelTags(k) \cup (Tag \cap {e.tag})
  <1>1. \A r \in k : r.tag \in Tag => r.tag \in InKernelTags(k)
    BY Zenon DEF InKernelTags
  <1>2. OnceInKernel(k \cup {e})
    <2> SUFFICES ASSUME NEW r \in k \cup {e}, NEW q \in k \cup {e}, r.tag \in Tag,
                        r.tag = q.tag
                 PROVE  r = q
      BY Zenon DEF OnceInKernel
    <2> QED BY <1>1, Zenon DEF OnceInKernel
  <1>3. KnownInKernel(k \cup {e}, l)
    BY Zenon DEF KnownInKernel
  <1>4. InKernelTags(k \cup {e}) = InKernelTags(k) \cup (Tag \cap {e.tag})
    BY Zenon DEF InKernelTags
  <1> QED BY <1>2, <1>3, <1>4, Zenon

LEMMA KernelLosesOne ==
    ASSUME NEW k, NEW l, OnceInKernel(k), KnownInKernel(k, l), NEW r \in k,
           NEW k2, k2 = k \ {r}
    PROVE  /\ OnceInKernel(k2) /\ KnownInKernel(k2, l)
           /\ InKernelTags(k2) = InKernelTags(k) \ {r.tag}
           /\ r.tag \in Tag => r.tag \in InKernelTags(k) /\ r.n = l[r.tag]
  <1>1. OnceInKernel(k2) /\ KnownInKernel(k2, l)
    BY Zenon DEF OnceInKernel, KnownInKernel
  <1>2. ASSUME NEW t \in InKernelTags(k2) PROVE t \in InKernelTags(k) \ {r.tag}
    <2>1. PICK q \in k2 : q.tag = t
      BY Zenon DEF InKernelTags
    <2>2. t \in Tag /\ q \in k /\ q # r
      BY Zenon DEF InKernelTags
    <2>3. t # r.tag
      BY <2>1, <2>2, Zenon DEF OnceInKernel
    <2> QED BY <2>1, <2>2, <2>3, Zenon DEF InKernelTags
  <1>3. ASSUME NEW t \in InKernelTags(k), t # r.tag PROVE t \in InKernelTags(k2)
    BY <1>3, Zenon DEF InKernelTags
  <1>4. r.tag \in Tag => r.tag \in InKernelTags(k) /\ r.n = l[r.tag]
    BY Zenon DEF InKernelTags, KnownInKernel
  <1> QED BY <1>1, <1>2, <1>3, <1>4, Zenon

(* A cancel marks the operations with its target's address.                *)
Marked(r, x) == IF r.tag = x THEN [r EXCEPT !.op = "cancelled"] ELSE r

LEMMA KernelMarks ==
    ASSUME NEW k \in SUBSET Entry, NEW l, OnceInKernel(k), KnownInKernel(k, l), NEW x,
           NEW k2, \A r \in k : Marked(r, x) \in k2,
           \A r \in k2 : \E q \in k : r = Marked(q, x)
    PROVE  /\ k2 \subseteq Entry /\ OnceInKernel(k2) /\ KnownInKernel(k2, l)
           /\ InKernelTags(k2) = InKernelTags(k)
  <1> DEFINE F(r) == Marked(r, x)
  <1>1. \A r \in k : F(r) \in Entry /\ F(r).tag = r.tag /\ F(r).n = r.n
    <2> TAKE r \in k
    <2>1. r \in Entry
      OBVIOUS
    <2>2. /\ [r EXCEPT !.op = "cancelled"] \in Entry
          /\ [r EXCEPT !.op = "cancelled"].tag = r.tag
          /\ [r EXCEPT !.op = "cancelled"].n = r.n
      BY <2>1 DEF Entry
    <2> QED BY <2>1, <2>2, Zenon DEF Marked
  <1>3. /\ \A r \in k : F(r) \in k2
        /\ \A r \in k2 : \E q \in k : r = F(q)
    BY Zenon
  <1> HIDE DEF F
  <1>4. k2 \subseteq Entry
    BY <1>1, <1>3, Zenon
  <1>5. OnceInKernel(k2)
    <2> SUFFICES ASSUME NEW r \in k2, NEW q \in k2, r.tag \in Tag, r.tag = q.tag
                 PROVE  r = q
      BY Zenon DEF OnceInKernel
    <2>1. PICK a \in k : r = F(a)
      BY <1>3, Zenon
    <2>2. PICK b \in k : q = F(b)
      BY <1>3, Zenon
    <2>3. a.tag = r.tag /\ b.tag = q.tag
      BY <1>1, <2>1, <2>2, Zenon
    <2>4. a = b
      BY <2>3, Zenon DEF OnceInKernel
    <2> QED BY <2>1, <2>2, <2>4, Zenon
  <1>6. KnownInKernel(k2, l)
    <2> SUFFICES ASSUME NEW r \in k2, r.tag \in Tag PROVE r.n = l[r.tag]
      BY Zenon DEF KnownInKernel
    <2>1. PICK a \in k : r = F(a)
      BY <1>3, Zenon
    <2>2. a.tag = r.tag /\ a.n = r.n
      BY <1>1, <2>1, Zenon
    <2> QED BY <2>2, Zenon DEF KnownInKernel
  <1>7. InKernelTags(k2) = InKernelTags(k)
    <2>1. ASSUME NEW t \in InKernelTags(k2) PROVE t \in InKernelTags(k)
      <3>1. PICK r \in k2 : r.tag = t
        BY Zenon DEF InKernelTags
      <3>2. PICK a \in k : r = F(a)
        BY <1>3, Zenon
      <3>3. a.tag = t /\ t \in Tag
        BY <1>1, <3>1, <3>2, Zenon DEF InKernelTags
      <3> QED BY <3>3, Zenon DEF InKernelTags
    <2>2. ASSUME NEW t \in InKernelTags(k) PROVE t \in InKernelTags(k2)
      <3>1. PICK a \in k : a.tag = t
        BY Zenon DEF InKernelTags
      <3>2. F(a) \in k2 /\ F(a).tag = t /\ t \in Tag
        BY <1>1, <1>3, <3>1, Zenon DEF InKernelTags
      <3> QED BY <3>2, Zenon DEF InKernelTags
    <2> QED BY <2>1, <2>2, Zenon
  <1> QED BY <1>4, <1>5, <1>6, <1>7, Zenon

LEMMA KernelChanged ==
    ASSUME NEW k, NEW l, KnownInKernel(k, l), NEW l2,
           \A t \in InKernelTags(k) : l2[t] = l[t]
    PROVE  KnownInKernel(k, l2)
  BY Zenon DEF KnownInKernel, InKernelTags

(* The completion of an entry has its tag.                                 *)
LEMMA CqeOf ==
    ASSUME NEW e \in Entry, NEW more \in BOOLEAN
    PROVE  /\ Cqe(e, more) \in Completion
           /\ Cqe(e, more).tag = e.tag /\ Cqe(e, more).n = e.n
           /\ EndOf(Cqe(e, more)) = IF more THEN {} ELSE Tag \cap {e.tag}
  <1>1. e.tag \in Address /\ e.n \in Nat
    BY DEF Entry
  <1>2. Cqe(e, more) \in Completion
    BY <1>1 DEF Cqe, Completion
  <1>3. Cqe(e, more).tag = e.tag /\ Cqe(e, more).n = e.n /\ Cqe(e, more).more = more
    BY DEF Cqe
  <1>4. EndOf(Cqe(e, more)) = IF more THEN {} ELSE Tag \cap {e.tag}
    BY <1>3 DEF EndOf
  <1> QED BY <1>2, <1>3, <1>4, Zenon

-----------------------------------------------------------------------------
(* The steps.  What the parts of the invariant say of the tags.            *)
LEMMA TagsOwed ==
    ASSUME BackendInv
    PROVE  /\ Apart(Tags(Unsubmitted), InKernelTags(kernel), Ends(cq), Ends(deferred),
                    Ends(detached))
           /\ Owned(live) = Tags(Unsubmitted) \cup InKernelTags(kernel) \cup Ends(cq)
                              \cup Ends(deferred) \cup Ends(detached)
           /\ \A i \in 1..Len(Unsubmitted) :
                 LET e == Unsubmitted[i]
                 IN  /\ e \in Entry
                     /\ e.tag \in Tag => e.tag \in Tags(Unsubmitted)
                     /\ e.op = "cancel" => e.target \in Owned(live) /\ mayCancel
                     /\ e.op # "nop" => e.n \in 1..ops
           /\ Unsubmitted \in Seq(Entry)
  <1>1. Unsubmitted \in Seq(Entry)
    BY UnsubmittedType, Zenon DEF BackendInv, TypeOK
  <1>2. \A i \in 1..Len(Unsubmitted) : Unsubmitted[i] \in Entry
    BY <1>1
  <1>3. ASSUME NEW i \in 1..Len(Unsubmitted)
        PROVE  LET e == Unsubmitted[i]
               IN  /\ e.tag \in Tag => e.tag \in Tags(Unsubmitted)
                   /\ e.op = "cancel" => e.target \in Owned(live) /\ mayCancel
                   /\ e.op # "nop" => e.n \in 1..ops
    <2> DEFINE e == Unsubmitted[i]
    <2>1. EntryOK(e, live, ops, generation) /\ (e.op = "cancel" => mayCancel)
      BY Zenon DEF BackendInv, QueueOK
    <2>2. e.tag \in Tag => e.tag \in Tags(Unsubmitted)
      BY Zenon DEF Tags
    <2> HIDE DEF e
    <2>3. e.op = "cancel" => e.target \in Owned(live)
      BY <2>1, Zenon DEF EntryOK, Owned, Tag
    <2>4. e.op # "nop" => e.n \in 1..ops
      BY <2>1, Zenon DEF EntryOK
    <2> QED BY <2>1, <2>2, <2>3, <2>4, Zenon DEF e
  <1>4. Shared(Tags(Unsubmitted), InKernelTags(kernel), Ends(cq), Ends(deferred),
               Ends(detached), Owned(live))
    BY Zenon DEF BackendInv, Owing
  <1> QED BY <1>1, <1>2, <1>3, <1>4, Zenon DEF Shared

(* Another operation owns a tag: what is on its way stays as it is.        *)
LEMMA OthersKept ==
    ASSUME BackendInv, NEW l2, \A t \in Owned(live) : l2[t] = live[t], NEW m2,
           mayCancel => m2
    PROVE  /\ QueueOK(Unsubmitted, l2, ops + 1, generation, m2)
           /\ KnownInKernel(kernel, l2)
           /\ EndsOK(cq, l2) /\ EndsOK(deferred, l2) /\ EndsOK(detached, l2)
  <1>1. /\ Owned(live) = Tags(Unsubmitted) \cup InKernelTags(kernel) \cup Ends(cq)
                              \cup Ends(deferred) \cup Ends(detached)
        /\ \A i \in 1..Len(Unsubmitted) :
              LET e == Unsubmitted[i]
              IN  /\ e.tag \in Tag => e.tag \in Tags(Unsubmitted)
                  /\ e.op = "cancel" => e.target \in Owned(live) /\ mayCancel
    BY TagsOwed, Zenon
  <1> DEFINE u == Unsubmitted
             g == generation
  <1>2. \A i \in 1..Len(u) :
            /\ u[i].tag \in Tag => l2[u[i].tag] = live[u[i].tag]
            /\ u[i].op = "cancel" => l2[u[i].target] = live[u[i].target] /\ m2
            /\ u[i].op = "io" /\ u[i].fd # None => g[u[i].fd] = g[u[i].fd]
    BY <1>1, Zenon
  <1>3. ops \in Nat /\ ops + 1 \in Nat /\ ops <= ops + 1
    BY DEF BackendInv, TypeOK
  <1>4. QueueOK(Unsubmitted, live, ops, generation, mayCancel)
    BY ZenonT(40) DEF BackendInv
  <1>5. QueueOK(u, l2, ops + 1, g, m2)
    <2> HIDE DEF u, g
    <2>1. QueueOK(u, live, ops, g, mayCancel)
      BY <1>4, Zenon DEF u, g
    <2> QED BY <1>2, <1>3, <2>1, QueueChanged
  <1>6. KnownInKernel(kernel, l2)
    <2>1. KnownInKernel(kernel, live) /\ \A t \in InKernelTags(kernel) : l2[t] = live[t]
      BY <1>1, Zenon DEF BackendInv
    <2> QED BY <2>1, KernelChanged, ZenonT(40)
  <1>7. EndsOK(cq, l2)
    <2>1. EndsOK(cq, live) /\ \A t \in Ends(cq) : l2[t] = live[t]
      BY <1>1, Zenon DEF BackendInv
    <2> QED BY <2>1, EndsChanged, ZenonT(40)
  <1>8. EndsOK(deferred, l2)
    <2>1. EndsOK(deferred, live) /\ \A t \in Ends(deferred) : l2[t] = live[t]
      BY <1>1, Zenon DEF BackendInv
    <2> QED BY <2>1, EndsChanged, Zenon
  <1>9. EndsOK(detached, l2)
    <2>1. EndsOK(detached, live) /\ \A t \in Ends(detached) : l2[t] = live[t]
      BY <1>1, Zenon DEF BackendInv
    <2> QED BY <2>1, EndsChanged, Zenon
  <1> QED BY <1>5, <1>6, <1>7, <1>8, <1>9, Zenon

(* Entries are retired: their tags go over to completions.                 *)
LEMMA RetireStep ==
    ASSUME BackendInv, NEW M, CancelUnsubmittedMatching(M)
    PROVE  /\ QueueTypes' /\ Unsubmitted' \in Seq(Entry)
           /\ QueueOK(Unsubmitted', live, ops, generation, mayCancel)
           /\ Tags(Unsubmitted') = Tags(Unsubmitted) \ TagsIn(Unsubmitted, M)
           /\ \A i \in 1..Len(Unsubmitted') :
                 \/ Unsubmitted'[i] = Nop
                 \/ Unsubmitted'[i] \notin M /\ Unsubmitted'[i] \in Range(Unsubmitted)
           /\ Retired(M) \in Seq(Completion) /\ EndsOK(Retired(M), live)
           /\ Ends(Retired(M)) = TagsIn(Unsubmitted, M)
           /\ TagsIn(Unsubmitted, M) \subseteq Tags(Unsubmitted)
  <1>1. QueueTypes /\ QueueOK(Unsubmitted, live, ops, generation, mayCancel)
    BY Zenon DEF BackendInv, TypeOK
  <1>2. OnceIn(Unsubmitted) /\ KnownIn(Unsubmitted, live)
    BY <1>1, Zenon DEF QueueOK
  <1>3. QueueTypes' /\ \E g : LeftOf(Unsubmitted, Unsubmitted', M, g)
    BY <1>1, MatchingRetired, Zenon
  <1>4. PICK h : LeftOf(Unsubmitted, Unsubmitted', M, h)
    BY <1>3, Zenon
  <1>5. Unsubmitted \in Seq(Entry)
    BY <1>1, UnsubmittedType, Zenon
  <1>6. Unsubmitted' \in Seq(Entry)
    <2>1. sq' \in Seq(Entry) /\ pendingIo' \in Seq(Entry)
      BY <1>3, Zenon DEF QueueTypes
    <2> QED BY ONLY <2>1 DEF Unsubmitted
  <1>7. /\ Retired(M) \in Seq(Completion) /\ EndsOK(Retired(M), live)
        /\ Ends(Retired(M)) = TagsIn(Unsubmitted, M)
    BY <1>1, <1>2, RetiredAre, Zenon
  <1> DEFINE u == Unsubmitted
             v == Unsubmitted'
  <1>8. u \in Seq(Entry) /\ v \in Seq(Entry) /\ LeftOf(u, v, M, h)
        /\ QueueOK(u, live, ops, generation, mayCancel)
    BY <1>1, <1>4, <1>5, <1>6, Zenon
  <1> HIDE DEF u, v
  <1>9. /\ QueueOK(v, live, ops, generation, mayCancel) /\ Tags(v) = Tags(u) \ TagsIn(u, M)
        /\ \A i \in 1..Len(v) : v[i] = Nop \/ (v[i] \notin M /\ v[i] \in Range(u))
    BY <1>8, QueueLeft, Zenon
  <1>10. TagsIn(Unsubmitted, M) \subseteq Tags(Unsubmitted)
    BY Zenon DEF TagsIn, Tags
  <1> QED BY <1>3, <1>6, <1>7, <1>9, <1>10, Zenon DEF u, v

(* The caller of an operation owns its tag from now on.                    *)
LEMMA LiveGrows ==
    ASSUME TypeOK, NEW t \in Address, t # None => live[t] = 0,
           live' = IF t = None THEN live ELSE [live EXCEPT ![t] = ops + 1]
    PROVE  /\ live' \in [Tag -> Nat] /\ Owned(live') = Owned(live) \cup (Tag \cap {t})
           /\ (Tag \cap {t}) \cap Owned(live) = {}
           /\ \A x \in Owned(live) : live'[x] = live[x]
           /\ t \in Tag => live'[t] = ops + 1
           /\ ops + 1 \in Nat /\ ops + 1 # 0
  <1>1. live \in [Tag -> Nat] /\ ops + 1 \in Nat /\ ops + 1 # 0
    BY DEF TypeOK
  <1>2. None \notin Tag
    BY NoneAssumption, Zenon DEF Tag
  <1>3. CASE t = None
    <2>1. live' = live /\ Tag \cap {t} = {} /\ t \notin Tag
      BY <1>2, <1>3, Zenon
    <2> QED BY <1>1, <2>1, Zenon
  <1>4. CASE t # None
    <2>1. t \in Tag /\ live[t] = 0 /\ live' = [live EXCEPT ![t] = ops + 1]
      BY <1>4, Zenon DEF Address
    <2>2. /\ live' \in [Tag -> Nat] /\ live'[t] = ops + 1
          /\ \A x \in Tag : x # t => live'[x] = live[x]
      BY <1>1, <2>1, Zenon
    <2>3. Owned(live') = Owned(live) \cup (Tag \cap {t})
      BY <1>1, <2>1, <2>2, Zenon DEF Owned
    <2>4. (Tag \cap {t}) \cap Owned(live) = {}
      BY <2>1, Zenon DEF Owned
    <2>5. \A x \in Owned(live) : live'[x] = live[x]
      BY <2>1, <2>2, Zenon DEF Owned
    <2> QED BY <1>1, <2>2, <2>3, <2>4, <2>5, Zenon
  <1> QED BY Zenon, <1>3, <1>4

(* An entry that is submitted comes behind the others and owes the         *)
(* completion of its tag.                                                  *)
LEMMA SubmitStep ==
    ASSUME BackendInv, NEW e \in Entry, e.n = ops + 1, SubmitOrQueue(e), ops' = ops + 1,
           NEW m2 \in BOOLEAN, mayCancel => m2, mayCancel' = m2,
           e.op = "cancel" => m2, EntryOK(e, live', ops + 1, generation),
           e.tag # None => live[e.tag] = 0,
           live' = IF e.tag = None THEN live ELSE [live EXCEPT ![e.tag] = ops + 1],
           UNCHANGED <<pc, kernel, cq, deferred, detached, generation>>
    PROVE  BackendInv'
  <1> DEFINE t == e.tag
             u == Unsubmitted
             T == Tag \cap {t}
  <1>1. TypeOK /\ QueueTypes /\ t \in Address
    BY DEF BackendInv, TypeOK, Entry
  <1>2. QueueTypes' /\ Unsubmitted' = Append(u, e)
    BY <1>1, SubmitAppends, Zenon
  <1>3. /\ live' \in [Tag -> Nat] /\ Owned(live') = Owned(live) \cup T
        /\ T \cap Owned(live) = {} /\ \A x \in Owned(live) : live'[x] = live[x]
        /\ t \in Tag => live'[t] = ops + 1
        /\ ops + 1 \in Nat
    BY <1>1, LiveGrows, Zenon
  <1>4. TypeOK'
    BY <1>1, <1>2, <1>3, Zenon DEF TypeOK
  <1>5. /\ QueueOK(u, live', ops + 1, generation, m2) /\ KnownInKernel(kernel, live')
        /\ EndsOK(cq, live') /\ EndsOK(deferred, live') /\ EndsOK(detached, live')
    BY <1>3, OthersKept, Zenon
  <1>6. /\ Apart(Tags(u), InKernelTags(kernel), Ends(cq), Ends(deferred), Ends(detached))
        /\ Owned(live) = Tags(u) \cup InKernelTags(kernel) \cup Ends(cq)
                              \cup Ends(deferred) \cup Ends(detached)
        /\ u \in Seq(Entry)
        /\ \A i \in 1..Len(u) : u[i].op # "nop" => u[i].n \in 1..ops
    BY TagsOwed, Zenon
  <1> HIDE DEF t, u, T
  <1>7. \A i \in 1..Len(u) : u[i].op # "nop" => u[i].n < e.n
    <2>1. \A x \in 1..ops : x < ops + 1
      BY <1>1 DEF TypeOK
    <2> QED BY <1>6, <2>1, Zenon
  <1>8. e.tag \in Tag => e.tag \notin Tags(u) /\ e.n = live'[e.tag]
    BY <1>3, <1>6, ZenonT(40) DEF t, T
  <1>9. /\ QueueOK(Append(u, e), live', ops + 1, generation, m2)
        /\ Tags(Append(u, e)) = Tags(u) \cup T
    BY Zenon, <1>5, <1>6, <1>7, <1>8, QueueAppended DEF t, T
  <1>10. Shared(Tags(u) \cup T, InKernelTags(kernel), Ends(cq), Ends(deferred),
                Ends(detached), Owned(live'))
    BY Zenon, <1>3, <1>6 DEF Shared, Apart
  <1>11. Owing'
    BY <1>2, <1>9, <1>10, Zenon DEF Owing
  <1>12. QueueOK(Unsubmitted, live, ops, generation, mayCancel)'
    BY <1>2, <1>9, Zenon
  <1>13. /\ (OnceInKernel(kernel) /\ KnownInKernel(kernel, live))'
         /\ (EndsOK(cq, live) /\ EndsOK(deferred, live) /\ EndsOK(detached, live))'
         /\ (pc # "deferred" => detached = <<>>)'
    BY <1>5, Zenon DEF BackendInv
  <1> QED BY <1>4, <1>11, <1>12, <1>13, Zenon DEF BackendInv

(* An operation is accepted.                                               *)
LEMMA AcceptInv ==
    ASSUME BackendInv, NEW t \in IoTag \cup {None}, NEW f \in Fd \cup {None}, Accept(t, f)
    PROVE  BackendInv'
  <1> DEFINE e == [op |-> "io", tag |-> t, n |-> ops + 1, fd |-> f,
                   g |-> IF f = None THEN 0 ELSE generation[f],
                   target |-> None, aim |-> 0]
  <1>1. /\ t # None => live[t] = 0
        /\ SubmitOrQueue(e) /\ ops' = ops + 1
        /\ live' = IF t = None THEN live ELSE [live EXCEPT ![t] = ops + 1]
        /\ UNCHANGED <<pc, kernel, cq, deferred, detached, mayCancel, generation>>
    BY Zenon DEF Accept
  <1>2. /\ ops + 1 \in Nat /\ ops + 1 \in 1..(ops + 1) /\ generation \in [Fd -> Nat]
        /\ mayCancel \in BOOLEAN
    BY DEF BackendInv, TypeOK
  <1>3. t \in Address
    BY Zenon DEF Address, Tag
  <1>4. e \in Entry
    <2>1. (IF f = None THEN 0 ELSE generation[f]) \in Nat
      BY <1>2
    <2> QED BY <1>2, <1>3, <2>1 DEF Entry, Address
  <1>5. /\ e.tag = t /\ e.n = ops + 1 /\ e.op = "io" /\ e.fd = f
        /\ f # None => e.g = generation[f]
    OBVIOUS
  <1> HIDE DEF e
  <1>6. EntryOK(e, live', ops + 1, generation)
    BY <1>2, <1>5, Zenon DEF EntryOK
  <1>7. e.op # "cancel"
    BY <1>5
  <1> QED BY <1>1, <1>2, <1>4, <1>5, <1>6, <1>7, SubmitStep, Zenon

(* CancelByData: what is not submitted yet is retired, and the cancel      *)
(* request with it; otherwise the request is submitted.                    *)
LEMMA CancelInv ==
    ASSUME BackendInv, NEW t \in IoTag, NEW c \in CancelTag \cup {None}, CancelByData(t, c)
    PROVE  BackendInv'
  <1> DEFINE M == {e \in Range(Unsubmitted) : e.tag = t}
             x == [op |-> "cancel", tag |-> c, n |-> ops + 1, fd |-> None,
                   g |-> 0, target |-> t, aim |-> live[t]]
             u == Unsubmitted
             T == Tag \cap {c}
             X == TagsIn(u, M)
  <1>1. /\ live[t] # 0 /\ (c # None => live[c] = 0)
        /\ live' = IF c = None THEN live ELSE [live EXCEPT ![c] = ops + 1]
        /\ ops' = ops + 1
        /\ UNCHANGED <<pc, kernel, cq, detached, generation>>
    BY Zenon DEF CancelByData
  <1>2. IF M # {}
        THEN /\ CancelUnsubmittedMatching(M)
             /\ deferred' = deferred \o Append(Retired(M), Cqe(x, FALSE))
             /\ UNCHANGED mayCancel
        ELSE /\ SubmitOrQueue(x) /\ mayCancel' = TRUE /\ UNCHANGED deferred
    BY Zenon DEF CancelByData
  <1>3. /\ TypeOK /\ ops + 1 \in Nat /\ ops + 1 \in 1..(ops + 1)
        /\ mayCancel \in BOOLEAN /\ live \in [Tag -> Nat] /\ t \in Tag /\ c \in Address
    BY DEF BackendInv, TypeOK, Tag, Address
  <1>4. x \in Entry
    <2>1. live[t] \in Nat
      BY <1>3
    <2> QED BY <1>3, <2>1 DEF Entry, Address
  <1>5. /\ x.tag = c /\ x.n = ops + 1 /\ x.op = "cancel" /\ x.target = t
        /\ x.aim = live[t]
    OBVIOUS
  <1>6. /\ live' \in [Tag -> Nat] /\ Owned(live') = Owned(live) \cup T
        /\ T \cap Owned(live) = {} /\ \A y \in Owned(live) : live'[y] = live[y]
        /\ c \in Tag => live'[c] = ops + 1
    BY <1>1, <1>3, LiveGrows, Zenon
  <1>7. live'[t] = live[t]
    BY <1>1, <1>3, <1>6, Zenon DEF Owned
  <1> HIDE DEF x, M, u, X, T
  <1>8. CASE M = {}
    <2>1. SubmitOrQueue(x) /\ mayCancel' = TRUE /\ UNCHANGED deferred
      BY <1>2, <1>8, Zenon
    <2>2. EntryOK(x, live', ops + 1, generation)
      BY <1>1, <1>3, <1>5, <1>7, Zenon DEF EntryOK
    <2>3. /\ x.tag # None => live[x.tag] = 0
          /\ live' = IF x.tag = None THEN live ELSE [live EXCEPT ![x.tag] = ops + 1]
      BY <1>1, <1>5, Zenon
    <2>4. UNCHANGED <<pc, kernel, cq, deferred, detached, generation>>
      BY <1>1, <2>1, Zenon
    <2> QED BY <1>1, <1>4, <1>5, <2>1, <2>2, <2>3, <2>4, SubmitStep, Zenon
  <1>9. CASE M # {}
    <2>1. /\ CancelUnsubmittedMatching(M) /\ mayCancel' = mayCancel
          /\ deferred' = deferred \o Append(Retired(M), Cqe(x, FALSE))
      BY <1>2, <1>9, Zenon
    <2>2. /\ QueueTypes' /\ Unsubmitted' \in Seq(Entry)
          /\ QueueOK(Unsubmitted', live, ops, generation, mayCancel)
          /\ Tags(Unsubmitted') = Tags(u) \ X
          /\ Retired(M) \in Seq(Completion) /\ EndsOK(Retired(M), live)
          /\ Ends(Retired(M)) = X /\ X \subseteq Tags(u)
      BY <2>1, RetireStep, Zenon DEF u, X
    <2>3. /\ Apart(Tags(u), InKernelTags(kernel), Ends(cq), Ends(deferred), Ends(detached))
          /\ Owned(live) = Tags(u) \cup InKernelTags(kernel) \cup Ends(cq)
                                \cup Ends(deferred) \cup Ends(detached)
      BY TagsOwed, Zenon DEF u
    <2>4. /\ KnownInKernel(kernel, live') /\ EndsOK(cq, live') /\ EndsOK(deferred, live')
          /\ EndsOK(detached, live')
      BY <1>6, OthersKept, Zenon
    <2>5. QueueOK(Unsubmitted', live', ops + 1, generation, mayCancel)
      <3> DEFINE v == Unsubmitted'
                 g == generation
      <3>1. QueueOK(v, live, ops, g, mayCancel) /\ Tags(v) \subseteq Owned(live)
        BY <2>2, <2>3, Zenon
      <3> HIDE DEF v, g
      <3>2. \A i \in 1..Len(v) :
                /\ v[i].tag \in Tag => live'[v[i].tag] = live[v[i].tag]
                /\ v[i].op = "cancel" => live'[v[i].target] = live[v[i].target] /\ mayCancel
                /\ v[i].op = "io" /\ v[i].fd # None => g[v[i].fd] = g[v[i].fd]
        <4> TAKE i \in 1..Len(v)
        <4>1. v[i].tag \in Tag => v[i].tag \in Owned(live)
          BY <3>1, Zenon DEF Tags
        <4>2. EntryOK(v[i], live, ops, g) /\ (v[i].op = "cancel" => mayCancel)
          BY <3>1, Zenon DEF QueueOK
        <4>3. v[i].op = "cancel" => v[i].target \in Owned(live)
          BY <4>2, Zenon DEF EntryOK, Owned, Tag
        <4> QED BY <1>6, <4>1, <4>2, <4>3, ZenonT(40)
      <3>3. ops \in Nat /\ ops + 1 \in Nat /\ ops <= ops + 1
        BY SMTT(30), <1>3 DEF TypeOK
      <3>4. QueueOK(v, live', ops + 1, g, mayCancel)
        BY Zenon, <3>1, <3>2, <3>3, QueueChanged
      <3> QED BY <3>4, Zenon DEF v, g
    <2> DEFINE R == Append(Retired(M), Cqe(x, FALSE))
    <2>6. Cqe(x, FALSE) \in Completion /\ Cqe(x, FALSE).n = ops + 1
          /\ EndOf(Cqe(x, FALSE)) = T
      BY <1>4, <1>5, CqeOf, Zenon DEF T
    <2>7. EndsOK(Retired(M), live')
      <3>1. \A y \in Ends(Retired(M)) : live'[y] = live[y]
        BY <1>6, <2>2, <2>3, Zenon
      <3> QED BY <2>2, <3>1, EndsChanged, Zenon
    <2>8. R \in Seq(Completion) /\ EndsOK(R, live') /\ Ends(R) = X \cup T
      <3>1. T \cap Ends(Retired(M)) = {}
        BY <1>6, <2>2, <2>3
      <3>2. \A y \in T : Cqe(x, FALSE).n = live'[y]
        BY <1>6, <2>6, Zenon DEF T
      <3> QED BY <2>2, <2>6, <2>7, <3>1, <3>2, EndsAppended, Zenon
    <2> HIDE DEF R
    <2>9. /\ deferred' \in Seq(Completion) /\ EndsOK(deferred', live')
          /\ Ends(deferred') = Ends(deferred) \cup (X \cup T)
      <3>1. deferred' = deferred \o R /\ deferred \in Seq(Completion)
        BY <1>3, <2>1, Zenon DEF R, TypeOK
      <3>2. Ends(deferred) \cap Ends(R) = {}
        BY <1>6, <2>2, <2>3, <2>8 DEF Apart
      <3>3. /\ deferred \o R \in Seq(Completion) /\ EndsOK(deferred \o R, live')
            /\ Ends(deferred \o R) = Ends(deferred) \cup Ends(R)
        BY SMTT(30), <2>4, <2>8, <3>1, <3>2, EndsTogether
      <3> QED BY <2>8, <3>1, <3>3, Zenon
    <2>10. Shared(Tags(u) \ X, InKernelTags(kernel), Ends(cq), Ends(deferred) \cup (X \cup T),
                  Ends(detached), Owned(live'))
      BY <1>6, <2>2, <2>3 DEF Shared, Apart
    <2>11. Owing'
      BY <1>1, <2>2, <2>9, <2>10, Zenon DEF Owing
    <2>12. TypeOK'
      BY <1>1, <1>3, <1>6, <2>1, <2>2, <2>9, Zenon DEF TypeOK
    <2>13. QueueOK(Unsubmitted, live, ops, generation, mayCancel)'
      BY <1>1, <2>1, <2>5, Zenon
    <2>14. /\ (OnceInKernel(kernel) /\ KnownInKernel(kernel, live))'
           /\ (EndsOK(cq, live) /\ EndsOK(deferred, live) /\ EndsOK(detached, live))'
           /\ (pc # "deferred" => detached = <<>>)'
      BY <1>1, <2>4, <2>9, Zenon DEF BackendInv
    <2> QED BY <2>11, <2>12, <2>13, <2>14, Zenon DEF BackendInv
  <1> QED BY <1>8, <1>9

(* A descriptor is closed: no entry that waits names it any more.          *)
LEMMA CloseInv ==
    ASSUME BackendInv, NEW f \in Fd, CloseFd(f)
    PROVE  BackendInv'
  <1> DEFINE M == {e \in Range(Unsubmitted) : e.op = "io" /\ e.fd = f}
             u == Unsubmitted
             v == Unsubmitted'
             X == TagsIn(u, M)
  <1>1. /\ CancelUnsubmittedMatching(M) /\ deferred' = deferred \o Retired(M)
        /\ generation' = [generation EXCEPT ![f] = @ + 1]
        /\ UNCHANGED <<pc, kernel, cq, detached, mayCancel, live, ops>>
    BY Zenon DEF CloseFd
  <1>2. /\ TypeOK /\ generation \in [Fd -> Nat] /\ ops \in Nat /\ ops <= ops
        /\ deferred \in Seq(Completion)
    BY DEF BackendInv, TypeOK
  <1>3. /\ QueueTypes' /\ v \in Seq(Entry)
        /\ QueueOK(v, live, ops, generation, mayCancel) /\ Tags(v) = Tags(u) \ X
        /\ \A i \in 1..Len(v) : v[i] = Nop \/ (v[i] \notin M /\ v[i] \in Range(u))
        /\ Retired(M) \in Seq(Completion) /\ EndsOK(Retired(M), live)
        /\ Ends(Retired(M)) = X /\ X \subseteq Tags(u)
    BY <1>1, RetireStep, Zenon
  <1>4. /\ Apart(Tags(u), InKernelTags(kernel), Ends(cq), Ends(deferred), Ends(detached))
        /\ Owned(live) = Tags(u) \cup InKernelTags(kernel) \cup Ends(cq)
                              \cup Ends(deferred) \cup Ends(detached)
    BY TagsOwed, Zenon
  <1>5. \A i \in 1..Len(v) : v[i].op = "io" => v[i].fd # f
    BY <1>3, NopIsNothing, Zenon
  <1> HIDE DEF M, u, v, X
  <1>6. generation' \in [Fd -> Nat] /\ \A h \in Fd : h # f => generation'[h] = generation[h]
    BY SMTT(30), <1>1, <1>2
  <1>7. QueueOK(v, live, ops, generation', mayCancel)
    <2>1. \A i \in 1..Len(v) :
              /\ v[i].tag \in Tag => live[v[i].tag] = live[v[i].tag]
              /\ v[i].op = "cancel" => live[v[i].target] = live[v[i].target] /\ mayCancel
              /\ v[i].op = "io" /\ v[i].fd # None => generation'[v[i].fd] = generation[v[i].fd]
      <3> TAKE i \in 1..Len(v)
      <3>1. v[i].op = "cancel" => mayCancel
        BY <1>3, Zenon DEF QueueOK
      <3>2. v[i].fd \in Fd \cup {None}
        <4>1. v[i] \in Entry
          BY <1>3
        <4> QED BY <4>1 DEF Entry
      <3> QED BY <1>5, <1>6, <3>1, <3>2, ZenonT(40)
    <2> QED BY Zenon, <1>2, <1>3, <2>1, QueueChanged
  <1>8. /\ deferred' \in Seq(Completion) /\ EndsOK(deferred', live)
        /\ Ends(deferred') = Ends(deferred) \cup X
    <2>1. EndsOK(deferred, live)
      BY Zenon DEF BackendInv
    <2>2. Ends(deferred) \cap Ends(Retired(M)) = {}
      BY <1>3, <1>4 DEF Apart
    <2>3. /\ deferred \o Retired(M) \in Seq(Completion)
          /\ EndsOK(deferred \o Retired(M), live)
          /\ Ends(deferred \o Retired(M)) = Ends(deferred) \cup Ends(Retired(M))
      BY SMTT(30), <1>2, <1>3, <2>1, <2>2, EndsTogether
    <2> QED BY <1>1, <1>3, <2>3, Zenon
  <1>9. Shared(Tags(u) \ X, InKernelTags(kernel), Ends(cq), Ends(deferred) \cup X,
               Ends(detached), Owned(live))
    BY <1>3, <1>4 DEF Shared, Apart
  <1>10. Owing'
    BY <1>1, <1>3, <1>8, <1>9, Zenon DEF Owing, v
  <1>11. TypeOK'
    BY <1>1, <1>2, <1>3, <1>6, <1>8, Zenon DEF TypeOK
  <1>12. QueueOK(Unsubmitted, live, ops, generation, mayCancel)'
    BY <1>1, <1>7, Zenon DEF v
  <1>13. /\ (OnceInKernel(kernel) /\ KnownInKernel(kernel, live))'
         /\ (EndsOK(cq, live) /\ EndsOK(deferred, live) /\ EndsOK(detached, live))'
         /\ (pc # "deferred" => detached = <<>>)'
    BY <1>1, <1>8, Zenon DEF BackendInv
  <1> QED BY <1>10, <1>11, <1>12, <1>13, Zenon DEF BackendInv

-----------------------------------------------------------------------------
(* DispatchCqe frees the tag of a last completion.                         *)
LEMMA TagFreed ==
    ASSUME TypeOK, NEW c \in Completion,
           live' = IF c.tag = None \/ c.more THEN live ELSE [live EXCEPT ![c.tag] = 0]
    PROVE  /\ live' \in [Tag -> Nat] /\ Owned(live') = Owned(live) \ EndOf(c)
           /\ \A t \in Tag : t \notin EndOf(c) => live'[t] = live[t]
  <1>1. live \in [Tag -> Nat] /\ c.tag \in Tag \cup {None} /\ c.more \in BOOLEAN
    BY DEF TypeOK, Completion, Address
  <1>2. None \notin Tag
    BY NoneAssumption, Zenon DEF Tag
  <1>3. CASE c.tag = None \/ c.more
    <2>1. live' = live /\ EndOf(c) = {}
      BY <1>1, <1>2, <1>3 DEF EndOf
    <2> QED BY Zenon, <1>1, <2>1
  <1>4. CASE ~(c.tag = None \/ c.more)
    <2>1. c.tag \in Tag /\ EndOf(c) = {c.tag}
      BY <1>1, <1>4 DEF EndOf
    <2>2. live' = [live EXCEPT ![c.tag] = 0]
      BY <1>4
    <2>3. live' \in [Tag -> Nat] /\ live'[c.tag] = 0 /\ \A t \in Tag : t # c.tag => live'[t] = live[t]
      BY SMTT(30), <1>1, <2>1, <2>2
    <2> HIDE DEF Tag
    <2> QED BY <2>1, <2>3 DEF Owned
  <1> QED BY Zenon, <1>3, <1>4

(* RetireUnsubmittedCancels: no cancel stays that is aimed at a completed  *)
(* operation, and mayCancel still covers those that stay.                  *)
LEMMA CancelsRetired ==
    ASSUME BackendInv, NEW c \in Completion, RetireUnsubmittedCancels(c)
    PROVE  /\ QueueTypes' /\ mayCancel' \in BOOLEAN /\ Unsubmitted' \in Seq(Entry)
           /\ QueueOK(Unsubmitted', live, ops, generation, mayCancel)
           /\ \A i \in 1..Len(Unsubmitted') :
                 Unsubmitted'[i].op = "cancel" =>
                     mayCancel' /\ Unsubmitted'[i].target \notin EndOf(c)
           /\ deferred' \in Seq(Completion) /\ EndsOK(deferred', live)
           /\ \E X \in SUBSET Tags(Unsubmitted) :
                 /\ Tags(Unsubmitted') = Tags(Unsubmitted) \ X
                 /\ Ends(deferred') = Ends(deferred) \cup X
  <1> DEFINE cancels == {e \in Range(Unsubmitted) : e.op = "cancel"}
             M == {e \in cancels : e.target = c.tag}
             u == Unsubmitted
             v == Unsubmitted'
             X == TagsIn(u, M)
  <1>1. /\ QueueTypes /\ mayCancel \in BOOLEAN /\ deferred \in Seq(Completion)
        /\ EndsOK(deferred, live) /\ QueueOK(u, live, ops, generation, mayCancel)
    BY Zenon DEF BackendInv, TypeOK
  <1>2. u \in Seq(Entry)
    BY <1>1, UnsubmittedType, Zenon
  <1>3. CASE mayCancel /\ ~c.more
    <2>1. /\ CancelUnsubmittedMatching(M) /\ deferred' = deferred \o Retired(M)
          /\ mayCancel' = (cancels # M)
      BY <1>3, Zenon DEF RetireUnsubmittedCancels
    <2>2. mayCancel' \in BOOLEAN
      BY <2>1
    <2>3. /\ QueueTypes' /\ v \in Seq(Entry)
          /\ QueueOK(v, live, ops, generation, mayCancel) /\ Tags(v) = Tags(u) \ X
          /\ \A i \in 1..Len(v) : v[i] = Nop \/ (v[i] \notin M /\ v[i] \in Range(u))
          /\ Retired(M) \in Seq(Completion) /\ EndsOK(Retired(M), live)
          /\ Ends(Retired(M)) = X /\ X \subseteq Tags(u)
      BY <2>1, RetireStep, Zenon
    <2>4. ASSUME NEW i \in 1..Len(v), v[i].op = "cancel"
          PROVE  mayCancel' /\ v[i].target \notin EndOf(c)
      <3>1. v[i] \notin M /\ v[i] \in Range(u)
        BY <2>3, <2>4, NopIsNothing, Zenon
      <3>2. v[i] \in cancels /\ v[i].target # c.tag
        BY <2>4, <3>1, Zenon
      <3>3. cancels # M
        BY <3>1, <3>2, Zenon
      <3> HIDE DEF cancels, M, v
      <3>4. v[i].target \notin EndOf(c)
        BY <3>2, Zenon DEF EndOf
      <3> QED BY <2>1, <3>3, <3>4, Zenon
    <2>5. Ends(deferred) \cap Ends(Retired(M)) = {}
      <3>1. Tags(u) \cap Ends(deferred) = {}
        BY TagsOwed, Zenon DEF Apart
      <3> HIDE DEF M, u, X
      <3> QED BY <2>3, <3>1
    <2> HIDE DEF cancels, M, u, v, X
    <2>6. /\ deferred \o Retired(M) \in Seq(Completion)
          /\ EndsOK(deferred \o Retired(M), live)
          /\ Ends(deferred \o Retired(M)) = Ends(deferred) \cup Ends(Retired(M))
      BY <1>1, <2>3, <2>5, EndsTogether
    <2>7. /\ deferred' \in Seq(Completion) /\ EndsOK(deferred', live)
          /\ Ends(deferred') = Ends(deferred) \cup X
      BY <2>1, <2>3, <2>6, Zenon
    <2>8. X \in SUBSET Tags(u)
      BY <2>3
    <2>9. \E Y \in SUBSET Tags(u) : /\ Tags(v) = Tags(u) \ Y
                                    /\ Ends(deferred') = Ends(deferred) \cup Y
      BY <2>3, <2>7, <2>8, Zenon
    <2> QED BY <2>2, <2>3, <2>4, <2>7, <2>9, Zenon DEF u, v
  <1>4. CASE ~(mayCancel /\ ~c.more)
    <2>1. UNCHANGED <<sq, pendingIo, deferred, mayCancel>>
      BY <1>4, Zenon DEF RetireUnsubmittedCancels
    <2>2. QueueTypes' /\ v = u /\ mayCancel' = mayCancel /\ deferred' = deferred
      BY <1>1, <2>1, Zenon DEF QueueTypes, Unsubmitted
    <2> HIDE DEF u, v
    <2>3. ASSUME NEW i \in 1..Len(v), v[i].op = "cancel"
          PROVE  mayCancel' /\ v[i].target \notin EndOf(c)
      <3>1. mayCancel
        BY <1>1, <2>2, <2>3, Zenon DEF QueueOK
      <3>2. EndOf(c) = {}
        BY <1>4, <3>1 DEF EndOf
      <3> QED BY <2>2, <3>1, <3>2
    <2>4. {} \in SUBSET Tags(u) /\ Tags(v) = Tags(u) \ {} /\ Ends(deferred') = Ends(deferred) \cup {}
      BY <2>2
    <2>5. \E Y \in SUBSET Tags(u) : /\ Tags(v) = Tags(u) \ Y
                                    /\ Ends(deferred') = Ends(deferred) \cup Y
      BY <2>4, Zenon
    <2> QED BY <1>1, <1>2, <2>2, <2>3, <2>5, Zenon DEF u, v
  <1> QED BY Zenon, <1>3, <1>4

(* DispatchCqe, for a completion whose tag nobody else owes.               *)
LEMMA DispatchStep ==
    ASSUME BackendInv, NEW c \in Completion, DispatchCqe(c),
           EndOf(c) \cap Tags(Unsubmitted) = {}, EndOf(c) \cap InKernelTags(kernel) = {},
           EndOf(c) \cap Ends(deferred) = {}
    PROVE  /\ QueueTypes' /\ mayCancel' \in BOOLEAN /\ live' \in [Tag -> Nat]
           /\ Owned(live') = Owned(live) \ EndOf(c)
           /\ \A t \in Tag : t \notin EndOf(c) => live'[t] = live[t]
           /\ QueueOK(Unsubmitted', live', ops, generation, mayCancel')
           /\ KnownInKernel(kernel, live')
           /\ deferred' \in Seq(Completion) /\ EndsOK(deferred', live')
           /\ \E X \in SUBSET Tags(Unsubmitted) :
                 /\ Tags(Unsubmitted') = Tags(Unsubmitted) \ X
                 /\ Ends(deferred') = Ends(deferred) \cup X
  <1> DEFINE v == Unsubmitted'
             u == Unsubmitted
             g == generation
  <1>1. /\ RetireUnsubmittedCancels(c)
        /\ live' = IF c.tag = None \/ c.more THEN live ELSE [live EXCEPT ![c.tag] = 0]
    BY Zenon DEF DispatchCqe
  <1>2. TypeOK /\ KnownInKernel(kernel, live) /\ ops \in Nat /\ ops <= ops
    BY DEF BackendInv, TypeOK
  <1>3. /\ live' \in [Tag -> Nat] /\ Owned(live') = Owned(live) \ EndOf(c)
        /\ \A t \in Tag : t \notin EndOf(c) => live'[t] = live[t]
    BY <1>1, <1>2, TagFreed, Zenon
  <1>4. /\ QueueTypes' /\ mayCancel' \in BOOLEAN /\ v \in Seq(Entry)
        /\ QueueOK(v, live, ops, g, mayCancel)
        /\ \A i \in 1..Len(v) :
              v[i].op = "cancel" => mayCancel' /\ v[i].target \notin EndOf(c)
        /\ deferred' \in Seq(Completion) /\ EndsOK(deferred', live)
        /\ \E X \in SUBSET Tags(u) :
              Tags(v) = Tags(u) \ X /\ Ends(deferred') = Ends(deferred) \cup X
    BY <1>1, CancelsRetired, Zenon
  <1> HIDE DEF v, u, g
  <1>5. PICK X \in SUBSET Tags(u) :
            Tags(v) = Tags(u) \ X /\ Ends(deferred') = Ends(deferred) \cup X
    BY <1>4, Zenon
  <1>6. EndOf(c) \cap Tags(v) = {} /\ EndOf(c) \cap Ends(deferred') = {}
    <2>1. EndOf(c) \cap Tags(u) = {}
      BY Zenon DEF u
    <2> QED BY <1>5, <2>1
  <1>7. \A i \in 1..Len(v) :
            /\ v[i].tag \in Tag => live'[v[i].tag] = live[v[i].tag]
            /\ v[i].op = "cancel" => live'[v[i].target] = live[v[i].target] /\ mayCancel'
            /\ v[i].op = "io" /\ v[i].fd # None => g[v[i].fd] = g[v[i].fd]
    <2> TAKE i \in 1..Len(v)
    <2>1. v[i].tag \in Tag => v[i].tag \in Tags(v)
      BY Zenon DEF Tags
    <2>2. v[i].tag \in Tag => v[i].tag \notin EndOf(c)
      BY <1>6, <2>1
    <2>3. v[i].op = "cancel" => v[i].target \in Tag
      BY <1>4, ZenonT(40) DEF QueueOK, EntryOK, Tag
    <2> QED BY <1>3, <1>4, <2>2, <2>3, ZenonT(40)
  <1>8. QueueOK(v, live', ops, g, mayCancel')
    BY Zenon, <1>2, <1>4, <1>7, QueueChanged
  <1>9. \A t \in Ends(deferred') : live'[t] = live[t]
    <2>1. \A t \in Ends(deferred') : t \in Tag /\ t \notin EndOf(c)
      BY <1>6, Zenon DEF Ends
    <2> QED BY <1>3, <2>1, Zenon
  <1>10. EndsOK(deferred', live')
    BY <1>4, <1>9, EndsChanged, Zenon
  <1>11. \A t \in InKernelTags(kernel) : live'[t] = live[t]
    <2>1. \A t \in InKernelTags(kernel) : t \in Tag /\ t \notin EndOf(c)
      BY Zenon DEF InKernelTags
    <2> QED BY <1>3, <2>1, Zenon
  <1>12. KnownInKernel(kernel, live')
    BY <1>2, <1>11, KernelChanged, Zenon
  <1> QED BY <1>3, <1>4, <1>8, <1>10, <1>12, Zenon DEF u, v, g

(* ReapCompletions dispatches what the kernel reported.                    *)
LEMMA ReapInv == ASSUME BackendInv, Reap PROVE BackendInv'
  <1> DEFINE c == Head(cq)
             C == Ends(cq)
             E == EndOf(c)
  <1>1. /\ DispatchCqe(c) /\ cq # <<>> /\ cq' = Tail(cq)
        /\ UNCHANGED <<pc, detached, kernel, ops, generation>>
    BY Zenon DEF Reap, DispatchCqe
  <1>2. /\ TypeOK /\ cq \in Seq(Completion) /\ EndsOK(cq, live) /\ EndsOK(detached, live)
        /\ OnceInKernel(kernel) /\ (pc # "deferred" => detached = <<>>)
    BY Zenon DEF BackendInv, TypeOK
  <1>3. /\ c \in Completion /\ cq' \in Seq(Completion) /\ EndsOK(cq', live)
        /\ Ends(cq') = C \ E /\ E \subseteq C
    BY <1>1, <1>2, EndsTaken, Zenon
  <1> DEFINE U == Tags(Unsubmitted)
             K == InKernelTags(kernel)
             D == Ends(deferred)
             F == Ends(detached)
  <1>4. Apart(U, K, C, D, F) /\ Owned(live) = U \cup K \cup C \cup D \cup F
    BY TagsOwed, Zenon
  <1> HIDE DEF c, C, E, U, K, D, F
  <1>5. E \cap U = {} /\ E \cap K = {} /\ E \cap D = {} /\ E \cap F = {}
    BY <1>3, <1>4 DEF Apart
  <1>6. /\ QueueTypes' /\ mayCancel' \in BOOLEAN /\ live' \in [Tag -> Nat]
        /\ Owned(live') = Owned(live) \ E
        /\ \A t \in Tag : t \notin E => live'[t] = live[t]
        /\ QueueOK(Unsubmitted', live', ops, generation, mayCancel')
        /\ KnownInKernel(kernel, live')
        /\ deferred' \in Seq(Completion) /\ EndsOK(deferred', live')
        /\ \E X \in SUBSET U : Tags(Unsubmitted') = U \ X /\ Ends(deferred') = D \cup X
    BY <1>1, <1>3, <1>5, DispatchStep, Zenon DEF U, K, D, E
  <1>7. PICK X \in SUBSET U : Tags(Unsubmitted') = U \ X /\ Ends(deferred') = D \cup X
    BY <1>6, Zenon
  <1>8. Shared(U \ X, K, C \ E, D \cup X, F, Owned(live'))
    BY SMTT(30), <1>3, <1>4, <1>5, <1>6, <1>7 DEF Shared, Apart
  <1>9. Owing'
    BY <1>1, <1>3, <1>7, <1>8, Zenon DEF Owing, K, F
  <1>10. EndsOK(cq', live') /\ EndsOK(detached, live')
    <2>1. \A t \in C \ E : live'[t] = live[t]
      BY <1>6, Zenon DEF C, Ends
    <2>2. \A t \in F : live'[t] = live[t]
      <3>1. \A t \in F : t \in Tag
        BY Zenon DEF F, Ends
      <3>2. \A t \in F : t \notin E
        BY <1>5
      <3> QED BY <1>6, <3>1, <3>2, Zenon
    <2> QED BY <1>2, <1>3, <2>1, <2>2, EndsChanged, ZenonT(40) DEF F
  <1>11. TypeOK'
    BY <1>1, <1>2, <1>3, <1>6, Zenon DEF TypeOK
  <1>12. /\ QueueOK(Unsubmitted, live, ops, generation, mayCancel)'
         /\ (OnceInKernel(kernel) /\ KnownInKernel(kernel, live))'
         /\ (EndsOK(cq, live) /\ EndsOK(deferred, live) /\ EndsOK(detached, live))'
         /\ (pc # "deferred" => detached = <<>>)'
    BY <1>1, <1>2, <1>6, <1>10, ZenonT(40)
  <1> QED BY <1>9, <1>11, <1>12, Zenon DEF BackendInv

(* DrainPendingCompletions dispatches what was deferred.                   *)
LEMMA DrainCompletionsInv == ASSUME BackendInv, DrainPendingCompletions PROVE BackendInv'
  <1> DEFINE c == Head(detached)
             F == Ends(detached)
             E == EndOf(c)
  <1>1. /\ DispatchCqe(c) /\ detached # <<>> /\ detached' = Tail(detached)
        /\ pc = "deferred" /\ UNCHANGED <<pc, cq, kernel, ops, generation>>
    BY Zenon DEF DrainPendingCompletions, DispatchCqe
  <1>2. /\ TypeOK /\ detached \in Seq(Completion) /\ EndsOK(cq, live)
        /\ EndsOK(detached, live) /\ OnceInKernel(kernel)
    BY Zenon DEF BackendInv, TypeOK
  <1>3. /\ c \in Completion /\ detached' \in Seq(Completion) /\ EndsOK(detached', live)
        /\ Ends(detached') = F \ E /\ E \subseteq F
    BY <1>1, <1>2, EndsTaken, Zenon
  <1> DEFINE U == Tags(Unsubmitted)
             K == InKernelTags(kernel)
             C == Ends(cq)
             D == Ends(deferred)
  <1>4. Apart(U, K, C, D, F) /\ Owned(live) = U \cup K \cup C \cup D \cup F
    BY TagsOwed, Zenon
  <1> HIDE DEF c, C, E, U, K, D, F
  <1>5. E \cap U = {} /\ E \cap K = {} /\ E \cap C = {} /\ E \cap D = {}
    BY <1>3, <1>4 DEF Apart
  <1>6. /\ QueueTypes' /\ mayCancel' \in BOOLEAN /\ live' \in [Tag -> Nat]
        /\ Owned(live') = Owned(live) \ E
        /\ \A t \in Tag : t \notin E => live'[t] = live[t]
        /\ QueueOK(Unsubmitted', live', ops, generation, mayCancel')
        /\ KnownInKernel(kernel, live')
        /\ deferred' \in Seq(Completion) /\ EndsOK(deferred', live')
        /\ \E X \in SUBSET U : Tags(Unsubmitted') = U \ X /\ Ends(deferred') = D \cup X
    BY <1>1, <1>3, <1>5, DispatchStep, ZenonT(40) DEF U, K, D, E
  <1>7. PICK X \in SUBSET U : Tags(Unsubmitted') = U \ X /\ Ends(deferred') = D \cup X
    BY <1>6, Zenon
  <1>8. Shared(U \ X, K, C, D \cup X, F \ E, Owned(live'))
    BY <1>3, <1>4, <1>5, <1>6, <1>7 DEF Shared, Apart
  <1>9. Owing'
    BY <1>1, <1>3, <1>7, <1>8, Zenon DEF Owing, K, C
  <1>10. EndsOK(detached', live') /\ EndsOK(cq, live')
    <2>1. \A t \in F \ E : live'[t] = live[t]
      BY <1>6, Zenon DEF F, Ends
    <2>2. \A t \in C : live'[t] = live[t]
      <3>1. \A t \in C : t \in Tag
        BY Zenon DEF C, Ends
      <3>2. \A t \in C : t \notin E
        BY <1>5
      <3> QED BY <1>6, <3>1, <3>2, Zenon
    <2> QED BY <1>2, <1>3, <2>1, <2>2, EndsChanged, ZenonT(40) DEF C
  <1>11. TypeOK'
    BY <1>1, <1>2, <1>3, <1>6, Zenon DEF TypeOK
  <1>12. /\ QueueOK(Unsubmitted, live, ops, generation, mayCancel)'
         /\ (OnceInKernel(kernel) /\ KnownInKernel(kernel, live))'
         /\ (EndsOK(cq, live) /\ EndsOK(deferred, live) /\ EndsOK(detached, live))'
         /\ (pc # "deferred" => detached = <<>>)'
    BY <1>1, <1>2, <1>6, <1>10, Zenon
  <1> QED BY <1>9, <1>11, <1>12, Zenon DEF BackendInv

(* The deferred completions are detached.                                  *)
LEMMA DetachInv == ASSUME BackendInv, DetachDeferred PROVE BackendInv'
  <1>1. /\ pc = "reap" /\ detached' = deferred /\ deferred' = <<>> /\ pc' = "deferred"
        /\ UNCHANGED <<pendingIo, sq, kernel, cq, mayCancel, live, ops, generation>>
    BY Zenon DEF DetachDeferred
  <1>2. Unsubmitted' = Unsubmitted
    BY <1>1, Zenon DEF Unsubmitted
  <1>3. detached = <<>>
    BY <1>1 DEF BackendInv
  <1>4. EndsOK(<<>>, live) /\ Ends(<<>>) = {}
    BY NoEnds, Zenon
  <1>5. Ends(detached) = {} /\ Ends(deferred') = {} /\ Ends(detached') = Ends(deferred)
    BY <1>1, <1>3, <1>4, Zenon
  <1> DEFINE U == Tags(Unsubmitted)
             K == InKernelTags(kernel)
             C == Ends(cq)
             D == Ends(deferred)
  <1>6. Shared(U, K, C, D, {}, Owned(live))
    BY <1>5, Zenon DEF BackendInv, Owing
  <1>7. Shared(U, K, C, {}, D, Owned(live))
    <2> HIDE DEF U, K, C, D
    <2> QED BY <1>6 DEF Shared, Apart
  <1>8. Owing'
    BY <1>1, <1>2, <1>5, <1>7, Zenon DEF Owing
  <1>9. <<>> \in Seq(Completion)
    OBVIOUS
  <1>10. TypeOK'
    BY <1>1, <1>9, Zenon DEF BackendInv, TypeOK, QueueTypes
  <1>11. /\ QueueOK(Unsubmitted, live, ops, generation, mayCancel)'
         /\ (OnceInKernel(kernel) /\ KnownInKernel(kernel, live))'
         /\ (EndsOK(cq, live) /\ EndsOK(deferred, live) /\ EndsOK(detached, live))'
         /\ (pc # "deferred" => detached = <<>>)'
    BY <1>1, <1>2, <1>4, Zenon DEF BackendInv
  <1> QED BY <1>8, <1>10, <1>11, Zenon DEF BackendInv

(* Entries move from the FIFO to the submission queue, or nothing moves.   *)
LEMMA QueueStays ==
    ASSUME BackendInv, QueueTypes', Unsubmitted' = Unsubmitted,
           (pc # "deferred" => detached = <<>>)',
           UNCHANGED <<kernel, cq, deferred, detached, mayCancel, live, ops, generation>>
    PROVE  BackendInv'
  <1>1. TypeOK'
    BY Zenon DEF BackendInv, TypeOK
  <1>2. Owing'
    BY Zenon DEF BackendInv, Owing
  <1>3. QueueOK(Unsubmitted, live, ops, generation, mayCancel)'
    BY Zenon DEF BackendInv
  <1>4. /\ (OnceInKernel(kernel) /\ KnownInKernel(kernel, live))'
        /\ (EndsOK(cq, live) /\ EndsOK(deferred, live) /\ EndsOK(detached, live))'
    BY Zenon DEF BackendInv
  <1> QED BY <1>1, <1>2, <1>3, <1>4, Zenon DEF BackendInv

LEMMA RoundInv ==
    ASSUME BackendInv, PollDeferred \/ Submit \/ SubmitReturns
    PROVE  BackendInv'
  <1>1. /\ DrainPending(sq, pendingIo) /\ detached = <<>>
        /\ UNCHANGED <<kernel, cq, deferred, detached, mayCancel, live, ops, generation>>
    <2>1. CASE PollDeferred
      BY <2>1, Zenon DEF PollDeferred
    <2>2. CASE Submit \/ SubmitReturns
      <3>1. /\ DrainPending(sq, pendingIo) /\ (pc = "run" \/ pc = "enter")
            /\ UNCHANGED <<kernel, cq, deferred, detached, mayCancel, live, ops, generation>>
        BY <2>2, Zenon DEF Submit, SubmitReturns
      <3>2. pc # "deferred"
        BY <3>1
      <3> QED BY <3>1, <3>2, Zenon DEF BackendInv
    <2> QED BY <2>1, <2>2
  <1>2. QueueTypes
    BY Zenon DEF BackendInv, TypeOK
  <1>3. QueueTypes' /\ Unsubmitted' = Unsubmitted
    BY <1>1, <1>2, DrainKeeps, Zenon
  <1> QED BY <1>1, <1>3, QueueStays, Zenon

LEMMA WaitInv ==
    ASSUME BackendInv, Poll \/ Wait \/ WaitReturns \/ WaitTimesOut \/ UNCHANGED vars
    PROVE  BackendInv'
  <1>1. /\ UNCHANGED <<queues, mayCancel, live, ops, generation>>
        /\ pc' = pc \/ pc \in {"submitted", "wait"}
    BY Zenon DEF Poll, Wait, WaitReturns, WaitTimesOut, vars
  <1>2. UNCHANGED <<sq, pendingIo, kernel, cq, deferred, detached, mayCancel, live, ops,
                    generation>>
    BY <1>1, Zenon DEF queues
  <1>3. (pc # "deferred" => detached = <<>>)'
    BY <1>1, <1>2 DEF BackendInv
  <1>4. QueueTypes' /\ Unsubmitted' = Unsubmitted
    BY <1>2, Zenon DEF BackendInv, TypeOK, QueueTypes, Unsubmitted
  <1> QED BY <1>2, <1>3, <1>4, QueueStays, Zenon

-----------------------------------------------------------------------------
(* Nothing is owed at the start, and nothing after Shutdown.               *)
LEMMA NothingOwed ==
    /\ \A l, o, g, m : QueueOK(<<>>, l, o, g, m)
    /\ \A l : KnownInKernel({}, l) /\ OnceInKernel({}) /\ EndsOK(<<>>, l)
    /\ [t \in Tag |-> 0] \in [Tag -> Nat]
    /\ Shared(Tags(<<>>), InKernelTags({}), Ends(<<>>), Ends(<<>>), Ends(<<>>),
              Owned([t \in Tag |-> 0]))
    /\ <<>> \in Seq(Entry) /\ Len(<<>>) <= SqEntries /\ <<>> \in Seq(Completion)
    /\ <<>> \o <<>> = <<>>
  <1>1. 1..Len(<<>>) = {}
    OBVIOUS
  <1>2. \A l, o, g, m : QueueOK(<<>>, l, o, g, m)
    BY <1>1 DEF QueueOK, OnceIn, KnownIn, Ordered
  <1>3. \A l : KnownInKernel({}, l) /\ OnceInKernel({}) /\ EndsOK(<<>>, l)
    BY NoEnds DEF KnownInKernel, OnceInKernel
  <1>4. /\ Tags(<<>>) = {} /\ InKernelTags({}) = {} /\ Ends(<<>>) = {}
        /\ Owned([t \in Tag |-> 0]) = {}
    BY <1>1 DEF Tags, InKernelTags, Ends, Owned
  <1>5. Shared({}, {}, {}, {}, {}, {})
    BY DEF Shared, Apart
  <1>6. /\ [t \in Tag |-> 0] \in [Tag -> Nat] /\ <<>> \in Seq(Entry)
        /\ Len(<<>>) <= SqEntries /\ <<>> \in Seq(Completion) /\ <<>> \o <<>> = <<>>
    BY SizeAssumption
  <1> QED BY <1>2, <1>3, <1>4, <1>5, <1>6, Zenon

LEMMA InitInv == ASSUME Init PROVE BackendInv
  <1>1. /\ pc = "run" /\ pendingIo = <<>> /\ sq = <<>> /\ kernel = {} /\ cq = <<>>
        /\ deferred = <<>> /\ detached = <<>> /\ mayCancel = FALSE
        /\ live = [t \in Tag |-> 0] /\ ops = 0 /\ generation = [f \in Fd |-> 0]
    BY Zenon DEF Init
  <1>2. Unsubmitted = <<>>
    BY <1>1, NothingOwed, Zenon DEF Unsubmitted
  <1>3. ops \in Nat /\ generation \in [Fd -> Nat] /\ mayCancel \in BOOLEAN /\ kernel \subseteq Entry
    BY Zenon, <1>1
  <1>4. TypeOK
    BY <1>1, <1>3, NothingOwed, Zenon DEF TypeOK, QueueTypes
  <1>5. Owing
    BY <1>1, <1>2, NothingOwed, Zenon DEF Owing
  <1> QED BY <1>1, <1>2, <1>4, <1>5, NothingOwed, Zenon DEF BackendInv

LEMMA ShutdownInv == ASSUME BackendInv, Shutdown PROVE BackendInv'
  <1>1. /\ pc = "run" /\ pendingIo' = <<>> /\ sq' = <<>> /\ kernel' = {} /\ cq' = <<>>
        /\ deferred' = <<>> /\ mayCancel' = FALSE /\ live' = [t \in Tag |-> 0]
        /\ UNCHANGED <<detached, ops, generation>>
    BY Zenon DEF Shutdown
  <1>2. detached' = <<>>
    BY <1>1 DEF BackendInv
  <1>3. Unsubmitted' = <<>>
    BY <1>1, NothingOwed, Zenon DEF Unsubmitted
  <1>4. /\ ops' \in Nat /\ generation' \in [Fd -> Nat] /\ mayCancel' \in BOOLEAN
        /\ kernel' \subseteq Entry
    BY Zenon, <1>1 DEF BackendInv, TypeOK
  <1>5. TypeOK'
    BY <1>1, <1>2, <1>4, NothingOwed, Zenon DEF TypeOK, QueueTypes
  <1>6. Owing'
    BY <1>1, <1>2, <1>3, NothingOwed, Zenon DEF Owing
  <1> QED BY <1>1, <1>2, <1>3, <1>5, <1>6, NothingOwed, Zenon DEF BackendInv

-----------------------------------------------------------------------------
(* io_uring_enter takes an entry.                                          *)
LEMMA KernelTakesInv == ASSUME BackendInv, KernelTakes PROVE BackendInv'
  <1> DEFINE u == Unsubmitted
             e == Head(sq)
             T == Tag \cap {e.tag}
             U == Tags(u)
             K == InKernelTags(kernel)
             C == Ends(cq)
             D == Ends(deferred)
             F == Ends(detached)
  <1>1. /\ sq # <<>> /\ sq' = Tail(sq)
        /\ kernel' = CASE e.op = "io" -> kernel \cup {e}
                       [] e.op = "nop" -> kernel
                       [] e.op = "cancel" ->
                            {IF r.tag = e.target THEN [r EXCEPT !.op = "cancelled"]
                             ELSE r : r \in kernel}
        /\ cq' = IF e.op = "io" THEN cq ELSE Append(cq, Cqe(e, FALSE))
        /\ UNCHANGED <<pc, pendingIo, deferred, detached, mayCancel, live, ops, generation>>
    BY Zenon DEF KernelTakes
  <1>2. /\ TypeOK /\ QueueTypes /\ sq \in Seq(Entry) /\ pendingIo \in Seq(Entry)
        /\ QueueOK(u, live, ops, generation, mayCancel) /\ kernel \in SUBSET Entry
        /\ OnceInKernel(kernel) /\ KnownInKernel(kernel, live)
        /\ cq \in Seq(Completion) /\ EndsOK(cq, live)
    BY DEF BackendInv, TypeOK, QueueTypes
  <1>3. Unsubmitted' = Tail(u) /\ u # <<>> /\ Head(u) = e
    <2>1. Tail(sq) \o pendingIo = Tail(sq \o pendingIo) /\ sq \o pendingIo # <<>>
          /\ Head(sq \o pendingIo) = Head(sq)
      BY SMTT(30), <1>1, <1>2, TailOfFirst
    <2> QED BY <1>1, <2>1, Zenon DEF Unsubmitted
  <1>4. u \in Seq(Entry)
    BY <1>2, UnsubmittedType, Zenon
  <1>5. Apart(U, K, C, D, F) /\ Owned(live) = U \cup K \cup C \cup D \cup F
    BY TagsOwed, Zenon
  <1>6. QueueTypes'
    BY <1>1, <1>2, SizeAssumption DEF QueueTypes
  <1> HIDE DEF u, e, U, K, C, D, F
  <1>7. /\ QueueOK(Tail(u), live, ops, generation, mayCancel) /\ Tags(Tail(u)) = U \ {e.tag}
        /\ EntryOK(e, live, ops, generation) /\ e \in Entry
        /\ e.tag \in Tag => e.tag \in U /\ e.n = live[e.tag]
    <2> DEFINE g == generation
    <2> HIDE DEF g
    <2>1. QueueOK(u, live, ops, g, mayCancel)
      BY <1>2, Zenon DEF g
    <2>2. /\ QueueOK(Tail(u), live, ops, g, mayCancel) /\ Tags(Tail(u)) = Tags(u) \ {Head(u).tag}
          /\ EntryOK(Head(u), live, ops, g) /\ Head(u) \in Entry
          /\ Head(u).tag \in Tag => /\ Head(u).tag \in Tags(u)
                                    /\ Head(u).n = live[Head(u).tag]
      BY SMTT(30), <1>3, <1>4, <2>1, QueueTaken
    <2> QED BY <1>3, <2>2, Zenon DEF U, g
  <1>8. /\ Tags(Unsubmitted') = U \ T /\ T \subseteq U /\ \A t \in T : e.n = live[t]
        /\ T \cap K = {} /\ T \cap C = {} /\ T \cap D = {} /\ T \cap F = {}
    <2>1. U \subseteq Tag
      BY Zenon DEF U, Tags
    <2>2. T \subseteq U /\ \A t \in T : e.n = live[t]
      BY <1>7, Zenon
    <2>3. Tags(Unsubmitted') = U \ {e.tag}
      BY <1>3, <1>7, Zenon
    <2>4. U \ {e.tag} = U \ T
      BY <2>1
    <2> HIDE DEF T
    <2> QED BY <1>5, <2>2, <2>3, <2>4 DEF Apart
  <1>9. QueueOK(Unsubmitted, live, ops, generation, mayCancel)'
    BY <1>1, <1>3, <1>7, Zenon
  <1>10. /\ Cqe(e, FALSE) \in Completion /\ Cqe(e, FALSE).n = e.n
         /\ EndOf(Cqe(e, FALSE)) = T
    BY <1>7, CqeOf, Zenon
  <1>11. SUFFICES /\ kernel' \subseteq Entry /\ OnceInKernel(kernel') /\ KnownInKernel(kernel', live)
                  /\ cq' \in Seq(Completion) /\ EndsOK(cq', live)
                  /\ \/ InKernelTags(kernel') = K \cup T /\ Ends(cq') = C
                     \/ InKernelTags(kernel') = K /\ Ends(cq') = C \cup T
    <2>1. Shared(U \ T, InKernelTags(kernel'), Ends(cq'), D, F, Owned(live))
      <3>1. Shared(U \ T, K \cup T, C, D, F, Owned(live))
        <4> HIDE DEF T
        <4> QED BY SMTT(30), <1>5, <1>8 DEF Shared, Apart
      <3>2. Shared(U \ T, K, C \cup T, D, F, Owned(live))
        <4> HIDE DEF T
        <4> QED BY <1>5, <1>8 DEF Shared, Apart
      <3> HIDE DEF T
      <3> QED BY <1>11, <3>1, <3>2, ZenonT(40)
    <2>2. Owing'
      BY <1>1, <1>8, <2>1, Zenon DEF Owing, D, F
    <2>3. TypeOK'
      BY <1>1, <1>2, <1>6, <1>11, Zenon DEF TypeOK
    <2>4. /\ (OnceInKernel(kernel) /\ KnownInKernel(kernel, live))'
          /\ (EndsOK(cq, live) /\ EndsOK(deferred, live) /\ EndsOK(detached, live))'
          /\ (pc # "deferred" => detached = <<>>)'
      BY <1>1, <1>11, Zenon DEF BackendInv
    <2> QED BY <1>9, <2>2, <2>3, <2>4, Zenon DEF BackendInv
  <1>12. CASE e.op = "io"
    <2>1. kernel' = kernel \cup {e} /\ cq' = cq
      BY <1>1, <1>12
    <2>2. e.tag \in Tag => e.tag \notin InKernelTags(kernel) /\ e.n = live[e.tag]
      BY <1>7, <1>8, Zenon DEF K
    <2>3. /\ OnceInKernel(kernel') /\ KnownInKernel(kernel', live)
          /\ InKernelTags(kernel') = K \cup T
      BY <1>2, <2>1, <2>2, KernelTakesOne, ZenonT(40) DEF K
    <2>4. kernel' \subseteq Entry
      BY <1>2, <1>7, <2>1
    <2> QED BY <1>2, <2>1, <2>3, <2>4, Zenon DEF C
  <1>13. CASE e.op # "io"
    <2>1. cq' = Append(cq, Cqe(e, FALSE))
      BY Zenon, <1>1, <1>13
    <2>2. /\ EndOf(Cqe(e, FALSE)) \cap Ends(cq) = {}
          /\ \A t \in EndOf(Cqe(e, FALSE)) : Cqe(e, FALSE).n = live[t]
      BY <1>8, <1>10, Zenon DEF C
    <2>3. cq' \in Seq(Completion) /\ EndsOK(cq', live) /\ Ends(cq') = C \cup T
      BY <1>2, <1>10, <2>1, <2>2, EndsAppended, Zenon DEF C
    <2>4. /\ kernel' \subseteq Entry /\ OnceInKernel(kernel') /\ KnownInKernel(kernel', live)
          /\ InKernelTags(kernel') = K
      <3>1. CASE e.op = "nop"
        <4>1. kernel' = kernel
          BY <1>1, <3>1
        <4> QED BY <1>2, <4>1 DEF K
      <3>2. CASE e.op = "cancel"
        <4>1. kernel' = {IF r.tag = e.target THEN [r EXCEPT !.op = "cancelled"] ELSE r : r \in kernel}
          BY <1>1, <3>2
        <4> DEFINE k2 == kernel'
        <4> HIDE DEF k2
        <4>2. k2 = {Marked(r, e.target) : r \in kernel}
          BY <4>1, Zenon DEF k2, Marked
        <4> DEFINE x == e.target
        <4> HIDE DEF x
        <4>4. /\ \A r \in kernel : Marked(r, x) \in k2
              /\ \A r \in k2 : \E q \in kernel : r = Marked(q, x)
          BY <4>2, Zenon DEF x
        <4>3. /\ k2 \subseteq Entry /\ OnceInKernel(k2) /\ KnownInKernel(k2, live)
              /\ InKernelTags(k2) = InKernelTags(kernel)
          BY <1>2, <4>4, KernelMarks, Zenon
        <4> QED BY <4>3, Zenon DEF K, k2
      <3> QED BY <1>7, <1>13, <3>1, <3>2, Zenon DEF EntryOK
    <2> QED BY <2>3, <2>4, Zenon
  <1> QED BY <1>12, <1>13

(* The kernel finishes an operation, or reports of one that goes on.       *)
LEMMA KernelFinishesInv ==
    ASSUME BackendInv, NEW r \in kernel, KernelFinishes(r) \/ KernelReports(r)
    PROVE  BackendInv'
  <1> DEFINE T == Tag \cap {r.tag}
             U == Tags(Unsubmitted)
             K == InKernelTags(kernel)
             C == Ends(cq)
             D == Ends(deferred)
             F == Ends(detached)
  <1>1. UNCHANGED <<pc, pendingIo, sq, deferred, detached, mayCancel, live, ops, generation>>
    BY Zenon DEF KernelFinishes, KernelReports
  <1>2. /\ TypeOK /\ QueueTypes /\ kernel \subseteq Entry
        /\ QueueOK(Unsubmitted, live, ops, generation, mayCancel)
        /\ OnceInKernel(kernel) /\ KnownInKernel(kernel, live)
        /\ cq \in Seq(Completion) /\ EndsOK(cq, live)
    BY Zenon DEF BackendInv, TypeOK
  <1>3. r \in Entry
    BY <1>2
  <1>4. Unsubmitted' = Unsubmitted /\ QueueTypes'
    BY <1>1, <1>2, Zenon DEF Unsubmitted, QueueTypes
  <1>5. Apart(U, K, C, D, F) /\ Owned(live) = U \cup K \cup C \cup D \cup F
    BY TagsOwed, Zenon
  <1>6. SUFFICES /\ kernel' \subseteq Entry /\ OnceInKernel(kernel') /\ KnownInKernel(kernel', live)
                 /\ cq' \in Seq(Completion) /\ EndsOK(cq', live)
                 /\ Shared(U, InKernelTags(kernel'), Ends(cq'), D, F, Owned(live))
    <2>1. Owing'
      BY <1>1, <1>4, <1>6, Zenon DEF Owing
    <2>2. TypeOK'
      BY <1>1, <1>2, <1>4, <1>6, Zenon DEF TypeOK
    <2>3. /\ QueueOK(Unsubmitted, live, ops, generation, mayCancel)'
          /\ (OnceInKernel(kernel) /\ KnownInKernel(kernel, live))'
          /\ (EndsOK(cq, live) /\ EndsOK(deferred, live) /\ EndsOK(detached, live))'
          /\ (pc # "deferred" => detached = <<>>)'
      BY <1>1, <1>2, <1>4, <1>6, Zenon DEF BackendInv
    <2> QED BY <2>1, <2>2, <2>3, Zenon DEF BackendInv
  <1> HIDE DEF U, K, C, D, F
  <1>7. CASE KernelFinishes(r)
    <2>1. kernel' = kernel \ {r} /\ cq' = Append(cq, Cqe(r, FALSE))
      BY <1>7, Zenon DEF KernelFinishes
    <2>2. /\ OnceInKernel(kernel') /\ KnownInKernel(kernel', live)
          /\ InKernelTags(kernel') = K \ {r.tag}
          /\ r.tag \in Tag => r.tag \in K /\ r.n = live[r.tag]
      <3> DEFINE k2 == kernel'
      <3> HIDE DEF k2
      <3>1. k2 = kernel \ {r}
        BY SMTT(30), <2>1 DEF k2
      <3>2. /\ OnceInKernel(k2) /\ KnownInKernel(k2, live)
            /\ InKernelTags(k2) = InKernelTags(kernel) \ {r.tag}
            /\ r.tag \in Tag => r.tag \in InKernelTags(kernel) /\ r.n = live[r.tag]
        BY <1>2, <3>1, KernelLosesOne
      <3> QED BY <3>2, Zenon DEF K, k2
    <2>3. /\ InKernelTags(kernel') = K \ T /\ T \subseteq K /\ \A t \in T : r.n = live[t]
      <3>1. K \subseteq Tag
        BY Zenon DEF K, InKernelTags
      <3>2. T \subseteq K /\ \A t \in T : r.n = live[t]
        BY <2>2, Zenon
      <3>3. K \ {r.tag} = K \ T
        BY <3>1
      <3> QED BY <2>2, <3>2, <3>3, Zenon
    <2>4. /\ Cqe(r, FALSE) \in Completion /\ Cqe(r, FALSE).n = r.n
          /\ EndOf(Cqe(r, FALSE)) = T
      BY <1>3, CqeOf, Zenon
    <2> HIDE DEF T
    <2>5. T \cap C = {}
      BY <1>5, <2>3 DEF Apart
    <2>6. cq' \in Seq(Completion) /\ EndsOK(cq', live) /\ Ends(cq') = C \cup T
      BY <1>2, <2>1, <2>3, <2>4, <2>5, EndsAppended, ZenonT(40) DEF C
    <2>7. Shared(U, K \ T, C \cup T, D, F, Owned(live))
      BY <1>5, <2>3 DEF Shared, Apart
    <2>8. kernel' \subseteq Entry
      BY <1>2, <2>1
    <2> QED BY <2>2, <2>3, <2>6, <2>7, <2>8, Zenon
  <1>8. CASE KernelReports(r)
    <2>1. kernel' = kernel /\ cq' = Append(cq, Cqe(r, TRUE))
      BY <1>8, Zenon DEF KernelReports
    <2>2. Cqe(r, TRUE) \in Completion /\ EndOf(Cqe(r, TRUE)) = {}
      BY Zenon, <1>3, CqeOf
    <2>3. /\ EndOf(Cqe(r, TRUE)) \cap Ends(cq) = {}
          /\ \A t \in EndOf(Cqe(r, TRUE)) : Cqe(r, TRUE).n = live[t]
      BY Zenon, <2>2
    <2>4. cq' \in Seq(Completion) /\ EndsOK(cq', live) /\ Ends(cq') = C \cup EndOf(Cqe(r, TRUE))
      BY <1>2, <2>1, <2>2, <2>3, EndsAppended, Zenon DEF C
    <2>5. Ends(cq') = C
      BY Zenon, <2>2, <2>4
    <2>6. Shared(U, K, C, D, F, Owned(live))
      BY <1>5, Zenon DEF Shared
    <2> QED BY <1>2, <2>1, <2>4, <2>5, <2>6, Zenon DEF K
  <1> QED BY <1>7, <1>8

-----------------------------------------------------------------------------
LEMMA NextInv == ASSUME BackendInv, [Next]_vars PROVE BackendInv'
  <1>1. CASE Client
    <2>1. CASE WakeRemote
      <3>1. Accept(None, None)
        BY <2>1, Zenon DEF WakeRemote
      <3> QED BY <3>1, AcceptInv, Zenon
    <2>2. CASE \E t \in IoTag : SubmitStorage(t)
      <3>1. PICK t \in IoTag : Accept(t, None)
        BY <2>2, Zenon DEF SubmitStorage
      <3> QED BY <3>1, AcceptInv, Zenon
    <2>3. CASE \E t \in IoTag, f \in Fd : SubmitSocket(t, f)
      <3>1. PICK t \in IoTag, f \in Fd : Accept(t, f)
        BY <2>3, Zenon DEF SubmitSocket
      <3> QED BY <3>1, AcceptInv, Zenon
    <2>4. CASE \E t \in IoTag, c \in CancelTag \cup {None} : CancelByData(t, c)
      BY <2>4, CancelInv, Zenon
    <2>5. CASE \E f \in Fd : CloseFd(f)
      BY <2>5, CloseInv, Zenon
    <2> QED BY <1>1, <2>1, <2>2, <2>3, <2>4, <2>5, Zenon DEF Client
  <1>2. CASE WorkerStep
    BY <1>2, ReapInv, DetachInv, DrainCompletionsInv, RoundInv, WaitInv, Zenon DEF WorkerStep
  <1>3. CASE Wait \/ WaitTimesOut \/ UNCHANGED vars
    BY <1>3, WaitInv, Zenon
  <1>4. CASE Shutdown
    BY <1>4, ShutdownInv, Zenon
  <1>5. CASE KernelTakes
    BY <1>5, KernelTakesInv, Zenon
  <1>6. CASE \E r \in kernel : KernelFinishes(r) \/ KernelReports(r)
    BY <1>6, KernelFinishesInv, Zenon
  <1> QED BY <1>1, <1>2, <1>3, <1>4, <1>5, <1>6, Zenon DEF Next

(* The backend's invariant: the last completion of every owned tag is owed *)
(* exactly once, what waits for the kernel is current and in order, and    *)
(* mayCancel covers every cancel that waits.                               *)
THEOREM BackendIsInvariant == Spec => []BackendInv
  BY InitInv, NextInv, PTL DEF Spec

-----------------------------------------------------------------------------
(* The places of one queue of completions that hold tag t's last one.      *)
HoldersIn(H, s, t) ==
    \E name : /\ \A i \in Last(s, t) : <<name, i, s[i].n>> \in H
              /\ \A h \in H : \E i \in Last(s, t) : h = <<name, i, s[i].n>>

LEMMA LastHolders ==
    ASSUME NEW s, NEW l, EndsOK(s, l), NEW t \in Tag, NEW H, HoldersIn(H, s, t)
    PROVE  /\ H # {} <=> t \in Ends(s)
           /\ \A g, h \in H : g = h /\ h[3] = l[t]
  <1>1. \A i \in Last(s, t) : i \in 1..Len(s) /\ s[i].tag = t /\ ~s[i].more
    BY Zenon DEF Last
  <1>2. PICK name : /\ \A i \in Last(s, t) : <<name, i, s[i].n>> \in H
                    /\ \A h \in H : \E i \in Last(s, t) : h = <<name, i, s[i].n>>
    BY Zenon DEF HoldersIn
  <1>3. H # {} <=> Last(s, t) # {}
    BY <1>2, Zenon
  <1>4. Last(s, t) # {} <=> t \in Ends(s)
    BY Zenon DEF Last, Ends
  <1>5. ASSUME NEW g \in H, NEW h \in H PROVE g = h /\ h[3] = l[t]
    <2>1. PICK i \in Last(s, t) : g = <<name, i, s[i].n>>
      BY <1>2, Zenon
    <2>2. PICK j \in Last(s, t) : h = <<name, j, s[j].n>>
      BY <1>2, Zenon
    <2>3. i = j
      BY <1>1, Zenon DEF EndsOK, OnceEnded
    <2>4. s[j].n = l[t]
      BY <1>1, Zenon DEF EndsOK, KnownEnds
    <2>5. h[3] = s[j].n
      BY <2>2
    <2> QED BY <2>1, <2>2, <2>3, <2>4, <2>5, Zenon
  <1> QED BY <1>3, <1>4, <1>5, Zenon

LEMMA OneHolder == ASSUME BackendInv PROVE OneTerminalCompletion
  <1> SUFFICES ASSUME NEW t \in Tag
               PROVE  /\ Holders(t) # {} <=> live[t] # 0
                      /\ \A g, h \in Holders(t) : g = h /\ h[3] = live[t]
    BY Zenon DEF OneTerminalCompletion
  <1> DEFINE u == Unsubmitted
             P == {j \in 1..Len(u) : u[j].tag = t}
             Q == {q \in kernel : q.tag = t}
             A == {<<"unsubmitted", i, u[i].n>> : i \in P}
             B == {<<"kernel", 0, r.n>> : r \in Q}
             C == {<<"cq", i, cq[i].n>> : i \in Last(cq, t)}
             D == {<<"deferred", i, deferred[i].n>> : i \in Last(deferred, t)}
             E == {<<"detached", i, detached[i].n>> : i \in Last(detached, t)}
  <1>1. Holders(t) = A \cup B \cup C \cup D \cup E
    BY Zenon DEF Holders
  <1>2. /\ OnceIn(u) /\ KnownIn(u, live) /\ OnceInKernel(kernel) /\ KnownInKernel(kernel, live)
        /\ EndsOK(cq, live) /\ EndsOK(deferred, live) /\ EndsOK(detached, live)
    BY Zenon DEF BackendInv, QueueOK
  <1>3. /\ A # {} <=> t \in Tags(u)
        /\ \A g, h \in A : g = h /\ h[3] = live[t]
    <2>1. /\ \A i \in P : <<"unsubmitted", i, u[i].n>> \in A
          /\ \A h \in A : \E i \in P : h = <<"unsubmitted", i, u[i].n>>
          /\ \A i \in P : i \in 1..Len(u) /\ u[i].tag = t
      BY Zenon
    <2>2. P # {} <=> t \in Tags(u)
      BY Zenon DEF Tags
    <2> HIDE DEF A, P, u
    <2>3. A # {} <=> P # {}
      BY <2>1, Zenon
    <2>4. ASSUME NEW g \in A, NEW h \in A PROVE g = h /\ h[3] = live[t]
      <3>1. PICK i \in P : g = <<"unsubmitted", i, u[i].n>>
        BY <2>1, Zenon
      <3>2. PICK j \in P : h = <<"unsubmitted", j, u[j].n>>
        BY <2>1, Zenon
      <3>3. i = j /\ u[j].n = live[t]
        BY <1>2, <2>1, Zenon DEF OnceIn, KnownIn
      <3>4. h[3] = u[j].n
        BY <3>2
      <3> QED BY <3>1, <3>2, <3>3, <3>4, Zenon
    <2> QED BY <2>2, <2>3, <2>4, Zenon
  <1>4. /\ B # {} <=> t \in InKernelTags(kernel)
        /\ \A g, h \in B : g = h /\ h[3] = live[t]
    <2>1. /\ \A r \in Q : <<"kernel", 0, r.n>> \in B
          /\ \A h \in B : \E r \in Q : h = <<"kernel", 0, r.n>>
          /\ \A r \in Q : r \in kernel /\ r.tag = t
      BY Zenon
    <2>2. Q # {} <=> t \in InKernelTags(kernel)
      BY Zenon DEF InKernelTags
    <2> HIDE DEF B, Q
    <2>3. B # {} <=> Q # {}
      BY <2>1, Zenon
    <2>4. ASSUME NEW g \in B, NEW h \in B PROVE g = h /\ h[3] = live[t]
      <3>1. PICK r \in Q : g = <<"kernel", 0, r.n>>
        BY <2>1, Zenon
      <3>2. PICK q \in Q : h = <<"kernel", 0, q.n>>
        BY <2>1, Zenon
      <3>3. r = q /\ q.n = live[t]
        BY <1>2, <2>1, Zenon DEF OnceInKernel, KnownInKernel
      <3>4. h[3] = q.n
        BY SMTT(30), <3>2
      <3> QED BY <3>1, <3>2, <3>3, <3>4, Zenon
    <2> QED BY <2>2, <2>3, <2>4, Zenon
  <1>5. /\ C # {} <=> t \in Ends(cq)
        /\ \A g, h \in C : g = h /\ h[3] = live[t]
    <2>1. HoldersIn(C, cq, t)
      BY Zenon DEF HoldersIn
    <2> HIDE DEF C
    <2>2. EndsOK(cq, live)
      BY SMTT(30), <1>2
    <2> QED BY ONLY t \in Tag, <2>1, <2>2, LastHolders
  <1>6. /\ D # {} <=> t \in Ends(deferred)
        /\ \A g, h \in D : g = h /\ h[3] = live[t]
    <2>1. HoldersIn(D, deferred, t)
      BY Zenon DEF HoldersIn
    <2> HIDE DEF D
    <2>2. EndsOK(deferred, live)
      BY SMTT(30), <1>2
    <2> QED BY ONLY t \in Tag, <2>1, <2>2, LastHolders
  <1>7. /\ E # {} <=> t \in Ends(detached)
        /\ \A g, h \in E : g = h /\ h[3] = live[t]
    <2>1. HoldersIn(E, detached, t)
      BY Zenon DEF HoldersIn
    <2> HIDE DEF E
    <2>2. EndsOK(detached, live)
      BY <1>2
    <2> QED BY ONLY t \in Tag, <2>1, <2>2, LastHolders
  <1> DEFINE H == A \cup B \cup C \cup D \cup E
             U == Tags(u)
             K == InKernelTags(kernel)
             cC == Ends(cq)
             cD == Ends(deferred)
             cE == Ends(detached)
  <1>8. /\ Apart(U, K, cC, cD, cE) /\ Owned(live) = U \cup K \cup cC \cup cD \cup cE
    BY TagsOwed, Zenon
  <1>9. t \in Owned(live) <=> live[t] # 0
    BY Zenon DEF Owned
  <1>10. /\ A # {} <=> t \in U
         /\ B # {} <=> t \in K
         /\ C # {} <=> t \in cC
         /\ D # {} <=> t \in cD
         /\ E # {} <=> t \in cE
    BY <1>3, <1>4, <1>5, <1>6, <1>7, ZenonT(40)
  <1> HIDE DEF A, B, C, D, E, U, K, cC, cD, cE, u
  <1>11. A \cup B \cup C \cup D \cup E # {} <=> live[t] # 0
    BY SMTT(30), <1>8, <1>9, <1>10
  <1>12. H = A \/ H = B \/ H = C \/ H = D \/ H = E
    <2>1. \/ A = {} /\ B = {} /\ C = {} /\ D = {}
          \/ A = {} /\ B = {} /\ C = {} /\ E = {}
          \/ A = {} /\ B = {} /\ D = {} /\ E = {}
          \/ A = {} /\ C = {} /\ D = {} /\ E = {}
          \/ B = {} /\ C = {} /\ D = {} /\ E = {}
      BY <1>8, <1>10 DEF Apart
    <2> QED BY SMTT(30), <2>1
  <1>13. \A g, h \in H : g = h /\ h[3] = live[t]
    <2> HIDE DEF H
    <2> QED BY <1>3, <1>4, <1>5, <1>6, <1>7, <1>12, Zenon
  <1> QED BY <1>1, <1>11, <1>13, Zenon

(* Every operation the backend accepted has exactly one terminal completion*)
(* to come, from the kernel or deferred; a tag nobody owns has none.       *)
THEOREM OneCompletionEach == Spec => []OneTerminalCompletion
  BY BackendIsInvariant, OneHolder, PTL

(* A cancel that the kernel may still take is aimed at the operation that  *)
(* has its target's address now, whatever completed and was accepted since.*)
THEOREM CancelsHitTheirTargets == Spec => []CancelHitsItsTarget
  <1>1. BackendInv => CancelHitsItsTarget
    BY Zenon DEF BackendInv, QueueOK, EntryOK, CancelHitsItsTarget
  <1> QED BY <1>1, BackendIsInvariant, PTL

(* What the kernel may still take names no descriptor that was closed      *)
(* since, and is in the order SubmitOrQueue accepted it.                   *)
THEOREM QueueStaysTrue == Spec => []QueueIsTrue
  <1>1. BackendInv => NoStaleDescriptor
    BY Zenon DEF BackendInv, QueueOK, EntryOK, NoStaleDescriptor
  <1>2. BackendInv => AcceptedOrder
    BY Zenon DEF BackendInv, QueueOK, Ordered, AcceptedOrder
  <1>3. BackendInv => QueueIsTrue
    BY <1>1, <1>2, Zenon DEF QueueIsTrue
  <1> QED BY <1>3, BackendIsInvariant, PTL
=============================================================================
