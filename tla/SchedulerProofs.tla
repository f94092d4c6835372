-------------------------- MODULE SchedulerProofs ---------------------------
(***************************************************************************)
(* A worker sleeps only without work, coroutines and remote work give way, *)
(* and the registries know every frame, for any number of frames and calls *)
(* and all budgets.                                                        *)
(***************************************************************************)
EXTENDS Scheduler, TLAPS

Place_ == {"none", "queued", "running", "awaits", "done", "net", "storage", "peer"}

TypeOK ==
    /\ use \in [Frame -> {"free", "root", "child"}] /\ class \in [Frame -> Class]
    /\ child \in [Frame -> Frame \cup {None}] /\ at \in [Frame -> Place_]
    /\ ready \in [Class -> Seq(Frame)] /\ next \in [Class -> Seq(Frame)]
    /\ remote \in [Class -> Seq(Call)] /\ turn \in [Class -> BOOLEAN]
    /\ cycles \in [Class -> Nat]
    /\ tasks \subseteq Frame /\ detached \in Seq(Frame) /\ index \in [Frame -> Nat]
    /\ pc \in Slices \cup {"top", "poll", "pre", "storage", "should", "end", "busy",
                           "endbusy", "idle", "naps", "sleeps"}
    /\ did \in BOOLEAN
    /\ slice \in [spent : Nat, running : Frame \cup Call \cup {None}]
    /\ fresh \subseteq Frame
    /\ passed \in [Class -> [kind : {"none", "remote", "ready"}, n : Nat]]

(* Something runs only in a slice, and has cost something.                 *)
SliceOK ==
    /\ pc \notin Slices => slice = NoSlice
    /\ slice.running # None => slice.spent > 0

(* Where a coroutine is, and its child.                                    *)
FrameOK(f) ==
    /\ use[f] = "free" <=> at[f] = "none"
    /\ at[f] = "running" <=> slice.running = f
    /\ at[f] = "running" => class[f] = SliceClass
    /\ at[f] = "awaits" <=> child[f] # None
    /\ at[f] = "done" => use[f] = "root"

ChildOK(f) ==
    /\ child[f] # None => use[child[f]] = "child" /\ class[child[f]] = class[f]
    /\ use[f] = "child" => \E p \in Frame : child[p] = f
    /\ \A p \in Frame : child[p] = child[f] /\ child[f] # None => p = f

(* A queue holds a coroutine once, of its class.                           *)
QueueOK(c) ==
    /\ IsInjective(ready[c]) /\ IsInjective(next[c])
    /\ Range(ready[c]) \cap Range(next[c]) = {}
    /\ \A f \in Range(ready[c]) : at[f] \in {"queued", "done"} /\ class[f] = c
    /\ \A f \in Range(next[c]) : at[f] = "queued" /\ class[f] = c

TasksOK == tasks = {f \in Frame : use[f] # "free" /\ class[f] = "bg"}

DetachedOK ==
    /\ Range(detached) = {f \in Frame : use[f] = "root"}
    /\ \A i \in 1..Len(detached) : index[detached[i]] = i
    /\ \A f \in Frame : use[f] # "root" => index[f] = 0

(* Who yielded since the last poll is still deferred.                      *)
FreshOK ==
    /\ \A f \in fresh : \E c \in Class : f \in Range(next[c])
    /\ pc = "pre" => fresh = {}
    /\ pc = "prepoll" => NeedsPolling
    /\ pc = "storage" => fresh = {} \/ NeedsPolling

(* The turn tells who was preferred last.                                  *)
TurnOK(c) ==
    /\ passed[c].n <= 1
    /\ passed[c].n = 1 => passed[c].kind = (IF turn[c] THEN "ready" ELSE "remote")

(* A round that has found no work has none.                                *)
Quiet == /\ pc \in {"poll", "pre", "storage", "fg", "should", "bg", "end"}
         /\ ~did /\ slice.spent = 0

IdleOK ==
    /\ pc = "prepoll" => did
    /\ Quiet \/ pc \in {"busy", "idle", "sleeps"} => ~HasWork

FramesInv ==
    /\ \A f \in Frame : FrameOK(f) /\ ChildOK(f)
    /\ TasksOK /\ DetachedOK /\ \A c \in Class : QueueOK(c)

SchedulerInv ==
    /\ TypeOK /\ SliceOK /\ FramesInv /\ FreshOK /\ IdleOK
    /\ \A c \in Class : TurnOK(c)

-----------------------------------------------------------------------------
(* What Append, \o and Tail do to the elements of a queue.                 *)

LEMMA EmptyQueue == Range(<<>>) = {} /\ IsInjective(<<>>)
  BY DEF Range, IsInjective

LEMMA ElementsInSet ==
    ASSUME NEW S, NEW s \in Seq(S)
    PROVE  Range(s) \subseteq S
  BY DEF Range

LEMMA Appended ==
    ASSUME NEW S, NEW s \in Seq(S), NEW x \in S
    PROVE  /\ Append(s, x) \in Seq(S)
           /\ Range(Append(s, x)) = Range(s) \cup {x}
           /\ IsInjective(s) /\ x \notin Range(s) => IsInjective(Append(s, x))
<1> DEFINE n == Len(s)
           t == Append(s, x)
<1>1. /\ n \in Nat /\ DOMAIN s = 1..n /\ DOMAIN t = 1..(n + 1) /\ t[n + 1] = x
      /\ \A i \in 1..n : t[i] = s[i] /\ i # n + 1
      /\ \A i \in 1..(n + 1) : i \in 1..n \/ i = n + 1
      /\ n + 1 \in 1..(n + 1) /\ \A i \in 1..n : i \in 1..(n + 1)
  OBVIOUS
<1>2. t \in Seq(S)
  OBVIOUS
<1> HIDE DEF n, t
<1>3. Range(t) = Range(s) \cup {x}
  BY Zenon, <1>1 DEF Range
<1>4. IsInjective(s) /\ x \notin Range(s) => IsInjective(t)
  BY Zenon, <1>1 DEF IsInjective, Range
<1> QED BY Zenon, <1>2, <1>3, <1>4 DEF t

LEMMA Concatenated ==
    ASSUME NEW S, NEW s \in Seq(S), NEW u \in Seq(S)
    PROVE  /\ s \o u \in Seq(S)
           /\ Range(s \o u) = Range(s) \cup Range(u)
           /\ s \o u = <<>> <=> s = <<>> /\ u = <<>>
           /\ IsInjective(s) /\ IsInjective(u) /\ Range(s) \cap Range(u) = {} =>
                 IsInjective(s \o u)
<1> DEFINE m == Len(s)
           n == Len(u)
           t == s \o u
<1>1. /\ m \in Nat /\ n \in Nat /\ DOMAIN s = 1..m /\ DOMAIN u = 1..n
      /\ DOMAIN t = 1..(m + n) /\ Len(t) = m + n
      /\ \A i \in 1..m : t[i] = s[i] /\ i \in 1..(m + n)
      /\ \A i \in 1..n : t[m + i] = u[i] /\ m + i \in 1..(m + n)
      /\ \A i \in 1..(m + n) : i \in 1..m \/ (i - m \in 1..n /\ m + (i - m) = i)
      /\ \A i, j \in 1..(m + n) : i - m = j - m => i = j
  OBVIOUS
<1>2. t \in Seq(S) /\ (t = <<>> <=> s = <<>> /\ u = <<>>)
  OBVIOUS
<1>3. \A i \in 1..(m + n) : (i \in 1..m /\ t[i] = s[i]) \/ (i - m \in 1..n /\ t[i] = u[i - m])
  BY <1>1
<1> HIDE DEF n, m, t
<1>4. Range(t) = Range(s) \cup Range(u)
  <2>1. Range(t) \subseteq Range(s) \cup Range(u)
    BY <1>1, <1>3 DEF Range
  <2>2. Range(s) \cup Range(u) \subseteq Range(t)
    <3>1. \A i \in 1..m : s[i] \in Range(t)
      BY Zenon, <1>1 DEF Range
    <3>2. \A i \in 1..n : u[i] \in Range(t)
      BY ZenonT(40), <1>1 DEF Range
    <3> QED BY <1>1, <3>1, <3>2 DEF Range
  <2> QED BY Zenon, <2>1, <2>2
<1>5. ASSUME IsInjective(s), IsInjective(u), Range(s) \cap Range(u) = {},
             NEW i \in 1..(m + n), NEW j \in 1..(m + n), t[i] = t[j]
      PROVE  i = j
  <2>1. \A k \in 1..m, l \in 1..n : s[k] # u[l]
    <3>1. (\A k \in 1..m : s[k] \in Range(s)) /\ \A l \in 1..n : u[l] \in Range(u)
      BY Zenon, <1>1 DEF Range
    <3> QED BY Zenon, <1>5, <3>1
  <2>2. CASE i \in 1..m /\ t[i] = s[i] /\ j \in 1..m /\ t[j] = s[j]
    BY Zenon, <1>1, <1>5, <2>2 DEF IsInjective
  <2>3. CASE /\ i - m \in 1..n /\ t[i] = u[i - m]
             /\ j - m \in 1..n /\ t[j] = u[j - m]
    BY ZenonT(40), <1>1, <1>5, <2>3 DEF IsInjective
  <2> QED BY Zenon, <1>3, <1>5, <2>1, <2>2, <2>3
<1>6. IsInjective(s) /\ IsInjective(u) /\ Range(s) \cap Range(u) = {} => IsInjective(t)
  BY Zenon, <1>1, <1>5 DEF IsInjective
<1> QED BY Zenon, <1>2, <1>4, <1>6 DEF t

LEMMA FirstTaken ==
    ASSUME NEW S, NEW s \in Seq(S), s # <<>>
    PROVE  /\ Head(s) \in S /\ Tail(s) \in Seq(S)
           /\ Range(s) = Range(Tail(s)) \cup {Head(s)}
           /\ IsInjective(s) => IsInjective(Tail(s)) /\ Head(s) \notin Range(Tail(s))
<1> DEFINE n == Len(s)
           t == Tail(s)
<1>1. /\ n \in Nat /\ DOMAIN s = 1..n /\ DOMAIN t = 1..(n - 1)
      /\ Head(s) = s[1] /\ 1 \in 1..n
      /\ \A i \in 1..(n - 1) : t[i] = s[i + 1] /\ i + 1 \in 1..n /\ i + 1 # 1
      /\ \A i, j \in 1..(n - 1) : i + 1 = j + 1 => i = j
      /\ \A i \in 1..n : i = 1 \/ (i - 1 \in 1..(n - 1) /\ (i - 1) + 1 = i)
  OBVIOUS
<1>2. Head(s) \in S /\ t \in Seq(S)
  OBVIOUS
<1>3. \A i \in 1..n : s[i] = Head(s) \/ (i - 1 \in 1..(n - 1) /\ s[i] = t[i - 1])
  BY <1>1
<1> HIDE DEF n, t
<1>4. Range(s) = Range(t) \cup {Head(s)}
  <2>1. Range(s) \subseteq Range(t) \cup {Head(s)}
    BY <1>1, <1>3 DEF Range
  <2>2. Range(t) \cup {Head(s)} \subseteq Range(s)
    BY <1>1 DEF Range
  <2> QED BY Zenon, <2>1, <2>2
<1>5. IsInjective(s) => IsInjective(t)
  <2>1. ASSUME IsInjective(s), NEW i \in 1..(n - 1), NEW j \in 1..(n - 1), t[i] = t[j]
        PROVE  i = j
    <3>1. s[i + 1] = s[j + 1] /\ i + 1 \in 1..n /\ j + 1 \in 1..n
      BY Zenon, <1>1, <2>1
    <3>2. i + 1 = j + 1
      BY Zenon, <1>1, <2>1, <3>1 DEF IsInjective
    <3> QED BY Zenon, <1>1, <3>2
  <2> QED BY Zenon, <1>1, <2>1 DEF IsInjective
<1>6. IsInjective(s) => Head(s) \notin Range(t)
  BY <1>1 DEF IsInjective, Range
<1> QED BY Zenon, <1>2, <1>4, <1>5, <1>6 DEF t

LEMMA SomeOf ==
    ASSUME NEW S, NEW s \in Some(S)
    PROVE  s \in Seq(S) /\ IsInjective(s)
<1>1. IsInjective(s) /\ \E n \in Lengths : s \in [1..n -> S]
  BY Zenon DEF Some
<1>2. PICK n \in Lengths : s \in [1..n -> S]
  BY Zenon, <1>1
<1>3. n \in Nat
  BY FiniteAssumption DEF Lengths
<1>4. s \in Seq(S)
  BY <1>2, <1>3
<1> QED BY Zenon, <1>1, <1>4

-----------------------------------------------------------------------------
(* Coroutines of S that become ready, each in its class.                   *)
Group(b, S) ==
    /\ b \in [Class -> Seq(Frame)]
    /\ \A c \in Class :
          /\ IsInjective(b[c])
          /\ \A f \in Range(b[c]) : f \in S /\ ClassIn(tasks, f) = c

LEMMA Batched ==
    ASSUME NEW S, NEW b \in Batch(S)
    PROVE  b \in [Class -> Seq(S)] /\ \A c \in Class : IsInjective(b[c])
<1>1. b \in [Class -> Some(S)]
  BY Zenon DEF Batch
<1>2. \A c \in Class : b[c] \in Seq(S) /\ IsInjective(b[c])
  BY Zenon, <1>1, SomeOf
<1> QED BY Zenon, <1>1, <1>2

LEMMA WokenGroup ==
    ASSUME NEW S \in SUBSET Frame, NEW b \in Woken(S)
    PROVE  Group(b, S)
<1>1. b \in [Class -> Seq(S)] /\ \A c \in Class : IsInjective(b[c])
  BY Zenon, Batched DEF Woken
<1>2. \A c \in Class : b[c] \in Seq(Frame) /\ Range(b[c]) \subseteq S
  <2> TAKE c \in Class
  <2>1. b[c] \in Seq(S)
    BY Zenon, <1>1
  <2> QED BY <2>1, ElementsInSet
<1>3. b \in [Class -> Seq(Frame)]
  BY Zenon, <1>1, <1>2
<1> QED BY Zenon, <1>1, <1>2, <1>3 DEF Group, Woken

LEMMA NothingGroup == Group(Nothing, {})
<1>1. <<>> \in Seq(Frame)
  OBVIOUS
<1> QED BY Zenon, <1>1, EmptyQueue DEF Group, Nothing

LEMMA JoinedGroup ==
    ASSUME NEW S, NEW T, S \cap T = {}, NEW a, NEW b, Group(a, S), Group(b, T)
    PROVE  Group(Joined(a, b), S \cup T)
<1>1. ASSUME NEW c \in Class
      PROVE  /\ a[c] \o b[c] \in Seq(Frame) /\ IsInjective(a[c] \o b[c])
             /\ Range(a[c] \o b[c]) = Range(a[c]) \cup Range(b[c])
  <2>1. /\ a[c] \in Seq(Frame) /\ b[c] \in Seq(Frame) /\ Range(a[c]) \cap Range(b[c]) = {}
        /\ IsInjective(a[c]) /\ IsInjective(b[c])
    BY Zenon DEF Group
  <2> HIDE DEF Group
  <2> QED BY <2>1, Concatenated
<1>2. \A c \in Class : Joined(a, b)[c] = a[c] \o b[c]
  BY Zenon DEF Joined
<1>3. Joined(a, b) \in [Class -> Seq(Frame)]
  BY Zenon, <1>1 DEF Joined
<1>4. ASSUME NEW c \in Class, NEW f \in Range(a[c] \o b[c])
      PROVE  f \in S \cup T /\ ClassIn(tasks, f) = c
  <2>1. f \in Range(a[c]) \/ f \in Range(b[c])
    BY Zenon, <1>1
  <2> QED BY Zenon, <2>1 DEF Group
<1> DEFINE j == Joined(a, b)
<1>5. \A c \in Class :
         IsInjective(j[c]) /\ \A f \in Range(j[c]) : f \in S \cup T /\ ClassIn(tasks, f) = c
  <2> TAKE c \in Class
  <2>1. j[c] = a[c] \o b[c] /\ IsInjective(a[c] \o b[c])
    BY Zenon, <1>1, <1>2
  <2>2. \A f \in Range(a[c] \o b[c]) : f \in S \cup T /\ ClassIn(tasks, f) = c
    BY Zenon, <1>4
  <2> HIDE DEF j
  <2> QED BY <2>1, <2>2
<1>6. j \in [Class -> Seq(Frame)]
  BY Zenon, <1>3
<1> HIDE DEF j
<1>7. Group(j, S \cup T)
  BY Zenon, <1>5, <1>6 DEF Group
<1> QED BY Zenon, <1>7 DEF j

(* What a group of coroutines and the deferred ones do to the queues.      *)
Members(c) == Range(ready[c]) \cup Range(next[c])

LEMMA Registered ==
    ASSUME TypeOK, TasksOK, NEW f \in Frame, use[f] # "free"
    PROVE  ClassIn(tasks, f) = class[f]
  BY Zenon DEF TasksOK, ClassIn, TypeOK, Class

LEMMA QueuesJoined ==
    ASSUME TypeOK, FramesInv, NEW S \in SUBSET Frame, \A f \in S : at[f] \in Where,
           NEW b, Group(b, S), NEW c \in Class
    PROVE  /\ ready[c] \o b[c] \in Seq(Frame) /\ IsInjective(ready[c] \o b[c])
           /\ Range(ready[c] \o b[c]) = Range(ready[c]) \cup Range(b[c])
           /\ Range(ready[c] \o b[c]) \cap Range(next[c]) = {}
           /\ (ready[c] \o b[c]) \o next[c] \in Seq(Frame)
           /\ IsInjective((ready[c] \o b[c]) \o next[c])
           /\ Range((ready[c] \o b[c]) \o next[c]) = Members(c) \cup Range(b[c])
<1>1. ready[c] \in Seq(Frame) /\ next[c] \in Seq(Frame) /\ b[c] \in Seq(Frame)
  BY Zenon DEF TypeOK, Group
<1>2. /\ IsInjective(ready[c]) /\ IsInjective(next[c]) /\ IsInjective(b[c])
      /\ Range(ready[c]) \cap Range(next[c]) = {}
  BY Zenon DEF FramesInv, QueueOK, Group
<1>3. \A f \in Members(c) : f \notin Range(b[c])
  <2> SUFFICES ASSUME NEW f \in Members(c), f \in Range(b[c])
               PROVE  FALSE
    BY Zenon
  <2>1. at[f] \in {"queued", "done"}
    BY Zenon DEF Members, FramesInv, QueueOK
  <2>2. at[f] \in Where
    BY Zenon DEF Group
  <2> QED BY <2>1, <2>2 DEF Where
<1>4. Range(ready[c]) \cap Range(b[c]) = {} /\ Range(next[c]) \cap Range(b[c]) = {}
  BY Zenon, <1>3 DEF Members
<1>5. /\ ready[c] \o b[c] \in Seq(Frame) /\ IsInjective(ready[c] \o b[c])
      /\ Range(ready[c] \o b[c]) = Range(ready[c]) \cup Range(b[c])
  BY <1>1, <1>2, <1>4, Concatenated
<1>6. Range(ready[c] \o b[c]) \cap Range(next[c]) = {}
  BY Zenon, <1>2, <1>4, <1>5
<1> DEFINE r == ready[c] \o b[c]
<1>7. r \in Seq(Frame) /\ IsInjective(r) /\ Range(r) \cap Range(next[c]) = {}
  BY Zenon, <1>5, <1>6
<1> HIDE DEF r
<1>8. /\ r \o next[c] \in Seq(Frame) /\ IsInjective(r \o next[c])
      /\ Range(r \o next[c]) = Range(r) \cup Range(next[c])
  BY <1>1, <1>2, <1>7, Concatenated
<1>9. Range(r \o next[c]) = Members(c) \cup Range(b[c])
  BY Zenon, <1>5, <1>8 DEF Members, r
<1> QED BY Zenon, <1>5, <1>6, <1>8, <1>9 DEF r

(* The part of TypeOK that is about frames.                                *)
FrameTypes ==
    /\ use \in [Frame -> {"free", "root", "child"}] /\ class \in [Frame -> Class]
    /\ child \in [Frame -> Frame \cup {None}] /\ at \in [Frame -> Place_]
    /\ ready \in [Class -> Seq(Frame)] /\ next \in [Class -> Seq(Frame)]
    /\ tasks \subseteq Frame /\ detached \in Seq(Frame) /\ index \in [Frame -> Nat]

LEMMA TypesOfFrames == TypeOK => FrameTypes
  BY Zenon DEF TypeOK, FrameTypes

(* RunOnce between two slices: coroutines that wait become ready, those    *)
(* that yielded may be merged.                                             *)
LEMMA LoopFrames ==
    ASSUME TypeOK, FramesInv, slice.running = None, slice'.running = None,
           NEW S \in SUBSET Frame, \A f \in S : at[f] \in Where,
           NEW b, Group(b, S), Place(b),
           UNCHANGED <<use, class, child, registryVars>>,
           \/ ready' = Joined(ready, b) /\ next' = next
           \/ ready' = Joined(Joined(ready, b), next) /\ next' = Nothing
    PROVE  FramesInv' /\ FrameTypes'
<1>1. \A f \in Frame : \/ f \in S /\ at[f] \in Where /\ at'[f] = "queued"
                       \/ at'[f] = at[f] /\ \A c \in Class : f \notin Range(b[c])
  BY Zenon DEF Place, Group
<1>2. at' \in [Frame -> Place_]
  <2>1. \A f \in Frame : at'[f] \in Place_
    BY Zenon, <1>1 DEF TypeOK, Place_
  <2> QED BY Zenon, <2>1 DEF Place
<1>3. ASSUME NEW f \in Frame PROVE FrameOK(f)'
  <2>1. FrameOK(f) /\ f # None
    BY Zenon, NamesAssumption DEF FramesInv
  <2>2. at[f] # "running" /\ at'[f] # "running"
    BY Zenon, <1>1, <2>1 DEF FrameOK
  <2> QED BY <1>1, <2>1, <2>2 DEF FrameOK, Where
<1>4. ASSUME NEW f \in Frame PROVE ChildOK(f)'
  BY Zenon DEF FramesInv, ChildOK
<1>5. TasksOK' /\ DetachedOK'
  BY Zenon DEF FramesInv, TasksOK, DetachedOK, registryVars
<1>6. ASSUME NEW c \in Class
      PROVE  /\ ready'[c] \in Seq(Frame) /\ next'[c] \in Seq(Frame)
             /\ IsInjective(ready'[c]) /\ IsInjective(next'[c])
             /\ Range(ready'[c]) \cap Range(next'[c]) = {}
             /\ Range(ready'[c]) \subseteq Members(c) \cup Range(b[c])
             /\ Range(next'[c]) \subseteq Range(next[c])
  <2> DEFINE r == ready[c] \o b[c]
             all == (ready[c] \o b[c]) \o next[c]
  <2>3. /\ r \in Seq(Frame) /\ IsInjective(r)
        /\ Range(r) = Range(ready[c]) \cup Range(b[c])
        /\ Range(r) \cap Range(next[c]) = {}
        /\ all \in Seq(Frame) /\ IsInjective(all)
        /\ Range(all) = Members(c) \cup Range(b[c])
    BY Zenon, QueuesJoined
  <2>1. CASE ready' = Joined(ready, b) /\ next' = next
    <3>1. ready'[c] = r /\ next'[c] = next[c]
      BY Zenon, <2>1 DEF Joined
    <3>2. next[c] \in Seq(Frame) /\ IsInjective(next[c])
      BY Zenon DEF TypeOK, FramesInv, QueueOK
    <3> HIDE DEF r, all
    <3> QED BY <2>3, <3>1, <3>2 DEF Members
  <2>2. CASE ready' = Joined(Joined(ready, b), next) /\ next' = Nothing
    <3>1. ready'[c] = all /\ next'[c] = <<>>
      BY Zenon, <2>2 DEF Joined, Nothing
    <3>2. <<>> \in Seq(Frame)
      OBVIOUS
    <3> HIDE DEF r, all
    <3> QED BY <2>3, <3>1, <3>2, EmptyQueue
  <2> QED BY Zenon, <2>1, <2>2
<1>7. ASSUME NEW c \in Class PROVE QueueOK(c)'
  <2>1. ASSUME NEW f \in Range(next[c]) PROVE f \in Frame /\ at'[f] = "queued" /\ class[f] = c
    <3>1. f \in Frame /\ at[f] = "queued" /\ class[f] = c
      BY Zenon, ElementsInSet DEF TypeOK, FramesInv, QueueOK
    <3> QED BY Zenon, <1>1, <3>1
  <2>2. ASSUME NEW f \in Members(c) \cup Range(b[c])
        PROVE  at'[f] \in {"queued", "done"} /\ class[f] = c
    <3>1. CASE f \in Members(c)
      <4>1. f \in Frame
        BY Zenon, <3>1, ElementsInSet DEF Members, TypeOK
      <4>2. at[f] \in {"queued", "done"} /\ class[f] = c
        BY Zenon, <3>1 DEF Members, FramesInv, QueueOK
      <4> QED BY <1>1, <4>1, <4>2 DEF Where
    <3>2. CASE f \in Range(b[c])
      <4>1. f \in S /\ ClassIn(tasks, f) = c
        BY Zenon, <3>2 DEF Group
      <4>2. at'[f] = "queued" /\ at[f] \in Where
        BY Zenon, <1>1, <3>2, <4>1
      <4>3. use[f] # "free"
        BY <4>1, <4>2 DEF FramesInv, FrameOK, Where
      <4>4. class[f] = c
        BY Zenon, <4>1, <4>3, Registered DEF FramesInv
      <4> QED BY Zenon, <4>2, <4>4
    <3> QED BY Zenon, <3>1, <3>2
  <2> QED BY Zenon, <1>6, <2>1, <2>2 DEF QueueOK
<1>8. ready' \in [Class -> Seq(Frame)] /\ next' \in [Class -> Seq(Frame)]
  <2>1. ready' = [c \in Class |-> ready'[c]] /\ next' = [c \in Class |-> next'[c]]
    BY Zenon DEF TypeOK, Joined, Nothing
  <2> QED BY Zenon, <1>6, <2>1
<1>9. FrameTypes'
  BY Zenon, <1>2, <1>8, TypesOfFrames DEF FrameTypes, registryVars
<1> QED BY Zenon, <1>3, <1>4, <1>5, <1>7, <1>9 DEF FramesInv

(* RunOnce where no coroutine moves.                                       *)
LEMMA StillFrames ==
    ASSUME TypeOK, FramesInv, slice.running \notin Frame, slice'.running \notin Frame,
           UNCHANGED <<frameVars, ready, next, registryVars>>
    PROVE  FramesInv' /\ FrameTypes'
<1>1. ASSUME NEW f \in Frame PROVE FrameOK(f)'
  <2>1. FrameOK(f) /\ slice.running # f /\ slice'.running # f
    BY Zenon DEF FramesInv
  <2> QED BY Zenon, <2>1 DEF FrameOK, frameVars
<1>2. ASSUME NEW f \in Frame PROVE ChildOK(f)'
  BY Zenon DEF FramesInv, ChildOK, frameVars
<1>3. TasksOK' /\ DetachedOK'
  BY Zenon DEF FramesInv, TasksOK, DetachedOK, frameVars, registryVars
<1>4. ASSUME NEW c \in Class PROVE QueueOK(c)'
  BY Zenon DEF FramesInv, QueueOK, frameVars
<1>5. FrameTypes'
  BY Zenon, TypesOfFrames DEF FrameTypes, frameVars, registryVars
<1> QED BY Zenon, <1>1, <1>2, <1>3, <1>4, <1>5 DEF FramesInv

-----------------------------------------------------------------------------
(* What Enqueue does.                                                      *)
LEMMA Enqueued ==
    ASSUME NEW q \in [Class -> Seq(Frame)], NEW t, NEW f \in Frame
    PROVE  /\ Enqueue(q, t, f) \in [Class -> Seq(Frame)]
           /\ \A c \in Class :
                 /\ Range(Enqueue(q, t, f)[c]) =
                       IF c = ClassIn(t, f) THEN Range(q[c]) \cup {f} ELSE Range(q[c])
                 /\ IsInjective(q[c]) /\ f \notin Range(q[c]) =>
                       IsInjective(Enqueue(q, t, f)[c])
<1> DEFINE d == ClassIn(t, f)
           e == Enqueue(q, t, f)
<1>1. d \in Class
  BY Zenon DEF ClassIn, Class
<1>2. \A c \in Class : e[c] = IF c = d THEN Append(q[c], f) ELSE q[c]
  BY Zenon DEF Enqueue
<1>3. e = [c \in Class |-> e[c]]
  BY Zenon DEF Enqueue
<1> HIDE DEF e, d
<1>4. ASSUME NEW c \in Class
      PROVE  /\ e[c] \in Seq(Frame)
             /\ Range(e[c]) = IF c = d THEN Range(q[c]) \cup {f} ELSE Range(q[c])
             /\ IsInjective(q[c]) /\ f \notin Range(q[c]) => IsInjective(e[c])
  <2>1. q[c] \in Seq(Frame)
    BY Zenon
  <2>2. CASE c = d
    <3>1. e[c] = Append(q[c], f)
      BY Zenon, <1>2, <2>2
    <3>2. /\ Append(q[c], f) \in Seq(Frame)
          /\ Range(Append(q[c], f)) = Range(q[c]) \cup {f}
          /\ IsInjective(q[c]) /\ f \notin Range(q[c]) => IsInjective(Append(q[c], f))
      BY <2>1, Appended
    <3> QED BY Zenon, <2>2, <3>1, <3>2
  <2>3. CASE c # d
    <3>1. e[c] = q[c]
      BY Zenon, <1>2, <2>3
    <3> QED BY Zenon, <2>1, <2>3, <3>1
  <2> QED BY Zenon, <2>2, <2>3
<1>5. e \in [Class -> Seq(Frame)]
  BY Zenon, <1>3, <1>4
<1> QED BY Zenon, <1>4, <1>5 DEF e, d

LEMMA InClass ==
    ASSUME TypeOK, FramesInv, NEW c \in Class, NEW f \in Members(c)
    PROVE  f \in Frame /\ at[f] \in {"queued", "done"} /\ class[f] = c
<1>1. f \in Frame
  BY Zenon, ElementsInSet DEF Members, TypeOK
<1>2. at[f] \in {"queued", "done"} /\ class[f] = c
  BY Zenon DEF Members, FramesInv, QueueOK
<1> QED BY Zenon, <1>1, <1>2

(* Coroutines that are in no queue move, and one of them may enter one.    *)
LEMMA MovedQueues ==
    ASSUME TypeOK, FramesInv,
           \A g \in Frame : at[g] \in {"queued", "done"} =>
                               at'[g] = at[g] /\ class'[g] = class[g],
           NEW f \in Frame, at[f] \notin {"queued", "done"},
           NEW t, class'[f] = ClassIn(t, f),
           \/ ready' = ready /\ next' = next
           \/ /\ ready' = Enqueue(ready, t, f) /\ next' = next
              /\ at'[f] \in {"queued", "done"}
           \/ /\ ready' = ready /\ next' = Enqueue(next, t, f)
              /\ at'[f] = "queued"
    PROVE  /\ \A c \in Class : QueueOK(c)'
           /\ ready' \in [Class -> Seq(Frame)] /\ next' \in [Class -> Seq(Frame)]
<1>1. ready \in [Class -> Seq(Frame)] /\ next \in [Class -> Seq(Frame)]
  BY Zenon DEF TypeOK
<1>2. ready' \in [Class -> Seq(Frame)] /\ next' \in [Class -> Seq(Frame)]
  <2>1. /\ Enqueue(ready, t, f) \in [Class -> Seq(Frame)]
        /\ Enqueue(next, t, f) \in [Class -> Seq(Frame)]
    BY <1>1, Enqueued
  <2> QED BY Zenon, <1>1, <2>1
<1>3. ASSUME NEW c \in Class PROVE QueueOK(c)'
  <2>1. /\ IsInjective(ready[c]) /\ IsInjective(next[c])
        /\ Range(ready[c]) \cap Range(next[c]) = {}
    BY Zenon DEF FramesInv, QueueOK
  <2>2. ASSUME NEW g \in Members(c)
        PROVE  g # f /\ at'[g] = at[g] /\ class'[g] = c
    BY Zenon, InClass
  <2>3. \A g \in Range(ready[c]) : at'[g] \in {"queued", "done"} /\ class'[g] = c
    BY Zenon, <2>2, InClass DEF Members
  <2>4. \A g \in Range(next[c]) : at'[g] = "queued" /\ class'[g] = c
    <3> TAKE g \in Range(next[c])
    <3>1. at[g] = "queued"
      BY Zenon DEF FramesInv, QueueOK
    <3> QED BY Zenon, <2>2, <3>1 DEF Members
  <2>5. f \notin Range(ready[c]) /\ f \notin Range(next[c])
    BY Zenon, <2>2 DEF Members
  <2>6. CASE ready' = ready /\ next' = next
    BY Zenon, <2>1, <2>3, <2>4, <2>6 DEF QueueOK
  <2>7. CASE /\ ready' = Enqueue(ready, t, f) /\ next' = next
             /\ at'[f] \in {"queued", "done"}
    <3>1. /\ Range(ready'[c]) =
                IF c = class'[f] THEN Range(ready[c]) \cup {f} ELSE Range(ready[c])
          /\ IsInjective(ready'[c])
      <4>1. /\ Range(Enqueue(ready, t, f)[c]) =
                   IF c = ClassIn(t, f) THEN Range(ready[c]) \cup {f} ELSE Range(ready[c])
            /\ IsInjective(ready[c]) /\ f \notin Range(ready[c]) =>
                  IsInjective(Enqueue(ready, t, f)[c])
        BY Zenon, <1>1, Enqueued
      <4> QED BY Zenon, <2>1, <2>5, <2>7, <4>1
    <3>2. Range(ready'[c]) \cap Range(next[c]) = {}
      BY Zenon, <2>1, <2>5, <2>7, <3>1
    <3>3. \A g \in Range(ready'[c]) : at'[g] \in {"queued", "done"} /\ class'[g] = c
      BY Zenon, <2>3, <2>7, <3>1
    <3> QED BY Zenon, <2>1, <2>4, <2>7, <3>1, <3>2, <3>3 DEF QueueOK
  <2>8. CASE /\ ready' = ready /\ next' = Enqueue(next, t, f)
             /\ at'[f] = "queued"
    <3>1. /\ Range(next'[c]) =
                IF c = class'[f] THEN Range(next[c]) \cup {f} ELSE Range(next[c])
          /\ IsInjective(next'[c])
      <4>1. /\ Range(Enqueue(next, t, f)[c]) =
                   IF c = ClassIn(t, f) THEN Range(next[c]) \cup {f} ELSE Range(next[c])
            /\ IsInjective(next[c]) /\ f \notin Range(next[c]) =>
                  IsInjective(Enqueue(next, t, f)[c])
        BY Zenon, <1>1, Enqueued
      <4> QED BY Zenon, <2>1, <2>5, <2>8, <4>1
    <3>2. Range(ready[c]) \cap Range(next'[c]) = {}
      BY Zenon, <2>1, <2>5, <2>8, <3>1
    <3>3. \A g \in Range(next'[c]) : at'[g] = "queued" /\ class'[g] = c
      BY Zenon, <2>4, <2>8, <3>1
    <3> QED BY Zenon, <2>1, <2>3, <2>8, <3>1, <3>2, <3>3 DEF QueueOK
  <2> QED BY Zenon, <2>6, <2>7, <2>8
<1> QED BY Zenon, <1>2, <1>3

-----------------------------------------------------------------------------
(* The registry of detached roots.                                         *)
LEMMA DetachedSpawn ==
    ASSUME TypeOK, DetachedOK, NEW f \in Frame, use[f] # "root",
           use' = [use EXCEPT ![f] = "root"], detached' = Append(detached, f),
           index' = [index EXCEPT ![f] = Len(detached) + 1]
    PROVE  DetachedOK' /\ detached' \in Seq(Frame) /\ index' \in [Frame -> Nat]
<1> DEFINE n == Len(detached)
<1>1. /\ n \in Nat /\ DOMAIN detached = 1..n /\ Len(detached') = n + 1
      /\ detached'[n + 1] = f /\ \A k \in 1..n : detached'[k] = detached[k]
      /\ \A k \in 1..(n + 1) : k \in 1..n \/ k = n + 1
      /\ detached \in Seq(Frame) /\ detached' \in Seq(Frame)
      /\ Range(detached') = Range(detached) \cup {f} /\ n + 1 \in Nat
  <2>1. detached \in Seq(Frame) /\ n \in Nat
    BY DEF TypeOK
  <2>2. detached' \in Seq(Frame) /\ Range(detached') = Range(detached) \cup {f}
    BY <2>1, Appended
  <2>3. /\ DOMAIN detached = 1..n /\ Len(detached') = n + 1
        /\ detached'[n + 1] = f /\ \A k \in 1..n : detached'[k] = detached[k]
    BY <2>1
  <2>4. n + 1 \in Nat /\ \A k \in 1..(n + 1) : k \in 1..n \/ k = n + 1
    BY <2>1
  <2> QED BY Zenon, <2>1, <2>2, <2>3, <2>4
<1>2. \A k \in 1..n : detached[k] \in Range(detached)
  BY SMTT(30), <1>1 DEF Range
<1>3. \A g \in Frame : /\ use'[g] = IF g = f THEN "root" ELSE use[g]
                       /\ index'[g] = IF g = f THEN n + 1 ELSE index[g]
  BY DEF TypeOK
<1>4. index' \in [Frame -> Nat]
  BY <1>1 DEF TypeOK
<1> HIDE DEF n
<1>5. Range(detached) = {g \in Frame : use[g] = "root"}
  BY Zenon DEF DetachedOK
<1>6. Range(detached') = {g \in Frame : use'[g] = "root"}
  BY <1>1, <1>3, <1>5
<1>7. \A k \in 1..(n + 1) : index'[detached'[k]] = k
  <2> TAKE k \in 1..(n + 1)
  <2>1. CASE k \in 1..n
    <3>1. detached'[k] = detached[k] /\ detached[k] \in Frame /\ detached[k] # f
      BY Zenon, <1>1, <1>2, <1>5, <2>1
    <3>2. index[detached[k]] = k
      BY Zenon, <2>1 DEF DetachedOK, n
    <3> QED BY Zenon, <1>3, <3>1, <3>2
  <2>2. CASE k = n + 1
    BY Zenon, <1>1, <1>3, <2>2
  <2> QED BY Zenon, <1>1, <2>1, <2>2
<1>8. \A g \in Frame : use'[g] # "root" => index'[g] = 0
  BY Zenon, <1>3 DEF DetachedOK
<1> QED BY Zenon, <1>1, <1>4, <1>6, <1>7, <1>8 DEF DetachedOK

LEMMA DetachedForgotten ==
    ASSUME TypeOK, DetachedOK, NEW f \in Frame, use[f] = "root",
           use' = [use EXCEPT ![f] = "free"], ForgetDetached(f)
    PROVE  DetachedOK' /\ detached' \in Seq(Frame) /\ index' \in [Frame -> Nat]
<1> DEFINE n == Len(detached)
           i == index[f]
           m == detached[n]
<1>1. detached \in Seq(Frame) /\ index \in [Frame -> Nat] /\ n \in Nat
  BY DEF TypeOK
<1>2. Range(detached) = {g \in Frame : use[g] = "root"}
  BY Zenon DEF DetachedOK
<1>3. PICK j \in 1..n : detached[j] = f
  BY <1>1, <1>2 DEF Range
<1>4. \A k \in 1..n : index[detached[k]] = k
  BY Zenon DEF DetachedOK
<1>5. i \in 1..n /\ detached[i] = f
  BY Zenon, <1>3, <1>4
<1>6. /\ detached' = SubSeq([detached EXCEPT ![i] = m], 1, n - 1)
      /\ index' = [index EXCEPT ![m] = i, ![f] = 0]
  <2>1. i # 0
    BY <1>1, <1>5
  <2> QED BY Zenon, <2>1 DEF ForgetDetached
<1>7. m = detached[n] /\ n \in 1..n /\ m \in Frame
  BY <1>1, <1>5
<1>8. \A k \in 1..n : detached[k] \in Frame /\ detached[k] \in Range(detached)
  BY <1>1 DEF Range
<1> HIDE DEF i, m
<1>9. /\ detached' \in Seq(Frame) /\ Len(detached') = n - 1
      /\ \A k \in 1..(n - 1) : /\ detached'[k] = IF k = i THEN m ELSE detached[k]
                               /\ k \in 1..n /\ k # n
      /\ \A k \in 1..n : k = n \/ k \in 1..(n - 1)
      /\ DOMAIN detached' = 1..(n - 1)
  <2> DEFINE d == [detached EXCEPT ![i] = m]
  <2>1. d \in Seq(Frame) /\ Len(d) = n
    BY <1>1, <1>5, <1>7
  <2>2. \A k \in 1..n : d[k] = IF k = i THEN m ELSE detached[k]
    BY <1>1, <1>5
  <2>3. n \in Nat \ {0} /\ i \in 1..n
    BY <1>1, <1>5
  <2> HIDE DEF d, n
  <2>4. detached' = SubSeq(d, 1, n - 1)
    BY Zenon, <1>6 DEF d
  <2>5. /\ detached' \in Seq(Frame) /\ Len(detached') = n - 1
        /\ \A k \in 1..(n - 1) : detached'[k] = d[k] /\ k \in 1..n /\ k # n
        /\ \A k \in 1..n : k = n \/ k \in 1..(n - 1)
        /\ DOMAIN detached' = 1..(n - 1)
    <3>1. n - 1 \in Nat /\ n - 1 <= Len(d)
      BY <2>1, <2>3
    <3>2. /\ detached' \in Seq(Frame) /\ Len(detached') = n - 1
          /\ DOMAIN detached' = 1..(n - 1)
          /\ \A k \in 1..(n - 1) : detached'[k] = d[k]
      <4> DEFINE l == n - 1
      <4>1. l \in Nat /\ l <= Len(d) /\ detached' = SubSeq(d, 1, l)
        BY <3>1, <2>4
      <4> HIDE DEF l
      <4>2. /\ detached' \in Seq(Frame) /\ Len(detached') = l
            /\ DOMAIN detached' = 1..l
            /\ \A k \in 1..l : detached'[k] = d[k]
        BY SMTT(30), <2>1, <4>1
      <4> QED BY Zenon, <4>2 DEF l
    <3>3. /\ \A k \in 1..(n - 1) : k \in 1..n /\ k # n
          /\ \A k \in 1..n : k = n \/ k \in 1..(n - 1)
      BY <2>3
    <3> QED BY Zenon, <3>2, <3>3
  <2> QED BY Zenon, <2>2, <2>5
<1>10. \A g \in Frame : /\ use'[g] = IF g = f THEN "free" ELSE use[g]
                        /\ index'[g] = IF g = f THEN 0 ELSE IF g = m THEN i ELSE index[g]
  <2>1. index' = [index EXCEPT ![m] = i, ![f] = 0]
    BY Zenon, <1>6
  <2>2. \A g \in Frame : index'[g] = IF g = f THEN 0 ELSE IF g = m THEN i ELSE index[g]
    BY Zenon, <1>1, <2>1
  <2> QED BY Zenon, <2>2 DEF TypeOK
<1>11. index' \in [Frame -> Nat]
  <2>1. i \in Nat /\ 0 \in Nat /\ index' = [index EXCEPT ![m] = i, ![f] = 0]
    BY <1>1, <1>5, <1>6
  <2> QED BY Zenon, <1>1, <2>1
<1>12. ASSUME NEW k \in 1..(n - 1)
       PROVE  /\ detached'[k] \in Range(detached) /\ detached'[k] # f
              /\ index'[detached'[k]] = k
  <2>1. k \in 1..n /\ k # n
    BY Zenon, <1>9
  <2>2. CASE k = i
    <3>1. detached'[k] = m /\ m # f
      BY Zenon, <1>4, <1>5, <1>7, <1>9, <2>1, <2>2
    <3> QED BY Zenon, <1>7, <1>8, <1>10, <2>2, <3>1
  <2>3. CASE k # i
    <3>1. detached'[k] = detached[k] /\ detached[k] # f /\ detached[k] # m
      BY ZenonT(40), <1>4, <1>5, <1>7, <1>9, <2>1, <2>3
    <3>2. detached[k] \in Frame /\ index[detached[k]] = k
      BY Zenon, <1>4, <1>8, <2>1
    <3> QED BY Zenon, <1>8, <1>10, <2>1, <3>1, <3>2
  <2> QED BY Zenon, <2>2, <2>3
<1>13. ASSUME NEW k \in 1..n, k # i
       PROVE  \E l \in 1..(n - 1) : detached'[l] = detached[k]
  <2>1. CASE k = n
    <3>1. i \in 1..(n - 1)
      BY Zenon, <1>5, <1>9, <1>13, <2>1
    <3> QED BY Zenon, <1>7, <1>9, <2>1, <3>1
  <2>2. CASE k \in 1..(n - 1)
    BY Zenon, <1>9, <1>13, <2>2
  <2> QED BY Zenon, <1>9, <2>1, <2>2
<1>14. Range(detached') = Range(detached) \ {f}
  <2>1. Range(detached') \subseteq Range(detached) \ {f}
    BY SMTT(30), <1>9, <1>12 DEF Range
  <2>2. ASSUME NEW g \in Range(detached), g # f PROVE g \in Range(detached')
    <3>1. PICK k \in 1..n : detached[k] = g
      BY <1>1 DEF Range
    <3>2. PICK l \in 1..(n - 1) : detached'[l] = g
      BY Zenon, <1>5, <1>13, <2>2, <3>1
    <3> QED BY Zenon, <1>9, <3>2 DEF Range
  <2> QED BY Zenon, <2>1, <2>2
<1>15. Range(detached') = {g \in Frame : use'[g] = "root"}
  BY <1>2, <1>10, <1>14
<1>16. \A g \in Frame : use'[g] # "root" => index'[g] = 0
  <2>1. m \in Range(detached)
    BY Zenon, <1>7, <1>8
  <2> QED BY Zenon, <1>2, <1>10, <2>1 DEF DetachedOK
<1> HIDE DEF n
<1>17. \A k \in 1..Len(detached') : index'[detached'[k]] = k
  BY Zenon, <1>9, <1>12
<1> QED BY Zenon, <1>9, <1>11, <1>15, <1>16, <1>17 DEF DetachedOK

-----------------------------------------------------------------------------
(* What the coroutine that runs does to the frames.                        *)
LEMMA AtRunning ==
    ASSUME TypeOK, FramesInv, NEW f \in Frame, slice.running = f
    PROVE  /\ at[f] = "running" /\ use[f] # "free" /\ class[f] = SliceClass /\ child[f] = None
           /\ \A g \in Frame : at[g] = "running" => g = f
<1>1. at[f] = "running" /\ \A g \in Frame : at[g] = "running" => g = f
  BY Zenon DEF FramesInv, FrameOK
<1>2. FrameOK(f)
  BY Zenon DEF FramesInv
<1>3. use[f] # "free" /\ class[f] = SliceClass /\ child[f] = None
  BY <1>1, <1>2 DEF FrameOK
<1> QED BY Zenon, <1>1, <1>3

(* Yield, Await, Finish and Resume.                                        *)
LEMMA MovedFrame ==
    ASSUME TypeOK, FramesInv, NEW f \in Frame, at[f] \in Where \cup {"running"},
           NEW w \in Where \cup {"queued", "done"}, w = "done" => use[f] = "root",
           at' = [at EXCEPT ![f] = w], pc' = pc,
           slice'.running = IF at[f] = "running" THEN None ELSE slice.running,
           UNCHANGED <<use, class, child, registryVars>>,
           \/ ready' = ready /\ next' = next /\ w \in Where
           \/ ready' = Enqueue(ready, tasks, f) /\ next' = next /\ w \in {"queued", "done"}
           \/ ready' = ready /\ next' = Enqueue(next, tasks, f) /\ w = "queued"
    PROVE  FramesInv' /\ FrameTypes'
<1>1. FrameTypes /\ at[f] \notin {"queued", "done", "none", "awaits"}
      /\ w \notin {"none", "awaits", "running"} /\ w \in Place_
  BY TypesOfFrames DEF Where, Place_
<1>2. \A g \in Frame : at'[g] = IF g = f THEN w ELSE at[g]
  BY Zenon, <1>1 DEF FrameTypes
<1>3. FrameOK(f) /\ use[f] # "free"
  <2>1. FrameOK(f)
    BY Zenon DEF FramesInv
  <2> QED BY Zenon, <1>1, <2>1 DEF FrameOK
<1>4. class'[f] = ClassIn(tasks, f)
  BY Zenon, <1>3, Registered DEF FramesInv
<1>5. /\ \A c \in Class : QueueOK(c)'
      /\ ready' \in [Class -> Seq(Frame)] /\ next' \in [Class -> Seq(Frame)]
  <2>1. /\ at[f] \notin {"queued", "done"} /\ at'[f] = w
        /\ \A g \in Frame : at[g] \in {"queued", "done"} =>
                                at'[g] = at[g] /\ class'[g] = class[g]
    BY Zenon, <1>1, <1>2
  <2>2. CASE ready' = ready /\ next' = next
    BY Zenon, <1>4, <2>1, <2>2, MovedQueues
  <2>3. CASE ready' = Enqueue(ready, tasks, f) /\ next' = next /\ w \in {"queued", "done"}
    BY Zenon, <1>4, <2>1, <2>3, MovedQueues
  <2>4. CASE ready' = ready /\ next' = Enqueue(next, tasks, f) /\ w = "queued"
    BY Zenon, <1>4, <2>1, <2>4, MovedQueues
  <2> QED BY Zenon, <2>2, <2>3, <2>4
<1>6. ASSUME NEW g \in Frame PROVE FrameOK(g)'
  <2>1. FrameOK(g) /\ g # None /\ SliceClass' = SliceClass
    BY Zenon, NamesAssumption DEF FramesInv, SliceClass
  <2>2. CASE g = f
    <3>1. at'[g] = w /\ at[f] = "running" <=> slice.running = f
      BY Zenon, <1>2, <1>3, <2>2 DEF FrameOK
    <3>2. slice'.running # g
      BY Zenon, <1>3, <2>1, <2>2 DEF FrameOK
    <3> QED BY <1>1, <1>2, <1>3, <2>2, <3>2 DEF FrameOK
  <2>3. CASE g # f
    <3>1. at'[g] = at[g] /\ (slice'.running = g <=> slice.running = g)
      BY Zenon, <1>2, <1>3, <2>1, <2>3 DEF FrameOK
    <3> QED BY Zenon, <2>1, <3>1 DEF FrameOK
  <2> QED BY Zenon, <2>2, <2>3
<1>7. ASSUME NEW g \in Frame PROVE ChildOK(g)'
  BY Zenon DEF FramesInv, ChildOK
<1>8. TasksOK' /\ DetachedOK'
  BY Zenon DEF FramesInv, TasksOK, DetachedOK, registryVars
<1>9. FrameTypes'
  <2>1. at' \in [Frame -> Place_]
    BY Zenon, <1>1 DEF FrameTypes
  <2> QED BY Zenon, <1>1, <1>5, <2>1 DEF FrameTypes, registryVars
<1> QED BY Zenon, <1>5, <1>6, <1>7, <1>8, <1>9 DEF FramesInv

LEMMA SpawnFrames ==
    ASSUME TypeOK, FramesInv, NEW f \in Frame, NEW c \in Class, Spawn(f, c)
    PROVE  FramesInv' /\ FrameTypes'
<1>1. /\ use[f] = "free" /\ use' = [use EXCEPT ![f] = "root"]
      /\ class' = [class EXCEPT ![f] = c] /\ at' = [at EXCEPT ![f] = "queued"]
      /\ tasks' \in IF c = "bg" THEN {tasks \cup {f}} ELSE {tasks \ {f}, tasks}
      /\ detached' = Append(detached, f)
      /\ index' = [index EXCEPT ![f] = Len(detached) + 1]
      /\ ready' = Enqueue(ready, tasks', f) /\ next' = next /\ child' = child
      /\ slice' = slice /\ pc' = pc
  BY Zenon DEF Spawn
<1>2. FrameTypes
  BY Zenon, TypesOfFrames
<1>3. \A g \in Frame : /\ use'[g] = IF g = f THEN "root" ELSE use[g]
                       /\ class'[g] = IF g = f THEN c ELSE class[g]
                       /\ at'[g] = IF g = f THEN "queued" ELSE at[g]
  BY Zenon, <1>1, <1>2 DEF FrameTypes
<1>4. at[f] = "none" /\ child[f] = None /\ slice.running # f /\ f # None
  <2>1. FrameOK(f)
    BY Zenon DEF FramesInv
  <2> QED BY <1>1, <2>1, NamesAssumption DEF FrameOK
<1>5. tasks' = IF c = "bg" THEN tasks \cup {f} ELSE tasks
  <2>1. f \notin tasks
    BY Zenon, <1>1 DEF FramesInv, TasksOK
  <2> QED BY Zenon, <1>1, <2>1
<1>6. ClassIn(tasks', f) = c
  <2>1. f \notin tasks
    BY Zenon, <1>1 DEF FramesInv, TasksOK
  <2> QED BY Zenon, <1>5, <2>1 DEF ClassIn, Class
<1>7. /\ \A d \in Class : QueueOK(d)'
      /\ ready' \in [Class -> Seq(Frame)] /\ next' \in [Class -> Seq(Frame)]
  <2>1. /\ at[f] \notin {"queued", "done"} /\ class'[f] = ClassIn(tasks', f)
        /\ at'[f] \in {"queued", "done"}
    BY <1>3, <1>4, <1>6
  <2>2. \A g \in Frame : at[g] \in {"queued", "done"} =>
                             at'[g] = at[g] /\ class'[g] = class[g]
    BY Zenon, <1>3, <2>1
  <2> QED BY Zenon, <1>1, <2>1, <2>2, MovedQueues
<1>8. ASSUME NEW g \in Frame PROVE FrameOK(g)'
  <2>1. FrameOK(g) /\ SliceClass' = SliceClass
    BY Zenon, <1>1 DEF FramesInv, SliceClass
  <2>2. CASE g = f
    BY <1>1, <1>3, <1>4, <2>2 DEF FrameOK
  <2>3. CASE g # f
    BY Zenon, <1>1, <1>3, <2>1, <2>3 DEF FrameOK
  <2> QED BY Zenon, <2>2, <2>3
<1>9. ASSUME NEW g \in Frame PROVE ChildOK(g)'
  <2>1. ChildOK(g) /\ child[g] \in Frame \cup {None}
    BY Zenon, <1>2 DEF FramesInv, FrameTypes
  <2>2. child[g] # None => child[g] # f /\ g # f
    BY Zenon, <1>1, <1>4, <2>1 DEF ChildOK
  <2>3. child'[g] # None => use'[child'[g]] = "child" /\ class'[child'[g]] = class'[g]
    BY ZenonT(40), <1>1, <1>3, <2>1, <2>2 DEF ChildOK
  <2>4. use'[g] = "child" => use[g] = "child"
    BY <1>3
  <2> QED BY Zenon, <1>1, <2>1, <2>3, <2>4 DEF ChildOK
<1>10. TasksOK'
  <2>1. tasks = {g \in Frame : use[g] # "free" /\ class[g] = "bg"}
    BY Zenon DEF FramesInv, TasksOK
  <2>2. tasks' = {g \in Frame : use'[g] # "free" /\ class'[g] = "bg"}
    BY <1>1, <1>3, <1>5, <2>1 DEF Class
  <2> QED BY Zenon, <2>2 DEF TasksOK
<1>11. DetachedOK' /\ detached' \in Seq(Frame) /\ index' \in [Frame -> Nat]
  <2>1. use[f] # "root" /\ DetachedOK
    BY <1>1 DEF FramesInv
  <2> QED BY Zenon, <1>1, <2>1, DetachedSpawn
<1>12. FrameTypes'
  <2>1. /\ use' \in [Frame -> {"free", "root", "child"}] /\ class' \in [Frame -> Class]
        /\ at' \in [Frame -> Place_] /\ tasks' \subseteq Frame
    BY <1>1, <1>2, <1>5 DEF FrameTypes, Place_
  <2> QED BY Zenon, <1>1, <1>2, <1>7, <1>11, <2>1 DEF FrameTypes
<1> QED BY Zenon, <1>7, <1>8, <1>9, <1>10, <1>11, <1>12 DEF FramesInv

LEMMA AwaitTaskFrames ==
    ASSUME TypeOK, FramesInv, NEW f \in Frame, AwaitTask(f)
    PROVE  FramesInv' /\ FrameTypes'
<1> DEFINE p == slice.running
<1>1. /\ p \in Frame /\ use[f] = "free" /\ use' = [use EXCEPT ![f] = "child"]
      /\ class' = [class EXCEPT ![f] = class[p]] /\ child' = [child EXCEPT ![p] = f]
      /\ at' = [at EXCEPT ![p] = "awaits", ![f] = "running"]
      /\ tasks' = WithChild(f) /\ slice' = [slice EXCEPT !.running = f]
      /\ ready' = ready /\ next' = next /\ detached' = detached /\ index' = index
      /\ pc' = pc
  BY Zenon DEF AwaitTask, queueVars
<1>2. FrameTypes /\ slice'.running = f /\ SliceClass' = SliceClass
  BY Zenon, TypesOfFrames, <1>1 DEF TypeOK, SliceClass
<1> HIDE DEF p
<1>3. /\ at[p] = "running" /\ use[p] # "free" /\ class[p] = SliceClass /\ child[p] = None
      /\ \A g \in Frame : at[g] = "running" => g = p
  BY Zenon, <1>1, AtRunning DEF p
<1>4. at[f] = "none" /\ child[f] = None /\ f # None /\ f # p
  <2>1. FrameOK(f)
    BY Zenon DEF FramesInv
  <2> QED BY <1>1, <1>3, <2>1, NamesAssumption DEF FrameOK
<1>5. \A g \in Frame : /\ use'[g] = IF g = f THEN "child" ELSE use[g]
                       /\ class'[g] = IF g = f THEN class[p] ELSE class[g]
                       /\ child'[g] = IF g = p THEN f ELSE child[g]
                       /\ at'[g] = IF g = f THEN "running" ELSE IF g = p THEN "awaits" ELSE at[g]
  BY Zenon, <1>1, <1>2 DEF FrameTypes
<1>6. ASSUME NEW g \in Frame PROVE FrameOK(g)'
  <2>1. FrameOK(g)
    BY Zenon DEF FramesInv
  <2>2. CASE g = f
    BY <1>2, <1>3, <1>4, <1>5, <2>2 DEF FrameOK
  <2>3. CASE g = p
    BY <1>2, <1>3, <1>4, <1>5, <2>3 DEF FrameOK
  <2>4. CASE g # f /\ g # p
    <3>1. /\ use'[g] = use[g] /\ class'[g] = class[g] /\ child'[g] = child[g]
          /\ at'[g] = at[g] /\ at[g] # "running"
      BY Zenon, <1>3, <1>5, <2>4
    <3> QED BY Zenon, <1>2, <2>1, <2>4, <3>1 DEF FrameOK
  <2> QED BY Zenon, <2>2, <2>3, <2>4
<1>7. \A g \in Frame : child[g] # None => child[g] \in Frame /\ child[g] # f /\ g # f /\ g # p
  <2> TAKE g \in Frame
  <2>1. ChildOK(g) /\ child[g] \in Frame \cup {None}
    BY Zenon, <1>2 DEF FramesInv, FrameTypes
  <2>2. child[g] # None => use[child[g]] = "child"
    BY Zenon, <2>1 DEF ChildOK
  <2> QED BY <1>1, <1>3, <1>4, <2>1, <2>2
<1>8. ASSUME NEW g \in Frame PROVE ChildOK(g)'
  <2>1. ChildOK(g)
    BY Zenon DEF FramesInv
  <2>2. child'[g] # None => use'[child'[g]] = "child" /\ class'[child'[g]] = class'[g]
    <3>1. CASE g = p
      <4>1. child'[g] = f /\ class'[g] = class[p]
        BY Zenon, <1>1, <1>4, <1>5, <3>1
      <4>2. use'[f] = "child" /\ class'[f] = class[p]
        BY Zenon, <1>5
      <4> QED BY Zenon, <4>1, <4>2
    <3>2. CASE g # p
      <4>1. child'[g] = child[g]
        BY Zenon, <1>5, <3>2
      <4>2. ASSUME child[g] # None
            PROVE  use'[child[g]] = "child" /\ class'[child[g]] = class'[g]
        <5>1. child[g] \in Frame /\ child[g] # f /\ g # f
          BY Zenon, <1>7, <4>2
        <5>2. use'[child[g]] = use[child[g]] /\ class'[child[g]] = class[child[g]]
          BY Zenon, <1>5, <5>1
        <5>3. class'[g] = class[g]
          BY Zenon, <1>5, <5>1
        <5> QED BY Zenon, <2>1, <4>2, <5>2, <5>3 DEF ChildOK
      <4> QED BY Zenon, <4>1, <4>2
    <3> QED BY Zenon, <3>1, <3>2
  <2>3. use'[g] = "child" => \E q \in Frame : child'[q] = g
    <3>1. CASE g = f
      BY Zenon, <1>1, <1>5, <3>1
    <3>2. ASSUME g # f, use'[g] = "child" PROVE \E q \in Frame : child'[q] = g
      <4>1. PICK q \in Frame : child[q] = g
        BY Zenon, <1>5, <2>1, <3>2 DEF ChildOK
      <4>2. g # None
        BY Zenon, NamesAssumption
      <4> QED BY Zenon, <1>5, <1>7, <4>1, <4>2
    <3> QED BY Zenon, <3>1, <3>2
  <2>4. ASSUME NEW q \in Frame, child'[q] = child'[g], child'[g] # None PROVE q = g
    <3>1. CASE g = p
      <4>1. child'[g] = f /\ (q # p => child'[q] = child[q] /\ child[q] # f)
        BY Zenon, <1>4, <1>5, <1>7, <3>1
      <4> QED BY Zenon, <2>4, <3>1, <4>1
    <3>2. CASE q = p /\ g # p
      <4>1. child'[q] = f /\ child'[g] = child[g] /\ child[g] # f
        BY Zenon, <1>4, <1>5, <1>7, <3>2
      <4> QED BY Zenon, <2>4, <4>1
    <3>3. CASE q # p /\ g # p
      BY Zenon, <1>5, <2>1, <2>4, <3>3 DEF ChildOK
    <3> QED BY Zenon, <3>1, <3>2, <3>3
  <2> QED BY Zenon, <2>2, <2>3, <2>4 DEF ChildOK
<1>9. TasksOK'
  <2>1. tasks = {g \in Frame : use[g] # "free" /\ class[g] = "bg"}
    BY Zenon DEF FramesInv, TasksOK
  <2>2. tasks' = IF SliceClass = "bg" THEN tasks \cup {f} ELSE tasks
    BY Zenon, <1>1 DEF WithChild
  <2>3. tasks' = {g \in Frame : use'[g] # "free" /\ class'[g] = "bg"}
    BY <1>1, <1>3, <1>5, <2>1, <2>2
  <2> QED BY Zenon, <2>3 DEF TasksOK
<1>10. DetachedOK'
  <2>1. {g \in Frame : use'[g] = "root"} = {g \in Frame : use[g] = "root"}
    BY <1>1, <1>5
  <2>2. use[f] # "root"
    BY <1>1
  <2> QED BY Zenon, <1>1, <1>5, <2>1, <2>2 DEF FramesInv, DetachedOK
<1>11. \A c \in Class : QueueOK(c)'
  <2>1. /\ at[f] \notin {"queued", "done"} /\ at[p] \notin {"queued", "done"}
    BY <1>3, <1>4
  <2>2. \A g \in Frame : at[g] \in {"queued", "done"} =>
                             at'[g] = at[g] /\ class'[g] = class[g]
    BY Zenon, <1>5, <2>1
  <2>3. class'[p] = ClassIn(tasks, p)
    BY Zenon, <1>1, <1>3, <1>4, <1>5, Registered DEF FramesInv
  <2> QED BY Zenon, <1>1, <2>1, <2>2, <2>3, MovedQueues
<1>12. FrameTypes'
  <2>1. /\ use' \in [Frame -> {"free", "root", "child"}] /\ class' \in [Frame -> Class]
        /\ child' \in [Frame -> Frame \cup {None}]
        /\ at' \in [Frame -> Place_] /\ tasks' \subseteq Frame
    BY Zenon, <1>1, <1>2 DEF FrameTypes, Place_, WithChild
  <2> QED BY Zenon, <1>1, <1>2, <2>1 DEF FrameTypes
<1> QED BY Zenon, <1>6, <1>8, <1>9, <1>10, <1>11, <1>12 DEF FramesInv

LEMMA ReturnTaskFrames ==
    ASSUME TypeOK, FramesInv, NEW p \in Frame, ReturnTask(p)
    PROVE  FramesInv' /\ FrameTypes'
<1> DEFINE f == slice.running
<1>1. /\ f \in Frame /\ child[p] = f /\ use' = [use EXCEPT ![f] = "free"]
      /\ class' = [class EXCEPT ![f] = "fg"] /\ child' = [child EXCEPT ![p] = None]
      /\ at' = [at EXCEPT ![p] = "running", ![f] = "none"]
      /\ tasks' = tasks \ {f} /\ slice' = [slice EXCEPT !.running = p]
      /\ ready' = ready /\ next' = next /\ detached' = detached /\ index' = index
      /\ pc' = pc
  BY Zenon DEF ReturnTask, queueVars
<1>2. FrameTypes /\ slice'.running = p /\ SliceClass' = SliceClass
  BY Zenon, TypesOfFrames, <1>1 DEF TypeOK, SliceClass
<1> HIDE DEF f
<1>3. /\ at[f] = "running" /\ use[f] # "free" /\ class[f] = SliceClass /\ child[f] = None
      /\ \A g \in Frame : at[g] = "running" => g = f
  BY Zenon, <1>1, AtRunning DEF f
<1>4. f # None /\ p # None /\ f # p
  BY Zenon, <1>1, <1>3, NamesAssumption
<1>5. /\ at[p] = "awaits" /\ use[p] # "free" /\ use[f] = "child" /\ class[p] = SliceClass
  <2>1. FrameOK(p) /\ ChildOK(p)
    BY Zenon DEF FramesInv
  <2>2. at[p] = "awaits"
    BY Zenon, <1>1, <1>4, <2>1 DEF FrameOK
  <2>3. use[f] = "child" /\ class[f] = class[p]
    BY Zenon, <1>1, <1>4, <2>1 DEF ChildOK
  <2> QED BY <1>3, <2>1, <2>2, <2>3 DEF FrameOK
<1>6. \A g \in Frame : /\ use'[g] = IF g = f THEN "free" ELSE use[g]
                       /\ class'[g] = IF g = f THEN "fg" ELSE class[g]
                       /\ child'[g] = IF g = p THEN None ELSE child[g]
                       /\ at'[g] = IF g = f THEN "none" ELSE IF g = p THEN "running" ELSE at[g]
  BY Zenon, <1>1, <1>2 DEF FrameTypes
<1>7. ASSUME NEW g \in Frame PROVE FrameOK(g)'
  <2>1. FrameOK(g)
    BY Zenon DEF FramesInv
  <2>2. CASE g = f
    BY <1>2, <1>3, <1>4, <1>6, <2>2 DEF FrameOK
  <2>3. CASE g = p
    BY <1>2, <1>4, <1>5, <1>6, <2>3 DEF FrameOK
  <2>4. CASE g # f /\ g # p
    <3>1. /\ use'[g] = use[g] /\ class'[g] = class[g] /\ child'[g] = child[g]
          /\ at'[g] = at[g] /\ at[g] # "running"
      BY Zenon, <1>3, <1>6, <2>4
    <3> QED BY Zenon, <1>2, <2>1, <2>4, <3>1 DEF FrameOK
  <2> QED BY Zenon, <2>2, <2>3, <2>4
<1>8. \A g \in Frame : child'[g] # None =>
         child'[g] = child[g] /\ child[g] \in Frame /\ child[g] # f /\ g # f /\ g # p
  <2> TAKE g \in Frame
  <2>1. ChildOK(p) /\ child[g] \in Frame \cup {None}
    BY Zenon, <1>2 DEF FramesInv, FrameTypes
  <2>2. child[g] = f => g = p
    BY Zenon, <1>1, <1>4, <2>1 DEF ChildOK
  <2> QED BY Zenon, <1>3, <1>6, <2>1, <2>2
<1>9. ASSUME NEW g \in Frame PROVE ChildOK(g)'
  <2>1. ChildOK(g)
    BY Zenon DEF FramesInv
  <2>2. child'[g] # None => use'[child'[g]] = "child" /\ class'[child'[g]] = class'[g]
    <3>1. SUFFICES ASSUME child'[g] # None
                   PROVE  use'[child[g]] = "child" /\ class'[child[g]] = class'[g]
      BY Zenon, <1>8
    <3>2. child[g] \in Frame /\ child[g] # f /\ g # f /\ child[g] # None
      BY Zenon, <1>8, <3>1
    <3>3. /\ use'[child[g]] = use[child[g]] /\ class'[child[g]] = class[child[g]]
          /\ class'[g] = class[g]
      BY Zenon, <1>6, <3>2
    <3> QED BY Zenon, <2>1, <3>2, <3>3 DEF ChildOK
  <2>3. ASSUME use'[g] = "child" PROVE \E q \in Frame : child'[q] = g
    <3>1. g # f /\ use[g] = "child"
      BY <1>6, <2>3
    <3>2. PICK q \in Frame : child[q] = g
      BY Zenon, <2>1, <3>1 DEF ChildOK
    <3> QED BY Zenon, <1>1, <1>6, <3>1, <3>2
  <2>4. ASSUME NEW q \in Frame, child'[q] = child'[g], child'[g] # None PROVE q = g
    BY Zenon, <1>8, <2>1, <2>4 DEF ChildOK
  <2> QED BY Zenon, <2>2, <2>3, <2>4 DEF ChildOK
<1>10. TasksOK'
  <2>1. tasks = {g \in Frame : use[g] # "free" /\ class[g] = "bg"}
    BY Zenon DEF FramesInv, TasksOK
  <2>2. tasks' = {g \in Frame : use'[g] # "free" /\ class'[g] = "bg"}
    BY <1>1, <1>6, <2>1
  <2> QED BY Zenon, <2>2 DEF TasksOK
<1>11. DetachedOK'
  <2>1. {g \in Frame : use'[g] = "root"} = {g \in Frame : use[g] = "root"}
    BY <1>5, <1>6
  <2>2. use[f] # "root"
    BY <1>5
  <2> QED BY Zenon, <1>1, <1>6, <2>1, <2>2 DEF FramesInv, DetachedOK
<1>12. \A c \in Class : QueueOK(c)'
  <2>1. /\ at[f] \notin {"queued", "done"} /\ at[p] \notin {"queued", "done"}
    BY <1>3, <1>5
  <2>2. \A g \in Frame : at[g] \in {"queued", "done"} =>
                             at'[g] = at[g] /\ class'[g] = class[g]
    BY Zenon, <1>6, <2>1
  <2>3. class'[p] = ClassIn(tasks, p)
    BY Zenon, <1>4, <1>5, <1>6, Registered DEF FramesInv
  <2> QED BY Zenon, <1>1, <2>1, <2>2, <2>3, MovedQueues
<1>13. FrameTypes'
  <2>1. /\ use' \in [Frame -> {"free", "root", "child"}] /\ class' \in [Frame -> Class]
        /\ child' \in [Frame -> Frame \cup {None}]
        /\ at' \in [Frame -> Place_] /\ tasks' \subseteq Frame
    BY Zenon, <1>1, <1>2 DEF FrameTypes, Place_, Class
  <2> QED BY Zenon, <1>1, <1>2, <2>1 DEF FrameTypes
<1> QED BY Zenon, <1>7, <1>9, <1>10, <1>11, <1>12, <1>13 DEF FramesInv

(* The first coroutine of a queue is resumed or, once done, destroyed.     *)
LEMMA FirstReady ==
    ASSUME TypeOK, FramesInv, NEW c \in Class, ready[c] # <<>>,
           ready' = [ready EXCEPT ![c] = Tail(@)]
    PROVE  LET f == Head(ready[c])
           IN  /\ f \in Frame /\ at[f] \in {"queued", "done"} /\ class[f] = c
               /\ ready' \in [Class -> Seq(Frame)]
               /\ \A d \in Class :
                     /\ IsInjective(ready'[d]) /\ Range(ready'[d]) = Range(ready[d]) \ {f}
                     /\ f \notin Range(next[d])
<1> DEFINE f == Head(ready[c])
           rest == Tail(ready[c])
<1>1. ready \in [Class -> Seq(Frame)] /\ ready[c] \in Seq(Frame) /\ IsInjective(ready[c])
  BY Zenon DEF TypeOK, FramesInv, QueueOK
<1>2. /\ f \in Frame /\ rest \in Seq(Frame)
      /\ Range(ready[c]) = Range(rest) \cup {f}
      /\ IsInjective(rest) /\ f \notin Range(rest)
  BY <1>1, FirstTaken
<1>3. ready' = [ready EXCEPT ![c] = rest]
  OBVIOUS
<1> HIDE DEF f, rest
<1>4. f \in Members(c)
  BY Zenon, <1>2 DEF Members
<1>5. at[f] \in {"queued", "done"} /\ class[f] = c
  BY Zenon, <1>4, InClass
<1>6. ready' \in [Class -> Seq(Frame)]
      /\ \A d \in Class : ready'[d] = IF d = c THEN rest ELSE ready[d]
  BY Zenon, <1>1, <1>2, <1>3
<1>7. ASSUME NEW d \in Class
      PROVE  /\ IsInjective(ready'[d]) /\ Range(ready'[d]) = Range(ready[d]) \ {f}
             /\ f \notin Range(next[d])
  <2>1. /\ IsInjective(ready[d]) /\ Range(ready[d]) \cap Range(next[d]) = {}
    BY Zenon DEF FramesInv, QueueOK
  <2>2. CASE d = c
    <3>1. ready'[d] = rest
      BY Zenon, <1>6, <2>2
    <3>2. Range(rest) = Range(ready[d]) \ {f} /\ f \notin Range(next[d])
      BY Zenon, <1>2, <2>1, <2>2
    <3> QED BY Zenon, <1>2, <3>1, <3>2
  <2>3. CASE d # c
    <3>1. ready'[d] = ready[d]
      BY Zenon, <1>6, <2>3
    <3>2. f \notin Members(d)
      BY Zenon, <1>5, <2>3, InClass
    <3>3. Range(ready[d]) = Range(ready[d]) \ {f} /\ f \notin Range(next[d])
      BY Zenon, <3>2 DEF Members
    <3> QED BY Zenon, <2>1, <3>1, <3>3
  <2> QED BY Zenon, <2>2, <2>3
<1> QED BY Zenon, <1>2, <1>5, <1>6, <1>7 DEF f

LEMMA ResumeReadyFrames ==
    ASSUME TypeOK, FramesInv, NEW c \in Class, ResumeReady(c)
    PROVE  FramesInv' /\ FrameTypes'
<1> DEFINE f == Head(ready[c])
           done == at[f] = "done"
<1>1. /\ pc \in Slices /\ c = SliceClass /\ slice.running = None /\ ready[c] # <<>>
      /\ ready' = [ready EXCEPT ![c] = Tail(@)]
      /\ at' = [at EXCEPT ![f] = IF done THEN "none" ELSE "running"]
      /\ use' = [use EXCEPT ![f] = IF done THEN "free" ELSE @]
      /\ class' = [class EXCEPT ![f] = IF done THEN "fg" ELSE @]
      /\ IF done THEN tasks' = tasks \ {f} /\ ForgetDetached(f) ELSE UNCHANGED registryVars
      /\ child' = child /\ next' = next /\ pc' = pc
  BY Zenon DEF ResumeReady, Dispatches, RunRemote, Runnable
<1>2. FrameTypes /\ SliceClass' = SliceClass /\ f \in Frame
      /\ slice'.running = IF done THEN None ELSE f
  <2>1. slice'.running = IF done THEN None ELSE f
    BY DEF ResumeReady
  <2>2. f \in Frame
    BY Zenon, <1>1, FirstReady
  <2> QED BY ZenonT(40), <1>1, <2>1, <2>2, TypesOfFrames DEF SliceClass
<1>3. /\ at[f] \in {"queued", "done"} /\ class[f] = c
      /\ ready' \in [Class -> Seq(Frame)]
      /\ \A d \in Class :
            /\ IsInjective(ready'[d]) /\ Range(ready'[d]) = Range(ready[d]) \ {f}
            /\ f \notin Range(next[d])
  BY Zenon, <1>1, FirstReady
<1> HIDE DEF f
<1>4. FrameOK(f) /\ f # None /\ child[f] = None /\ use[f] # "free"
  <2>1. FrameOK(f) /\ f # None
    BY Zenon, <1>2, NamesAssumption DEF FramesInv
  <2> QED BY <1>3, <2>1 DEF FrameOK
<1>5. \A g \in Frame : /\ g # f => use'[g] = use[g] /\ class'[g] = class[g] /\ at'[g] = at[g]
                       /\ at[g] # "running"
  <2>1. \A g \in Frame : g # f => use'[g] = use[g] /\ class'[g] = class[g] /\ at'[g] = at[g]
    BY Zenon, <1>1, <1>2 DEF FrameTypes
  <2>2. \A g \in Frame : FrameOK(g) /\ slice.running # g
    BY Zenon, <1>1, NamesAssumption DEF FramesInv
  <2> QED BY Zenon, <2>1, <2>2 DEF FrameOK
<1>6. /\ use'[f] = (IF done THEN "free" ELSE use[f])
      /\ class'[f] = (IF done THEN "fg" ELSE class[f])
      /\ at'[f] = IF done THEN "none" ELSE "running"
  BY Zenon, <1>1, <1>2 DEF FrameTypes
<1>7. ASSUME NEW d \in Class PROVE QueueOK(d)'
  <2>1. \A g \in Range(ready[d]) : g \in Frame /\ at[g] \in {"queued", "done"} /\ class[g] = d
    BY Zenon, InClass DEF Members
  <2>2. \A g \in Range(next[d]) : g \in Frame /\ at[g] = "queued" /\ class[g] = d
    BY Zenon, InClass DEF Members, FramesInv, QueueOK
  <2>3. IsInjective(next[d]) /\ Range(ready[d]) \cap Range(next[d]) = {}
    BY Zenon DEF FramesInv, QueueOK
  <2>4. /\ IsInjective(ready'[d]) /\ Range(ready'[d]) = Range(ready[d]) \ {f}
        /\ f \notin Range(next[d])
    BY Zenon, <1>3
  <2>5. \A g \in Range(ready'[d]) : at'[g] \in {"queued", "done"} /\ class'[g] = d
    BY Zenon, <1>5, <2>1, <2>4
  <2>6. \A g \in Range(next[d]) : at'[g] = "queued" /\ class'[g] = d
    BY Zenon, <1>5, <2>2, <2>4
  <2>7. Range(ready'[d]) \cap Range(next[d]) = {}
    BY Zenon, <2>3, <2>4
  <2> QED BY Zenon, <1>1, <2>3, <2>4, <2>5, <2>6, <2>7 DEF QueueOK
<1>8. ASSUME NEW g \in Frame PROVE FrameOK(g)'
  <2>1. FrameOK(g)
    BY Zenon DEF FramesInv
  <2>2. CASE g = f
    BY <1>1, <1>2, <1>3, <1>4, <1>6, <2>2 DEF FrameOK
  <2>3. CASE g # f
    <3>1. /\ use'[g] = use[g] /\ class'[g] = class[g] /\ child'[g] = child[g]
          /\ at'[g] = at[g] /\ at[g] # "running" /\ slice'.running # g
      BY Zenon, <1>1, <1>2, <1>5, <2>3, NamesAssumption
    <3> QED BY Zenon, <2>1, <3>1 DEF FrameOK
  <2> QED BY Zenon, <2>2, <2>3
<1>9. CASE ~done
  <2>1. use' = use /\ class' = class
    BY Zenon, <1>1, <1>2, <1>9 DEF FrameTypes
  <2>2. ASSUME NEW g \in Frame PROVE ChildOK(g)'
    BY Zenon, <1>1, <2>1 DEF FramesInv, ChildOK
  <2>3. TasksOK' /\ DetachedOK'
    <3>1. tasks' = tasks /\ detached' = detached /\ index' = index
      BY Zenon, <1>1, <1>9 DEF registryVars
    <3>2. TasksOK'
      BY Zenon, <2>1, <3>1 DEF FramesInv, TasksOK
    <3>3. DetachedOK'
      BY Zenon, <2>1, <3>1 DEF FramesInv, DetachedOK
    <3> QED BY Zenon, <3>2, <3>3
  <2>4. at' \in [Frame -> Place_]
    BY <1>1, <1>2 DEF FrameTypes, Place_
  <2>5. FrameTypes'
    BY Zenon, <1>1, <1>2, <1>3, <1>9, <2>1, <2>4 DEF FrameTypes, registryVars
  <2> QED BY Zenon, <1>7, <1>8, <2>2, <2>3, <2>5 DEF FramesInv
<1>10. CASE done
  <2>1. /\ use[f] = "root" /\ use' = [use EXCEPT ![f] = "free"]
        /\ tasks' = tasks \ {f} /\ ForgetDetached(f)
    BY Zenon, <1>1, <1>4, <1>10 DEF FrameOK
  <2>2. DetachedOK' /\ detached' \in Seq(Frame) /\ index' \in [Frame -> Nat]
    BY Zenon, <1>2, <2>1, DetachedForgotten DEF FramesInv
  <2>3. ASSUME NEW g \in Frame PROVE ChildOK(g)'
    <3>1. ChildOK(g) /\ child[g] \in Frame \cup {None}
      BY Zenon, <1>2 DEF FramesInv, FrameTypes
    <3>2. ASSUME child[g] # None
          PROVE  use'[child[g]] = "child" /\ class'[child[g]] = class'[g]
      <4>1. use[child[g]] = "child" /\ class[child[g]] = class[g]
        BY Zenon, <3>1, <3>2 DEF ChildOK
      <4>2. child[g] # f /\ g # f /\ child[g] \in Frame
        BY <1>4, <2>1, <3>1, <3>2, <4>1
      <4>3. /\ use'[child[g]] = use[child[g]] /\ class'[child[g]] = class[child[g]]
            /\ class'[g] = class[g]
        BY Zenon, <1>5, <4>2
      <4> QED BY Zenon, <4>1, <4>3
    <3>3. use'[g] = "child" => use[g] = "child"
      BY <1>5, <1>6, <1>10
    <3> QED BY Zenon, <1>1, <3>1, <3>2, <3>3 DEF ChildOK
  <2>4. TasksOK'
    <3>1. tasks = {g \in Frame : use[g] # "free" /\ class[g] = "bg"}
      BY Zenon DEF FramesInv, TasksOK
    <3>2. tasks' = {g \in Frame : use'[g] # "free" /\ class'[g] = "bg"}
      BY SMTT(30), <1>2, <1>5, <1>6, <1>10, <2>1, <3>1
    <3> QED BY Zenon, <3>2 DEF TasksOK
  <2>5. /\ use' \in [Frame -> {"free", "root", "child"}] /\ class' \in [Frame -> Class]
        /\ at' \in [Frame -> Place_] /\ tasks' \subseteq Frame
    BY <1>1, <1>2, <1>10, <2>1 DEF FrameTypes, Place_, Class
  <2>6. FrameTypes'
    BY Zenon, <1>1, <1>2, <1>3, <2>2, <2>5 DEF FrameTypes
  <2> QED BY Zenon, <1>7, <1>8, <2>2, <2>3, <2>4, <2>6 DEF FramesInv
<1> QED BY Zenon, <1>9, <1>10

-----------------------------------------------------------------------------
(* What RunOnce does to the frames and queues between two slices.          *)
LEMMA NoGroup ==
    ASSUME NEW b, Group(b, {})
    PROVE  b = Nothing
<1>1. \A c \in Class : b[c] \in Seq(Frame) /\ Range(b[c]) = {}
  BY Zenon DEF Group
<1>2. \A c \in Class : b[c] = <<>>
  <2> TAKE c \in Class
  <2> DEFINE q == b[c]
  <2>1. q \in Seq(Frame) /\ Range(q) = {}
    BY Zenon, <1>1
  <2> HIDE DEF q
  <2>2. q # <<>> => Head(q) \in Range(q)
    BY <2>1 DEF Range
  <2>3. q = <<>>
    BY Zenon, <2>1, <2>2
  <2> QED BY Zenon, <2>3 DEF q
<1>3. b = [c \in Class |-> b[c]]
  BY Zenon DEF Group
<1> QED BY <1>2, <1>3 DEF Nothing

LEMMA JoinedNothing ==
    ASSUME NEW S, NEW q \in [Class -> Seq(S)]
    PROVE  Joined(q, Nothing) = q
<1>1. \A c \in Class : q[c] \o <<>> = q[c]
  <2> TAKE c \in Class
  <2>1. q[c] \in Seq(S)
    BY Zenon
  <2> QED BY <2>1
<1>2. Joined(q, Nothing) = [c \in Class |-> q[c] \o <<>>]
  BY DEF Joined, Nothing
<1> QED BY <1>1, <1>2

LEMMA PlacedNothing ==
    ASSUME TypeOK, at' = at
    PROVE  Place(Nothing)
<1>1. \A c \in Class : Range(Nothing[c]) = {}
  BY Zenon, EmptyQueue DEF Nothing
<1>2. at = [f \in Frame |-> at[f]]
  BY Zenon DEF TypeOK
<1>3. at' = [f \in Frame |-> IF \E c \in Class : f \in Range(Nothing[c]) THEN "queued" ELSE at[f]]
  BY <1>1, <1>2
<1> QED BY Zenon, <1>3 DEF Place

LEMMA RemoteJoined ==
    ASSUME TypeOK, NEW rs \in Batch(Away)
    PROVE  Joined(remote, rs) \in [Class -> Seq(Call)]
<1>1. Away \subseteq Call
  BY Zenon DEF Away
<1>2. rs \in [Class -> Seq(Away)]
  BY Zenon, Batched
<1>3. \A c \in Class : remote[c] \o rs[c] \in Seq(Call)
  <2> TAKE c \in Class
  <2>1. remote[c] \in Seq(Call) /\ rs[c] \in Seq(Away)
    BY Zenon, <1>2 DEF TypeOK
  <2>2. rs[c] \in Seq(Call)
    BY <1>1, <2>1
  <2> QED BY <2>1, <2>2
<1> QED BY Zenon, <1>3 DEF Joined

LEMMA WaitingFrames ==
    ASSUME NEW w \in Where
    PROVE  /\ Waiting(w) \in SUBSET Frame /\ \A f \in Waiting(w) : at[f] \in Where
           /\ \A v \in Where : v # w => Waiting(v) \cap Waiting(w) = {}
  BY Zenon DEF Waiting

LEMMA WokenFrames ==
    ASSUME NEW w \in Where, NEW b \in Woken(Waiting(w))
    PROVE  Group(b, Waiting(w))
  BY Zenon, WaitingFrames, WokenGroup

(* DrainCrossCore, Poll and Wait.                                          *)
LEMMA WakeFrames ==
    ASSUME TypeOK, FramesInv, slice.running = None, slice' = slice,
           NEW w \in Where, NEW b \in Woken(Waiting(w)), Wake(b), next' = next,
           UNCHANGED <<use, class, child, registryVars>>
    PROVE  FramesInv' /\ FrameTypes'
  BY Zenon, WaitingFrames, WokenFrames, LoopFrames DEF Wake

LEMMA PollStorageFrames ==
    ASSUME TypeOK, FramesInv, slice.running = None, PollStorage
    PROVE  FramesInv' /\ FrameTypes'
<1>1. PICK b \in Woken(Waiting("storage")) :
         ready' = MergeDeferred(Joined(ready, b)) /\ Place(b)
  BY Zenon DEF PollStorage
<1>2. "storage" \in Where
  BY Zenon DEF Where
<1>3. /\ ready' = Joined(Joined(ready, b), next) /\ next' = Nothing /\ slice' = slice
      /\ UNCHANGED <<use, class, child, registryVars>>
  BY Zenon, <1>1 DEF PollStorage, MergeDeferred, NoneDeferred
<1>4. slice'.running = None
  BY Zenon, <1>3
<1> QED BY Zenon, <1>1, <1>2, <1>3, <1>4, WaitingFrames, WokenFrames, LoopFrames

LEMMA PrePollFrames ==
    ASSUME TypeOK, FramesInv, slice.running = None, PrePoll
    PROVE  FramesInv' /\ FrameTypes'
<1>1. /\ slice'.running = None /\ at' = at
      /\ UNCHANGED <<use, class, child, registryVars>>
  BY Zenon DEF PrePoll, frameVars
<1>2. CASE ready' = ready /\ next' = next
  <2>1. slice.running \notin Frame /\ slice'.running \notin Frame
    BY Zenon, <1>1, NamesAssumption
  <2> QED BY Zenon, <1>1, <1>2, <2>1, StillFrames DEF frameVars
<1>3. CASE ready' = MergeDeferred(ready) /\ next' = Nothing
  <2>1. ready' = Joined(Joined(ready, Nothing), next)
    BY Zenon, <1>3, JoinedNothing DEF MergeDeferred, TypeOK
  <2>2. Place(Nothing) /\ Group(Nothing, {}) /\ {} \in SUBSET Frame
    BY Zenon, <1>1, PlacedNothing, NothingGroup
  <2>3. \A f \in {} : at[f] \in Where
    OBVIOUS
  <2> QED BY Zenon, <1>1, <1>3, <2>1, <2>2, <2>3, LoopFrames
<1> QED BY Zenon, <1>2, <1>3 DEF PrePoll, NoneDeferred

LEMMA ParkFrames ==
    ASSUME TypeOK, FramesInv, slice.running = None, Park
    PROVE  /\ FramesInv' /\ FrameTypes' /\ remote' \in [Class -> Seq(Call)]
           /\ pc' = "sleeps" => ready' = ready /\ remote' = remote
<1>1. PICK idleTimeout \in BOOLEAN, fs \in Woken(Waiting("peer")), rs \in Batch(Away) :
         \E closed \in Woken(IF idleTimeout THEN Waiting("net") ELSE {}) :
              /\ Wake(Joined(closed, fs)) /\ Schedule(rs)
              /\ \/ pc' = "top"
                 \/ /\ fs = Nothing /\ rs = Nothing
                    /\ pc' = IF idleTimeout THEN "naps" ELSE "sleeps"
  BY Zenon DEF Park
<1> DEFINE N == IF idleTimeout THEN Waiting("net") ELSE {}
           P == Waiting("peer")
<1>2. PICK closed \in Woken(N) :
              /\ Wake(Joined(closed, fs)) /\ Schedule(rs)
              /\ \/ pc' = "top"
                 \/ /\ fs = Nothing /\ rs = Nothing
                    /\ pc' = IF idleTimeout THEN "naps" ELSE "sleeps"
  BY Zenon, <1>1
<1>3. "net" \in Where /\ "peer" \in Where /\ "net" # "peer"
  BY DEF Where
<1>4. /\ N \in SUBSET Frame /\ P \in SUBSET Frame /\ N \cap P = {}
      /\ \A f \in N \cup P : at[f] \in Where
  BY Zenon, <1>3, WaitingFrames
<1>5. fs \in Woken(P)
  BY Zenon
<1> HIDE DEF N, P
<1>6. Group(closed, N) /\ Group(fs, P)
  BY Zenon, <1>4, <1>5, WokenGroup
<1> DEFINE b == Joined(closed, fs)
           S == N \cup P
<1>7. Group(b, S) /\ S \in SUBSET Frame /\ \A f \in S : at[f] \in Where
  BY Zenon, <1>4, <1>6, JoinedGroup
<1>8. /\ ready' = Joined(ready, b) /\ Place(b) /\ next' = next /\ slice'.running = None
      /\ UNCHANGED <<use, class, child, registryVars>>
  BY Zenon, <1>2 DEF Park, Wake
<1> HIDE DEF b, S
<1>9. FramesInv' /\ FrameTypes'
  BY Zenon, <1>7, <1>8, LoopFrames
<1>10. remote' \in [Class -> Seq(Call)]
  BY Zenon, <1>1, RemoteJoined DEF Schedule
<1>11. ASSUME pc' = "sleeps" PROVE ready' = ready /\ remote' = remote
  <2>1. ~idleTimeout /\ fs = Nothing /\ rs = Nothing
    BY <1>2, <1>11
  <2>2. closed = Nothing
    BY Zenon, <1>6, <2>1, NoGroup DEF N
  <2>3. Nothing \in [Class -> Seq(Frame)]
    BY Zenon, NothingGroup DEF Group
  <2>4. b = Nothing
    BY Zenon, <2>1, <2>2, <2>3, JoinedNothing DEF b
  <2>5. ready \in [Class -> Seq(Frame)] /\ remote \in [Class -> Seq(Call)]
    BY Zenon DEF TypeOK
  <2> QED BY Zenon, <1>2, <1>8, <2>1, <2>4, <2>5, JoinedNothing DEF Schedule
<1> QED BY Zenon, <1>9, <1>10, <1>11

LEMMA BusyPollFrames ==
    ASSUME TypeOK, FramesInv, slice.running = None, BusyPoll
    PROVE  /\ FramesInv' /\ FrameTypes' /\ remote' \in [Class -> Seq(Call)]
           /\ \/ pc' = "busyfg" /\ fresh' = {}
              \/ /\ pc' \in {"top", "idle"}
                 /\ UNCHANGED <<at, ready, next, remote, fresh>>
<1>1. PICK ps \in Woken(Waiting("peer")), ns \in Woken(Waiting("net")),
           ss \in Woken(Waiting("storage")), rs \in Batch(Away) :
          LET fs == Joined(Joined(ps, ns), ss)
          IN  IF fs # Nothing \/ rs # Nothing
              THEN /\ ready' = MergeDeferred(Joined(ready, fs)) /\ Place(fs)
                   /\ Schedule(rs) /\ NoneDeferred /\ fresh' = {}
                   /\ pc' = "busyfg"
              ELSE /\ UNCHANGED <<at, queueVars, fresh>>
                   /\ pc' = IF NeedsPolling THEN "top" ELSE "idle"
  BY Zenon DEF BusyPoll
<1>2. /\ slice'.running = None /\ UNCHANGED <<use, class, child, registryVars>>
  BY Zenon DEF BusyPoll
<1>3. CASE UNCHANGED <<at, queueVars, fresh>> /\ pc' = IF NeedsPolling THEN "top" ELSE "idle"
  <2>1. slice.running \notin Frame /\ slice'.running \notin Frame
    BY Zenon, <1>2, NamesAssumption
  <2>2. UNCHANGED <<at, ready, next, remote, fresh>>
    BY Zenon, <1>3 DEF queueVars
  <2>3. FramesInv' /\ FrameTypes'
    BY Zenon, <1>2, <2>1, <2>2, StillFrames DEF frameVars
  <2> QED BY Zenon, <1>3, <2>2, <2>3 DEF TypeOK
<1> DEFINE P == Waiting("peer")
           N == Waiting("net")
           T == Waiting("storage")
           PN == P \cup N
           j == Joined(ps, ns)
           fs == Joined(j, ss)
           S == PN \cup T
<1>4. CASE /\ ready' = MergeDeferred(Joined(ready, fs)) /\ Place(fs)
           /\ Schedule(rs) /\ NoneDeferred /\ fresh' = {} /\ pc' = "busyfg"
  <2>1. /\ "net" \in Where /\ "peer" \in Where /\ "storage" \in Where /\ "net" # "peer"
        /\ "storage" # "net" /\ "storage" # "peer"
    BY DEF Where
  <2>2. /\ P \in SUBSET Frame /\ N \in SUBSET Frame /\ T \in SUBSET Frame
        /\ P \cap N = {} /\ PN \cap T = {} /\ \A f \in S : at[f] \in Where
    BY Zenon, <2>1, WaitingFrames
  <2>3. Group(ps, P) /\ Group(ns, N) /\ Group(ss, T)
    BY Zenon, <2>1, WokenFrames
  <2> HIDE DEF P, N, T
  <2>4. Group(j, PN)
    BY Zenon, <2>2, <2>3, JoinedGroup
  <2>5. S \in SUBSET Frame
    BY Zenon, <2>2
  <2> HIDE DEF j, PN
  <2>6. Group(fs, S)
    BY Zenon, <2>2, <2>3, <2>4, JoinedGroup
  <2>7. /\ ready' = Joined(Joined(ready, fs), next) /\ next' = Nothing /\ Place(fs)
    BY Zenon, <1>4 DEF MergeDeferred, NoneDeferred
  <2> HIDE DEF fs, S
  <2>8. FramesInv' /\ FrameTypes'
    BY Zenon, <1>2, <2>2, <2>5, <2>6, <2>7, LoopFrames
  <2>9. remote' \in [Class -> Seq(Call)]
    BY Zenon, <1>1, <1>4, RemoteJoined DEF Schedule
  <2> QED BY Zenon, <1>4, <2>8, <2>9
<1> QED BY Zenon, <1>1, <1>3, <1>4

-----------------------------------------------------------------------------
(* FramesInv is inductive.                                                 *)
LEMMA NotRunning ==
    ASSUME SliceOK, pc \notin Slices
    PROVE  slice.running = None /\ slice.spent = 0
  BY DEF SliceOK, NoSlice

LEMMA LoopKeepsFrames ==
    ASSUME TypeOK, SliceOK, FramesInv, Loop
    PROVE  FramesInv' /\ FrameTypes'
<1>1. /\ "net" \in Where /\ "peer" \in Where /\ None \notin Frame
      /\ \A r \in Call : r \notin Frame
  BY Zenon, NamesAssumption DEF Where
<1>2. {"top", "poll", "pre", "storage", "should", "end", "busy", "endbusy", "idle",
       "naps", "sleeps"} \cap Slices = {}
  BY DEF Slices
<1>3. CASE DrainCrossCore
  <2>1. /\ slice' = slice /\ next' = next /\ UNCHANGED <<use, class, child, registryVars>>
        /\ pc \notin Slices
    BY Zenon, <1>2, <1>3 DEF DrainCrossCore
  <2>2. PICK b \in Woken(Waiting("peer")) : Wake(b)
    BY Zenon, <1>3 DEF DrainCrossCore
  <2> QED BY Zenon, <1>1, <2>1, <2>2, NotRunning, WakeFrames
<1>4. CASE Poll
  <2>1. /\ slice' = slice /\ next' = next /\ UNCHANGED <<use, class, child, registryVars>>
        /\ pc \notin Slices
    BY Zenon, <1>2, <1>4 DEF Poll
  <2>2. PICK b \in Woken(Waiting("net")) : Wake(b)
    BY Zenon, <1>4 DEF Poll
  <2> QED BY Zenon, <1>1, <2>1, <2>2, NotRunning, WakeFrames
<1>5. CASE Wait
  <2>1. /\ slice' = slice /\ next' = next /\ UNCHANGED <<use, class, child, registryVars>>
        /\ pc \notin Slices
    BY Zenon, <1>2, <1>5 DEF Wait
  <2>2. PICK b \in Woken(Waiting("net")) : Wake(b)
    BY Zenon, <1>5 DEF Wait
  <2> QED BY Zenon, <1>1, <2>1, <2>2, NotRunning, WakeFrames
<1>6. CASE PrePoll
  <2>1. pc \notin Slices
    BY Zenon, <1>2, <1>6 DEF PrePoll
  <2> QED BY Zenon, <1>6, <2>1, NotRunning, PrePollFrames
<1>7. CASE PollStorage
  <2>1. pc \notin Slices
    BY Zenon, <1>2, <1>7 DEF PollStorage
  <2> QED BY Zenon, <1>7, <2>1, NotRunning, PollStorageFrames
<1>8. CASE BusyPoll
  <2>1. pc \notin Slices
    BY Zenon, <1>2, <1>8 DEF BusyPoll
  <2> QED BY Zenon, <1>8, <2>1, NotRunning, BusyPollFrames
<1>9. CASE Park
  <2>1. pc \notin Slices
    BY Zenon, <1>2, <1>9 DEF Park
  <2> QED BY Zenon, <1>9, <2>1, NotRunning, ParkFrames
<1>10. CASE Background \/ EndRound \/ EndBusy
  <2>1. /\ UNCHANGED <<frameVars, ready, next, registryVars>> /\ slice' = slice
        /\ pc \notin Slices
    BY Zenon, <1>2, <1>10 DEF Background, EndRound, EndBusy, queueVars
  <2>2. slice.running \notin Frame /\ slice'.running \notin Frame
    BY Zenon, <1>1, <2>1, NotRunning
  <2> QED BY Zenon, <2>1, <2>2, StillFrames
<1>11. CASE EndSlice
  <2>1. /\ UNCHANGED <<frameVars, ready, next, registryVars>> /\ slice' = NoSlice
        /\ slice.running = None
    BY Zenon, <1>11 DEF EndSlice, queueVars
  <2>2. slice'.running = None
    BY <2>1 DEF NoSlice
  <2> QED BY Zenon, <1>1, <2>1, <2>2, StillFrames
<1>12. ASSUME NEW c \in Class, RunRemoteWork(c) PROVE FramesInv' /\ FrameTypes'
  <2>1. /\ UNCHANGED <<frameVars, ready, next, registryVars>> /\ slice.running = None
        /\ remote[c] # <<>> /\ remote[c] \in Seq(Call)
    BY Zenon, <1>12 DEF RunRemoteWork, Dispatches, RunRemote, TypeOK
  <2>2. slice'.running = Head(remote[c])
    BY <1>12 DEF RunRemoteWork
  <2>3. slice'.running \in Call
    BY <2>1, <2>2
  <2> QED BY Zenon, <1>1, <2>1, <2>3, StillFrames
<1>13. ASSUME NEW c \in Class, ResumeReady(c) PROVE FramesInv' /\ FrameTypes'
  BY Zenon, <1>13, ResumeReadyFrames
<1> QED BY Zenon, <1>3, <1>4, <1>5, <1>6, <1>7, <1>8, <1>9, <1>10, <1>11, <1>12, <1>13
        DEF Loop

LEMMA CoroutineKeepsFrames ==
    ASSUME TypeOK, FramesInv, Ends \/ Runs
    PROVE  FramesInv' /\ FrameTypes'
<1> DEFINE f == slice.running
<1>1. Suspends => slice'.running = None
  BY DEF Suspends, TypeOK
<1>2. ASSUME f \in Frame PROVE f \in Frame /\ at[f] = "running"
  BY Zenon, <1>2, AtRunning
<1>3. CASE Yield
  <2>1. /\ f \in Frame /\ at[f] = "running" /\ at' = [at EXCEPT ![f] = "queued"]
        /\ pc' = pc /\ slice'.running = None
        /\ UNCHANGED <<use, class, child, registryVars>>
        /\ ready' = ready /\ next' = Enqueue(next, tasks, f)
    BY Zenon, <1>1, <1>2, <1>3 DEF Yield, EnqueueNext
  <2>2. "queued" \in Where \cup {"queued", "done"} /\ "queued" # "done"
        /\ "running" \in Where \cup {"running"}
    OBVIOUS
  <2> HIDE DEF f
  <2> QED BY Zenon, <2>1, <2>2, MovedFrame
<1>4. ASSUME NEW where \in Where, Await(where) PROVE FramesInv' /\ FrameTypes'
  <2>1. /\ f \in Frame /\ at[f] = "running" /\ at' = [at EXCEPT ![f] = where]
        /\ pc' = pc /\ slice'.running = None
        /\ UNCHANGED <<use, class, child, registryVars>>
        /\ ready' = ready /\ next' = next
    BY Zenon, <1>1, <1>2, <1>4 DEF Await, queueVars
  <2>2. where \in Where \cup {"queued", "done"} /\ where # "done"
        /\ "running" \in Where \cup {"running"}
    BY DEF Where
  <2> HIDE DEF f
  <2> QED BY Zenon, <2>1, <2>2, MovedFrame
<1>5. CASE Finish
  <2>1. /\ f \in Frame /\ at[f] = "running" /\ at' = [at EXCEPT ![f] = "done"]
        /\ use[f] = "root" /\ pc' = pc /\ slice'.running = None
        /\ UNCHANGED <<use, class, child, registryVars>>
        /\ ready' = Enqueue(ready, tasks, f) /\ next' = next
    BY Zenon, <1>1, <1>2, <1>5 DEF Finish
  <2>2. "done" \in Where \cup {"queued", "done"} /\ "done" \in {"queued", "done"}
        /\ "running" \in Where \cup {"running"}
    OBVIOUS
  <2> HIDE DEF f
  <2> QED BY Zenon, <2>1, <2>2, MovedFrame
<1>6. CASE Reply
  <2>1. UNCHANGED <<frameVars, ready, next, registryVars>> /\ slice'.running = None
        /\ slice.running \in Call
    BY Zenon, <1>1, <1>6 DEF Reply, queueVars
  <2>2. slice.running \notin Frame /\ slice'.running \notin Frame
    BY Zenon, <2>1, NamesAssumption
  <2> QED BY Zenon, <2>1, <2>2, StillFrames
<1>7. ASSUME NEW g \in Frame, Resume(g) PROVE FramesInv' /\ FrameTypes'
  <2>1. /\ at[g] = "peer" /\ at' = [at EXCEPT ![g] = "queued"]
        /\ pc' = pc /\ slice'.running = slice.running
        /\ UNCHANGED <<use, class, child, registryVars>>
        /\ ready' = Enqueue(ready, tasks, g) /\ next' = next
    BY Zenon, <1>7 DEF Resume
  <2>2. "queued" \in Where \cup {"queued", "done"} /\ "queued" # "done" /\ "peer" # "running"
        /\ "peer" \in Where \cup {"running"} /\ "queued" \in {"queued", "done"}
    BY DEF Where
  <2>3. at[g] \in Where \cup {"running"} /\ at[g] # "running"
    BY Zenon, <2>1, <2>2
  <2>4. slice'.running = IF at[g] = "running" THEN None ELSE slice.running
    BY Zenon, <2>1, <2>3
  <2> QED BY Zenon, <2>1, <2>2, <2>3, <2>4, MovedFrame
<1> QED BY Zenon, <1>3, <1>4, <1>5, <1>6, <1>7, SpawnFrames, AwaitTaskFrames,
           ReturnTaskFrames DEF Ends, Runs

-----------------------------------------------------------------------------
(* A coroutine that runs changes little else.                              *)
SliceType == [spent : Nat, running : Frame \cup Call \cup {None}]

LEMMA CoroutineStep ==
    ASSUME TypeOK, SliceOK, Ends \/ Runs
    PROVE  /\ pc \in Slices /\ UNCHANGED <<pc, remote, turn, cycles, did, passed>>
           /\ slice' \in SliceType /\ slice'.spent = slice.spent /\ slice.spent > 0
<1>1. Running /\ UNCHANGED <<pc, remote, turn, cycles, did, passed>>
  BY Zenon DEF Ends, Runs, Yield, Await, Finish, Reply, Spawn, AwaitTask, ReturnTask, Resume,
               queueVars, history
<1>2. slice' = slice \/ \E x \in Frame \cup {None} : slice' = [slice EXCEPT !.running = x]
  BY Zenon DEF Ends, Runs, Yield, Await, Finish, Reply, Spawn, AwaitTask, ReturnTask, Resume,
               Suspends
<1>3. slice \in SliceType
  BY Zenon DEF TypeOK, SliceType
<1>4. slice' \in SliceType /\ slice'.spent = slice.spent
  BY <1>2, <1>3 DEF SliceType
<1> QED BY Zenon, <1>1, <1>4 DEF Running, SliceOK

(* Who waits for storage goes on waiting.                                  *)
LEMMA StoredStay ==
    ASSUME TypeOK, FramesInv, NEW g \in Frame, at[g] = "storage",
           \/ Ends \/ Runs
           \/ \E c \in Class : ResumeReady(c)
    PROVE  at'[g] = "storage"
<1> DEFINE r == slice.running
<1>1. at \in [Frame -> Place_] /\ (r \in Frame => g # r)
  BY Zenon, AtRunning DEF TypeOK
<1>2. ASSUME NEW f \in Frame, f # g, NEW v, at' = [at EXCEPT ![f] = v]
      PROVE  at'[g] = "storage"
  BY Zenon, <1>1, <1>2
<1>3. ASSUME NEW f \in Frame, f # g, NEW p \in Frame, p # g, NEW u, NEW v,
             at' = [at EXCEPT ![p] = u, ![f] = v]
      PROVE  at'[g] = "storage"
  BY Zenon, <1>1, <1>3
<1>4. ASSUME at' = at PROVE at'[g] = "storage"
  BY Zenon, <1>4
<1>5. CASE Yield \/ Finish \/ \E where \in Where : Await(where)
  BY Zenon, <1>1, <1>2, <1>5 DEF Yield, Finish, Await
<1>6. CASE Reply
  BY Zenon, <1>4, <1>6 DEF Reply, frameVars
<1>7. ASSUME NEW f \in Frame, (\E c \in Class : Spawn(f, c)) \/ AwaitTask(f)
      PROVE  at'[g] = "storage"
  <2>1. use[f] = "free"
    BY Zenon, <1>7 DEF Spawn, AwaitTask
  <2>2. FrameOK(f)
    BY Zenon DEF FramesInv
  <2>3. f # g
    BY <2>1, <2>2 DEF FrameOK
  <2> QED BY Zenon, <1>1, <1>2, <1>3, <1>7, <2>3 DEF Spawn, AwaitTask
<1>8. ASSUME NEW p \in Frame, ReturnTask(p) PROVE at'[g] = "storage"
  <2>1. r \in Frame /\ child[p] = r /\ FrameOK(p)
    BY Zenon, <1>8 DEF ReturnTask, FramesInv
  <2>2. p # g
    BY <2>1, NamesAssumption DEF FrameOK
  <2> QED BY Zenon, <1>1, <1>3, <1>8, <2>1, <2>2 DEF ReturnTask
<1>9. ASSUME NEW f \in Frame, Resume(f) PROVE at'[g] = "storage"
  <2>1. at[f] = "peer" /\ at' = [at EXCEPT ![f] = "queued"]
    BY Zenon, <1>9 DEF Resume
  <2>2. f # g
    BY <2>1
  <2> QED BY Zenon, <1>2, <2>1, <2>2
<1>10. ASSUME NEW c \in Class, ResumeReady(c) PROVE at'[g] = "storage"
  <2>1. /\ ready[c] # <<>> /\ ready' = [ready EXCEPT ![c] = Tail(@)]
        /\ at' = [at EXCEPT ![Head(ready[c])] =
                     IF at[Head(ready[c])] = "done" THEN "none" ELSE "running"]
    BY Zenon, <1>10 DEF ResumeReady, Dispatches, RunRemote, Runnable
  <2> DEFINE f == Head(ready[c])
  <2>2. f \in Frame /\ at[f] \in {"queued", "done"}
    BY Zenon, <2>1, FirstReady
  <2> HIDE DEF f
  <2>3. f # g
    BY <2>2
  <2> QED BY Zenon, <1>2, <2>1, <2>2, <2>3 DEF f
<1> QED BY Zenon, <1>5, <1>6, <1>7, <1>8, <1>9, <1>10 DEF Ends, Runs

LEMMA Deferred ==
    ASSUME TypeOK, NEW f \in Frame, NEW c \in Class
    PROVE  Range(Enqueue(next, tasks, f)[c]) =
              IF c = ClassIn(tasks, f) THEN Range(next[c]) \cup {f} ELSE Range(next[c])
<1>1. next \in [Class -> Seq(Frame)]
  BY Zenon DEF TypeOK
<1>2. /\ Range(Enqueue(next, tasks, f)[c]) =
            IF c = ClassIn(tasks, f) THEN Range(next[c]) \cup {f} ELSE Range(next[c])
      /\ IsInjective(next[c]) /\ f \notin Range(next[c]) =>
            IsInjective(Enqueue(next, tasks, f)[c])
  BY Zenon, <1>1, Enqueued
<1> QED BY Zenon, <1>2

LEMMA CoroutineFresh ==
    ASSUME TypeOK, FramesInv, SliceOK, FreshOK, Ends \/ Runs
    PROVE  FreshOK' /\ fresh' \subseteq Frame
<1>1. pc' = pc /\ pc \in Slices
  BY Zenon, CoroutineStep
<1>2. pc # "pre" /\ pc # "storage"
  BY <1>1 DEF Slices
<1>3. NeedsPolling => NeedsPolling'
  <2>1. ASSUME NEW g \in Waiting("storage") PROVE g \in Waiting("storage")'
    BY Zenon, <2>1, StoredStay DEF Waiting
  <2> QED BY Zenon, <2>1 DEF NeedsPolling
<1>4. CASE fresh' = fresh /\ next' = next
  BY Zenon, <1>1, <1>2, <1>3, <1>4 DEF FreshOK, TypeOK
<1>5. CASE Yield
  <2> DEFINE f == slice.running
             d == ClassIn(tasks, f)
  <2>1. f \in Frame /\ fresh' = fresh \cup {f} /\ next' = Enqueue(next, tasks, f)
    BY Zenon, <1>5 DEF Yield, EnqueueNext
  <2>2. next \in [Class -> Seq(Frame)] /\ d \in Class /\ fresh \subseteq Frame
    BY Zenon DEF TypeOK, ClassIn, Class
  <2> HIDE DEF f, d
  <2>3. \A c \in Class : Range(next'[c]) =
           IF c = d THEN Range(next[c]) \cup {f} ELSE Range(next[c])
    <3>1. ASSUME NEW c \in Class
          PROVE  Range(Enqueue(next, tasks, f)[c]) =
             IF c = ClassIn(tasks, f) THEN Range(next[c]) \cup {f} ELSE Range(next[c])
      BY Zenon, <2>1, Deferred
    <3> QED BY Zenon, <2>1, <3>1 DEF d
  <2>4. \A g \in fresh' : \E c \in Class : g \in Range(next'[c])
    BY Zenon, <2>1, <2>2, <2>3 DEF FreshOK
  <2> QED BY Zenon, <1>1, <1>2, <1>3, <2>1, <2>2, <2>4 DEF FreshOK
<1> QED BY Zenon, <1>4, <1>5 DEF Ends, Runs, Finish, Await, Reply, Spawn, AwaitTask,
           ReturnTask, Resume, queueVars, history

(* The part of TypeOK that is not about frames.                            *)
OtherTypes ==
    /\ remote \in [Class -> Seq(Call)] /\ turn \in [Class -> BOOLEAN]
    /\ cycles \in [Class -> Nat]
    /\ pc \in Slices \cup {"top", "poll", "pre", "storage", "should", "end", "busy",
                           "endbusy", "idle", "naps", "sleeps"}
    /\ did \in BOOLEAN /\ slice \in SliceType /\ fresh \subseteq Frame
    /\ passed \in [Class -> [kind : {"none", "remote", "ready"}, n : Nat]]

LEMMA TypesTogether == TypeOK <=> FrameTypes /\ OtherTypes
  BY Zenon DEF TypeOK, FrameTypes, OtherTypes, SliceType

(* All of SchedulerInv but FramesInv.                                      *)
Rest == OtherTypes /\ SliceOK /\ FreshOK /\ IdleOK /\ \A c \in Class : TurnOK(c)

LEMMA InvTogether == SchedulerInv <=> FrameTypes /\ FramesInv /\ Rest
  BY Zenon, TypesTogether DEF SchedulerInv, Rest

LEMMA CoroutineRest ==
    ASSUME SchedulerInv, Ends \/ Runs
    PROVE  Rest'
<1>1. TypeOK /\ SliceOK /\ FramesInv /\ FreshOK /\ IdleOK /\ (\A c \in Class : TurnOK(c))
      /\ OtherTypes
  BY Zenon, TypesTogether DEF SchedulerInv
<1>2. /\ pc \in Slices /\ UNCHANGED <<pc, remote, turn, cycles, did, passed>>
      /\ slice' \in SliceType /\ slice'.spent = slice.spent /\ slice.spent > 0
  BY Zenon, <1>1, CoroutineStep
<1>3. FreshOK' /\ fresh' \subseteq Frame
  BY Zenon, <1>1, CoroutineFresh
<1>4. OtherTypes'
  BY Zenon, <1>1, <1>2, <1>3 DEF OtherTypes
<1>5. SliceOK'
  BY Zenon, <1>2 DEF SliceOK
<1>6. IdleOK'
  <2>1. slice'.spent # 0 /\ pc' \notin {"busy", "idle", "sleeps"} /\ pc' = pc /\ did' = did
    BY <1>1, <1>2 DEF OtherTypes, SliceType, Slices
  <2> QED BY Zenon, <1>1, <2>1 DEF IdleOK, Quiet
<1>7. \A c \in Class : TurnOK(c)'
  BY Zenon, <1>1, <1>2 DEF TurnOK
<1> QED BY Zenon, <1>3, <1>4, <1>5, <1>6, <1>7 DEF Rest

-----------------------------------------------------------------------------
(* The same of RunOnce between two slices.                                 *)
LEMMA SameWork ==
    ASSUME ready' = ready, next' = next, remote' = remote
    PROVE  HasWork' = HasWork
  BY Zenon DEF HasWork, Runnable

LEMMA JoinedEmpty ==
    ASSUME TypeOK, ~HasWork
    PROVE  Joined(ready, next) = ready /\ Joined(ready, Nothing) = ready /\ next = Nothing
<1>1. \A c \in Class : next[c] = <<>> /\ ready[c] = <<>>
  BY Zenon DEF HasWork, Runnable
<1>2. next \in [Class -> Seq(Frame)] /\ ready \in [Class -> Seq(Frame)]
  BY Zenon DEF TypeOK
<1>3. next = Nothing
  BY <1>1, <1>2 DEF Nothing
<1>4. Joined(ready, Nothing) = ready
  BY Zenon, <1>2, JoinedNothing
<1> QED BY Zenon, <1>3, <1>4

(* pc leaves and enters no slice; only what is named changes.              *)
LEMMA BetweenSlices ==
    ASSUME SchedulerInv, pc \notin Slices, slice' = slice,
           UNCHANGED <<turn, passed>>,
           remote' \in [Class -> Seq(Call)], cycles' \in [Class -> Nat], did' \in BOOLEAN,
           pc' \in Slices \cup {"top", "poll", "pre", "storage", "should", "end", "busy",
                                "endbusy", "idle", "naps", "sleeps"},
           fresh' = {} \/ (fresh' = fresh /\ next' = next),
           pc' = "pre" => fresh' = {}, pc' = "prepoll" => NeedsPolling' /\ did',
           pc' = "storage" => fresh' = {},
           pc' \in {"poll", "pre", "storage", "fg", "should", "bg", "end"} /\ ~did' => ~HasWork',
           pc' \in {"busy", "idle", "sleeps"} => ~HasWork'
    PROVE  Rest'
<1>1. SliceOK /\ FreshOK /\ OtherTypes /\ \A c \in Class : TurnOK(c)
  BY Zenon, InvTogether DEF Rest
<1>2. slice = NoSlice /\ slice' = NoSlice
  BY Zenon, <1>1 DEF SliceOK
<1>3. OtherTypes'
  <2>1. fresh' \subseteq Frame
    BY Zenon, <1>1 DEF OtherTypes
  <2> QED BY Zenon, <1>1, <2>1 DEF OtherTypes
<1>4. SliceOK'
  <2>1. slice'.running = None
    BY <1>2 DEF NoSlice
  <2> QED BY Zenon, <1>2, <2>1 DEF SliceOK
<1>5. FreshOK'
  <2>1. \A f \in fresh' : \E c \in Class : f \in Range(next'[c])
    BY Zenon, <1>1 DEF FreshOK
  <2> QED BY Zenon, <2>1 DEF FreshOK
<1>6. IdleOK'
  BY Zenon DEF IdleOK, Quiet
<1>7. \A c \in Class : TurnOK(c)'
  BY Zenon, <1>1 DEF TurnOK
<1> QED BY Zenon, <1>3, <1>4, <1>5, <1>6, <1>7 DEF Rest

LEMMA PollingRest ==
    ASSUME SchedulerInv, DrainCrossCore \/ Poll \/ PrePoll \/ PollStorage
    PROVE  Rest'
<1>1. /\ TypeOK /\ SliceOK /\ FreshOK /\ IdleOK /\ OtherTypes /\ FramesInv
  BY Zenon, TypesTogether DEF SchedulerInv
<1>2. /\ {"top", "poll", "pre", "storage"} \cap (Slices \cup {"sleeps", "idle", "busy"}) = {}
      /\ {"fg", "prepoll"} \subseteq Slices
      /\ \A p \in {"top", "poll", "pre", "storage", "fg"} : p # "prepoll"
      /\ "prepoll" \notin {"poll", "pre", "storage", "fg", "should", "bg", "end"}
      /\ \A p \in {"poll", "pre", "fg", "prepoll"} : p # "storage" /\ p \notin {"busy", "idle", "sleeps"}
      /\ \A p \in {"poll", "storage", "fg", "prepoll"} : p # "pre"
  BY DEF Slices
<1>3. pc \notin Slices => slice.spent = 0
  BY Zenon, <1>1, NotRunning
<1>4. /\ remote \in [Class -> Seq(Call)] /\ cycles \in [Class -> Nat] /\ did \in BOOLEAN
      /\ ready \in [Class -> Seq(Frame)] /\ next \in [Class -> Seq(Frame)]
  BY Zenon, <1>1 DEF TypeOK
<1>5. ASSUME pc \in {"poll", "pre", "storage"}, ~did PROVE ~HasWork
  BY Zenon, <1>1, <1>2, <1>3, <1>5 DEF IdleOK, Quiet
<1>6. CASE DrainCrossCore
  <2>1. PICK fs \in Woken(Waiting("peer")), rs \in Batch(Away) :
           Wake(fs) /\ Schedule(rs) /\ did' = (HasWork \/ fs # Nothing \/ rs # Nothing)
    BY Zenon, <1>6 DEF DrainCrossCore
  <2>2. /\ pc = "top" /\ pc' = "poll" /\ slice' = slice /\ UNCHANGED <<turn, passed, cycles>>
        /\ fresh' = fresh /\ next' = next
    BY Zenon, <1>6 DEF DrainCrossCore, history
  <2>3. remote' \in [Class -> Seq(Call)]
    BY Zenon, <1>1, <2>1, RemoteJoined DEF Schedule
  <2>4. ASSUME ~did' PROVE ~HasWork'
    <3>1. ~HasWork /\ fs = Nothing /\ rs = Nothing
      BY Zenon, <2>1, <2>4
    <3>2. ready' = ready /\ remote' = remote
      BY Zenon, <1>4, <2>1, <3>1, JoinedNothing DEF Wake, Schedule
    <3> QED BY Zenon, <2>2, <3>1, <3>2, SameWork
  <2>5. did' \in BOOLEAN /\ cycles' \in [Class -> Nat]
    BY Zenon, <1>4, <2>1, <2>2
  <2> QED BY <1>2, <2>2, <2>3, <2>4, <2>5, BetweenSlices
<1>7. CASE Poll
  <2>1. PICK fs \in Woken(Waiting("net")) : Wake(fs) /\ did' = (did \/ fs # Nothing)
    BY Zenon, <1>7 DEF Poll
  <2>2. /\ pc = "poll" /\ pc' = "pre" /\ slice' = slice
        /\ UNCHANGED <<turn, passed, cycles, remote>> /\ fresh' = {} /\ next' = next
    BY Zenon, <1>7 DEF Poll
  <2>3. ASSUME ~did' PROVE ~HasWork'
    <3>1. ~did /\ fs = Nothing
      BY Zenon, <2>1, <2>3
    <3>2. ready' = ready
      BY Zenon, <1>4, <2>1, <3>1, JoinedNothing DEF Wake
    <3> QED BY Zenon, <1>5, <2>2, <3>1, <3>2, SameWork
  <2>4. did' \in BOOLEAN /\ cycles' \in [Class -> Nat] /\ remote' \in [Class -> Seq(Call)]
    BY Zenon, <1>4, <2>1, <2>2
  <2> QED BY <1>2, <2>2, <2>3, <2>4, BetweenSlices
<1>8. CASE PrePoll
  <2>1. /\ pc = "pre" /\ slice' = slice /\ fresh' = fresh /\ did' = did
        /\ UNCHANGED <<turn, passed, cycles, remote>> /\ at' = at
    BY Zenon, <1>8 DEF PrePoll, history, frameVars
  <2>2. fresh' = {}
    BY Zenon, <1>1, <2>1 DEF FreshOK
  <2>3. did' \in BOOLEAN /\ cycles' \in [Class -> Nat] /\ remote' \in [Class -> Seq(Call)]
    BY Zenon, <1>4, <2>1
  <2>4. CASE pc' = "storage" /\ ready' = ready /\ next' = next
    <3>1. ~did' => ~HasWork'
      BY Zenon, <1>5, <2>1, <2>4, SameWork
    <3> QED BY <1>2, <2>1, <2>2, <2>3, <2>4, <3>1, BetweenSlices
  <2>5. CASE NeedsPolling /\ (Runnable("fg") \/ next["fg"] # <<>>) /\ pc' = "prepoll"
    <3>1. HasWork
      BY Zenon, <2>5 DEF HasWork, Class
    <3>2. did' /\ NeedsPolling'
      BY Zenon, <1>5, <2>1, <2>5, <3>1 DEF NeedsPolling, Waiting
    <3> QED BY SMTT(30), <1>2, <2>1, <2>2, <2>3, <2>5, <3>2, BetweenSlices
  <2> QED BY Zenon, <1>8, <2>4, <2>5 DEF PrePoll
<1>9. CASE PollStorage
  <2>1. PICK fs \in Woken(Waiting("storage")) :
           ready' = MergeDeferred(Joined(ready, fs)) /\ did' = (did \/ fs # Nothing)
    BY Zenon, <1>9 DEF PollStorage
  <2>2. /\ pc = "storage" /\ pc' = "fg" /\ slice' = slice /\ next' = Nothing
        /\ UNCHANGED <<turn, passed, cycles, remote>>
        /\ fresh' = IF NeedsPolling THEN {} ELSE fresh
    BY Zenon, <1>9 DEF PollStorage, NoneDeferred
  <2>3. fresh' = {}
    BY Zenon, <1>1, <2>2 DEF FreshOK
  <2>4. ASSUME ~did' PROVE ~HasWork'
    <3>1. ~did /\ fs = Nothing
      BY Zenon, <2>1, <2>4
    <3>2. ~HasWork
      BY Zenon, <1>5, <2>2, <3>1
    <3>3. ready' = ready /\ next' = next
      BY Zenon, <1>1, <2>1, <2>2, <3>1, <3>2, JoinedEmpty DEF MergeDeferred
    <3> QED BY Zenon, <2>2, <3>2, <3>3, SameWork
  <2>5. did' \in BOOLEAN /\ cycles' \in [Class -> Nat] /\ remote' \in [Class -> Seq(Call)]
    BY Zenon, <1>4, <2>1, <2>2
  <2> QED BY <1>2, <2>2, <2>3, <2>4, <2>5, BetweenSlices
<1> QED BY Zenon, <1>6, <1>7, <1>8, <1>9

LEMMA IdleRest ==
    ASSUME SchedulerInv, Background \/ EndRound \/ BusyPoll \/ EndBusy \/ Park \/ Wait
    PROVE  Rest'
<1>1. /\ TypeOK /\ SliceOK /\ FreshOK /\ IdleOK /\ OtherTypes /\ FramesInv
  BY Zenon, TypesTogether DEF SchedulerInv
<1>2. {"should", "end", "busy", "endbusy", "idle", "naps", "sleeps"} \cap Slices = {}
  BY DEF Slices
<1>3. pc \notin Slices => slice.spent = 0 /\ slice.running = None
  BY Zenon, <1>1, NotRunning
<1>4. /\ remote \in [Class -> Seq(Call)] /\ cycles \in [Class -> Nat] /\ did \in BOOLEAN
      /\ ready \in [Class -> Seq(Frame)] /\ next \in [Class -> Seq(Frame)]
  BY Zenon, <1>1 DEF TypeOK
<1>5. ASSUME pc \in {"should", "end"}, ~did PROVE ~HasWork
  <2>1. pc \notin Slices /\ pc \in {"poll", "pre", "storage", "fg", "should", "bg", "end"}
    BY <1>2, <1>5
  <2> QED BY Zenon, <1>1, <1>3, <1>5, <2>1 DEF IdleOK, Quiet
<1>6. MaybeResetRuntimeWindow => cycles' \in [Class -> Nat]
  BY <1>4 DEF MaybeResetRuntimeWindow
<1>7. \A p \in {"top", "bg", "end", "busy", "busyfg", "idle", "naps", "sleeps"} :
         p \notin {"pre", "prepoll", "storage"}
  OBVIOUS
<1>8. CASE Background
  <2>1. /\ pc = "should" /\ pc' \in {"bg", "end"} /\ slice' = slice /\ did' = did
        /\ UNCHANGED <<turn, passed, cycles, remote>> /\ fresh' = fresh
        /\ ready' = ready /\ next' = next
    BY Zenon, <1>8 DEF Background, history, queueVars
  <2>2. ~did' => ~HasWork'
    BY Zenon, <1>5, <2>1, SameWork
  <2> QED BY <1>2, <1>4, <2>1, <2>2, BetweenSlices DEF Slices
<1>9. CASE EndRound
  <2>1. /\ pc = "end" /\ slice' = slice /\ did' = did /\ cycles' \in [Class -> Nat]
        /\ UNCHANGED <<turn, passed, remote>> /\ fresh' = fresh
        /\ ready' = ready /\ next' = next
        /\ pc' = "top" \/ (pc' = "busy" /\ ~did)
    BY Zenon, <1>6, <1>9 DEF EndRound, history, queueVars
  <2>2. pc' = "busy" => ~HasWork'
    BY Zenon, <1>5, <2>1, SameWork
  <2> QED BY <1>2, <1>4, <2>1, <2>2, BetweenSlices
<1>10. CASE EndBusy
  <2>1. /\ pc = "endbusy" /\ slice' = slice /\ did' = did /\ cycles' \in [Class -> Nat]
        /\ UNCHANGED <<turn, passed, remote>> /\ fresh' = fresh /\ next' = next
        /\ pc' = "top"
    BY Zenon, <1>6, <1>10 DEF EndBusy, history, queueVars
  <2> QED BY <1>2, <1>4, <2>1, BetweenSlices
<1>11. CASE BusyPoll
  <2>1. /\ pc = "busy" /\ slice' = slice /\ did' = did /\ UNCHANGED <<turn, passed, cycles>>
    BY Zenon, <1>11 DEF BusyPoll
  <2>2. /\ remote' \in [Class -> Seq(Call)]
        /\ \/ pc' = "busyfg" /\ fresh' = {}
           \/ pc' \in {"top", "idle"} /\ UNCHANGED <<at, ready, next, remote, fresh>>
    BY Zenon, <1>1, <1>2, <1>3, <1>11, <2>1, BusyPollFrames
  <2>3. pc' = "idle" => ~HasWork'
    <3>1. ~HasWork
      BY Zenon, <1>1, <2>1 DEF IdleOK
    <3>2. ASSUME pc' = "idle" PROVE ready' = ready /\ next' = next /\ remote' = remote
      BY <2>2, <3>2
    <3> QED BY Zenon, <3>1, <3>2, SameWork
  <2> QED BY <1>2, <1>4, <2>1, <2>2, <2>3, BetweenSlices DEF Slices
<1>12. CASE Park
  <2>1. /\ pc = "idle" /\ slice' = slice /\ did' = did /\ UNCHANGED <<turn, passed, cycles>>
        /\ fresh' = fresh /\ next' = next /\ pc' \in {"top", "naps", "sleeps"}
    BY Zenon, <1>12 DEF Park, history
  <2>2. /\ remote' \in [Class -> Seq(Call)]
        /\ pc' = "sleeps" => ready' = ready /\ remote' = remote
    BY Zenon, <1>1, <1>2, <1>3, <1>12, <2>1, ParkFrames
  <2>3. pc' = "sleeps" => ~HasWork'
    <3>1. ~HasWork
      BY Zenon, <1>1, <2>1 DEF IdleOK
    <3> QED BY Zenon, <2>1, <2>2, <3>1, SameWork
  <2> QED BY <1>2, <1>4, <2>1, <2>2, <2>3, BetweenSlices
<1>13. CASE Wait
  <2>1. /\ pc \in {"naps", "sleeps"} /\ slice' = slice /\ did' = did
        /\ UNCHANGED <<turn, passed, cycles, remote>>
        /\ fresh' = fresh /\ next' = next /\ pc' = "top"
    BY Zenon, <1>13 DEF Wait, history
  <2> QED BY <1>2, <1>4, <2>1, BetweenSlices
<1> QED BY Zenon, <1>8, <1>9, <1>10, <1>11, <1>12, <1>13

-----------------------------------------------------------------------------
(* The same of a step of a slice.                                          *)
LEMMA EndSliceRest ==
    ASSUME SchedulerInv, EndSlice
    PROVE  Rest'
<1>1. /\ TypeOK /\ SliceOK /\ FreshOK /\ IdleOK /\ OtherTypes /\ \A c \in Class : TurnOK(c)
  BY Zenon, TypesTogether DEF SchedulerInv
<1>2. /\ pc \in Slices /\ cycles' = [cycles EXCEPT ![SliceClass] = @ + slice.spent]
      /\ did' = (did \/ slice.spent > 0) /\ slice' = NoSlice
      /\ pc' = (CASE pc = "prepoll" -> "storage" [] pc = "fg" -> "should"
                  [] pc = "bg" -> "end" [] OTHER -> "endbusy")
      /\ at' = at /\ ready' = ready /\ next' = next /\ remote' = remote /\ turn' = turn
      /\ fresh' = fresh /\ passed' = passed
  BY Zenon DEF EndSlice, frameVars, queueVars, history
<1>3. /\ \/ pc = "prepoll" /\ pc' = "storage"
         \/ pc = "fg" /\ pc' = "should"
         \/ pc = "bg" /\ pc' = "end"
         \/ pc' = "endbusy"
      /\ pc' \notin Slices /\ slice'.running = None /\ slice' \in SliceType
  <2>1. \/ pc = "prepoll" /\ pc' = "storage"
        \/ pc = "fg" /\ pc' = "should"
        \/ pc = "bg" /\ pc' = "end"
        \/ pc' = "endbusy"
    BY <1>2
  <2>2. pc' \notin Slices
    BY <2>1 DEF Slices
  <2>3. slice'.running = None /\ slice' \in SliceType
    BY <1>2 DEF NoSlice, SliceType
  <2> QED BY Zenon, <2>1, <2>2, <2>3
<1>4. cycles' \in [Class -> Nat]
  <2>1. slice.spent \in Nat /\ cycles \in [Class -> Nat]
    BY Zenon, <1>1 DEF OtherTypes, SliceType
  <2>2. SliceClass \in Class
    BY Zenon DEF SliceClass, Class
  <2>3. cycles[SliceClass] + slice.spent \in Nat
    BY <2>1, <2>2
  <2> QED BY Zenon, <1>2, <2>1, <2>3
<1>5. OtherTypes'
  <2>1. did' \in BOOLEAN
    BY Zenon, <1>2
  <2>2. pc' \in {"storage", "should", "end", "endbusy"}
    BY <1>3
  <2>3. pc' \in Slices \cup {"top", "poll", "pre", "storage", "should", "end", "busy",
                             "endbusy", "idle", "naps", "sleeps"}
    BY <2>2
  <2> QED BY Zenon, <1>1, <1>2, <1>3, <1>4, <2>1, <2>3 DEF OtherTypes
<1>6. SliceOK'
  BY Zenon, <1>2, <1>3 DEF SliceOK
<1>7. FreshOK'
  <2>1. NeedsPolling' = NeedsPolling
    BY Zenon, <1>2 DEF NeedsPolling, Waiting
  <2>2. pc' # "pre" /\ pc' # "prepoll" /\ (pc' = "storage" => pc = "prepoll")
    BY <1>3
  <2> QED BY Zenon, <1>1, <1>2, <2>1, <2>2 DEF FreshOK
<1>8. IdleOK'
  <2>1. pc' # "prepoll" /\ pc' \notin {"busy", "idle", "sleeps"}
    BY <1>3
  <2>2. ASSUME Quiet' PROVE ~HasWork
    <3>1. ~did /\ ~(slice.spent > 0)
      BY Zenon, <1>2, <2>2 DEF Quiet
    <3>2. pc # "prepoll" /\ pc' # "endbusy"
      BY <1>1, <2>2, <3>1 DEF IdleOK, Quiet
    <3>3. pc \in {"poll", "pre", "storage", "fg", "should", "bg", "end"}
      BY <1>3, <3>2
    <3>4. slice.spent = 0
      BY <1>1, <3>1 DEF OtherTypes, SliceType
    <3> QED BY Zenon, <1>1, <3>1, <3>3, <3>4 DEF IdleOK, Quiet
  <2>3. HasWork' = HasWork
    BY Zenon, <1>2, SameWork
  <2> QED BY Zenon, <2>1, <2>2, <2>3 DEF IdleOK
<1>9. \A c \in Class : TurnOK(c)'
  BY Zenon, <1>1, <1>2 DEF TurnOK
<1> QED BY Zenon, <1>5, <1>6, <1>7, <1>8, <1>9 DEF Rest

(* The turn, and what was preferred to what waited.                        *)
LEMMA TurnTaken ==
    ASSUME OtherTypes, NEW c \in Class, \A d \in Class : TurnOK(d),
           turn' = [turn EXCEPT ![c] = ~@], NEW kind \in {"remote", "ready"},
           NEW waits \in BOOLEAN, Remember(c, kind, waits),
           waits => kind = IF turn[c] THEN "remote" ELSE "ready"
    PROVE  /\ \A d \in Class : TurnOK(d)'
           /\ turn' \in [Class -> BOOLEAN]
           /\ passed' \in [Class -> [kind : {"none", "remote", "ready"}, n : Nat]]
<1> DEFINE K == [kind : {"none", "remote", "ready"}, n : Nat]
           old == passed[c]
           new == IF ~waits THEN NotPassed
                  ELSE [kind |-> kind, n |-> IF old.kind = kind THEN old.n + 1 ELSE 1]
<1>1. turn \in [Class -> BOOLEAN] /\ passed \in [Class -> K] /\ TurnOK(c) /\ old \in K
  BY Zenon DEF OtherTypes
<1>2. passed' = [passed EXCEPT ![c] = new]
  BY Zenon DEF Remember
<1>3. turn' \in [Class -> BOOLEAN] /\ turn'[c] = ~turn[c] /\ turn[c] \in BOOLEAN
  BY Zenon, <1>1
<1>4. /\ old.n <= 1
      /\ old.n = 1 => old.kind = IF turn[c] THEN "ready" ELSE "remote"
      /\ old.n \in Nat
  BY <1>1 DEF TurnOK
<1>5. waits /\ old.kind = kind => old.n = 0
  BY <1>4
<1> HIDE DEF old
<1>6. /\ new \in K /\ new.n <= 1
      /\ new.n = 1 => new.kind = IF ~turn[c] THEN "ready" ELSE "remote"
  <2>1. CASE ~waits
    BY <2>1 DEF NotPassed
  <2>2. CASE waits
    BY <1>5, <2>2
  <2> QED BY Zenon, <2>1, <2>2
<1> HIDE DEF new, K
<1>7. passed' \in [Class -> K] /\ passed'[c] = new
  BY Zenon, <1>1, <1>2, <1>6
<1>8. ASSUME NEW d \in Class PROVE TurnOK(d)'
  <2>1. CASE d = c
    BY Zenon, <1>3, <1>6, <1>7, <2>1 DEF TurnOK
  <2>2. CASE d # c
    <3>1. passed'[d] = passed[d] /\ turn'[d] = turn[d]
      BY Zenon, <1>1, <1>2, <2>2
    <3> QED BY Zenon, <3>1 DEF TurnOK
  <2> QED BY Zenon, <2>1, <2>2
<1> QED BY Zenon, <1>3, <1>7, <1>8 DEF K

LEMMA DispatchRest ==
    ASSUME SchedulerInv, NEW c \in Class, RunRemoteWork(c) \/ ResumeReady(c)
    PROVE  Rest'
<1>1. /\ TypeOK /\ SliceOK /\ FreshOK /\ IdleOK /\ OtherTypes /\ FramesInv
      /\ \A d \in Class : TurnOK(d)
  BY Zenon, TypesTogether DEF SchedulerInv
<1>2. /\ pc \in Slices /\ pc' = pc /\ turn' = [turn EXCEPT ![c] = ~@]
      /\ UNCHANGED <<next, cycles, did, fresh>>
  BY Zenon DEF RunRemoteWork, ResumeReady, Dispatches
<1>3. turn[c] \in BOOLEAN /\ remote[c] \in Seq(Call) /\ slice.spent \in Nat
  BY Zenon, <1>1 DEF OtherTypes, SliceType
<1>4. remote' \in [Class -> Seq(Call)]
  <2>1. CASE RunRemoteWork(c)
    <3>1. remote' = [remote EXCEPT ![c] = Tail(@)] /\ remote[c] # <<>>
      BY Zenon, <2>1 DEF RunRemoteWork, RunRemote
    <3>2. Tail(remote[c]) \in Seq(Call)
      BY <1>3, <3>1
    <3> QED BY Zenon, <1>1, <3>1, <3>2 DEF OtherTypes
  <2>2. CASE ResumeReady(c)
    BY Zenon, <1>1, <2>2 DEF ResumeReady, OtherTypes
  <2> QED BY Zenon, <2>1, <2>2
<1>5. slice' \in SliceType /\ slice'.spent > 0
  <2>1. ASSUME NEW cost \in 1..MaxCost, NEW x \in Frame \cup Call \cup {None},
               slice' = [spent |-> slice.spent + cost, running |-> x]
        PROVE  slice' \in SliceType /\ slice'.spent > 0
    BY <1>3, <2>1, BudgetAssumption DEF SliceType
  <2>2. CASE RunRemoteWork(c)
    <3>1. Head(remote[c]) \in Frame \cup Call \cup {None}
      <4>1. remote[c] # <<>>
        BY Zenon, <2>2 DEF RunRemoteWork, RunRemote
      <4> QED BY <1>3, <4>1
    <3> QED BY Zenon, <2>1, <2>2, <3>1 DEF RunRemoteWork
  <2>3. CASE ResumeReady(c)
    <3>1. ready[c] # <<>> /\ ready' = [ready EXCEPT ![c] = Tail(@)]
      BY Zenon, <2>3 DEF ResumeReady, Dispatches, RunRemote, Runnable
    <3>2. Head(ready[c]) \in Frame
      BY Zenon, <1>1, <3>1, FirstReady
    <3> QED BY Zenon, <2>1, <2>3, <3>2 DEF ResumeReady
  <2> QED BY Zenon, <2>2, <2>3
<1>6. /\ \A d \in Class : TurnOK(d)'
      /\ turn' \in [Class -> BOOLEAN]
      /\ passed' \in [Class -> [kind : {"none", "remote", "ready"}, n : Nat]]
  <2>1. CASE RunRemoteWork(c)
    <3>1. Remember(c, "remote", ready[c] # <<>>) /\ (ready[c] = <<>> \/ turn[c])
      BY Zenon, <2>1 DEF RunRemoteWork, RunRemote
    <3>2. (ready[c] # <<>>) \in BOOLEAN /\ "remote" \in {"remote", "ready"}
      BY Zenon
    <3> QED BY Zenon, <1>1, <1>2, <3>1, <3>2, TurnTaken
  <2>2. CASE ResumeReady(c)
    <3>1. Remember(c, "ready", remote[c] # <<>>) /\ (remote[c] # <<>> => ~turn[c])
      BY Zenon, <2>2 DEF ResumeReady, RunRemote
    <3>2. (remote[c] # <<>>) \in BOOLEAN /\ "ready" \in {"remote", "ready"}
      BY Zenon
    <3> QED BY Zenon, <1>1, <1>2, <3>1, <3>2, TurnTaken
  <2> QED BY Zenon, <2>1, <2>2
<1>7. OtherTypes'
  BY Zenon, <1>1, <1>2, <1>4, <1>5, <1>6 DEF OtherTypes
<1>8. SliceOK'
  BY Zenon, <1>2, <1>5 DEF SliceOK
<1>9. FreshOK'
  <2>1. NeedsPolling => NeedsPolling'
    <3>1. ASSUME NEW g \in Waiting("storage") PROVE g \in Waiting("storage")'
      <4>1. g \in Frame /\ at[g] = "storage"
        BY Zenon DEF Waiting
      <4>2. at'[g] = "storage"
        BY Zenon, <1>1, <4>1, StoredStay DEF RunRemoteWork, frameVars
      <4> QED BY Zenon, <4>1, <4>2 DEF Waiting
    <3> QED BY Zenon, <3>1 DEF NeedsPolling
  <2>2. pc' # "pre" /\ pc' # "storage"
    BY <1>2 DEF Slices
  <2> QED BY Zenon, <1>1, <1>2, <2>1, <2>2 DEF FreshOK
<1>10. IdleOK'
  <2>1. slice'.spent # 0 /\ pc' \notin {"busy", "idle", "sleeps"}
    BY <1>2, <1>5 DEF Slices, SliceType
  <2> QED BY Zenon, <1>1, <1>2, <2>1 DEF IdleOK, Quiet
<1> QED BY Zenon, <1>6, <1>7, <1>8, <1>9, <1>10 DEF Rest

-----------------------------------------------------------------------------
LEMMA InitInv == Init => SchedulerInv
<1> SUFFICES ASSUME Init PROVE SchedulerInv
  OBVIOUS
<1> DEFINE f == CHOOSE g \in Frame : TRUE
<1>1. /\ use = [g \in Frame |-> IF g = f THEN "root" ELSE "free"]
      /\ at = [g \in Frame |-> IF g = f THEN "queued" ELSE "none"]
      /\ ready = [c \in Class |-> IF c = "fg" THEN <<f>> ELSE <<>>]
      /\ detached = <<f>> /\ index = [g \in Frame |-> IF g = f THEN 1 ELSE 0]
  BY Zenon DEF Init
<1>2. f \in Frame
  BY Zenon, FiniteAssumption
<1> HIDE DEF f
<1>3. /\ class = [g \in Frame |-> "fg"] /\ child = [g \in Frame |-> None]
      /\ next = [c \in Class |-> <<>>] /\ remote = [c \in Class |-> <<>>]
      /\ turn = [c \in Class |-> TRUE] /\ cycles = [c \in Class |-> 0]
      /\ tasks = {} /\ pc = "top" /\ did = FALSE /\ slice = NoSlice
      /\ fresh = {} /\ passed = [c \in Class |-> NotPassed]
  BY Zenon DEF Init
<1>4. slice.running = None /\ slice.spent = 0 /\ slice \in SliceType
  BY <1>3 DEF NoSlice, SliceType
<1>5. Range(<<f>>) = {f} /\ IsInjective(<<f>>) /\ <<f>> \in Seq(Frame)
  BY <1>2 DEF Range, IsInjective
<1>6. FrameTypes
  <2>1. /\ use \in [Frame -> {"free", "root", "child"}] /\ class \in [Frame -> Class]
        /\ child \in [Frame -> Frame \cup {None}] /\ at \in [Frame -> Place_]
    BY <1>1, <1>3 DEF Class, Place_
  <2>2. ready \in [Class -> Seq(Frame)] /\ next \in [Class -> Seq(Frame)]
    BY <1>1, <1>3, <1>5
  <2>3. index \in [Frame -> Nat]
    BY <1>1
  <2> QED BY Zenon, <1>1, <1>3, <1>5, <2>1, <2>2, <2>3 DEF FrameTypes
<1>7. OtherTypes
  <2>1. remote \in [Class -> Seq(Call)] /\ cycles \in [Class -> Nat]
    BY <1>3
  <2>2. passed \in [Class -> [kind : {"none", "remote", "ready"}, n : Nat]]
    BY <1>3 DEF NotPassed
  <2> QED BY Zenon, <1>3, <1>4, <2>1, <2>2 DEF OtherTypes
<1>8. ASSUME NEW g \in Frame PROVE FrameOK(g) /\ ChildOK(g)
  <2>1. g # None
    BY Zenon, NamesAssumption
  <2>2. FrameOK(g)
    BY SMTT(30), <1>1, <1>3, <1>4, <2>1 DEF FrameOK
  <2>3. ChildOK(g)
    BY <1>1, <1>3 DEF ChildOK
  <2> QED BY Zenon, <2>2, <2>3
<1>9. TasksOK
  <2>1. \A g \in Frame : class[g] # "bg"
    BY <1>3
  <2> QED BY Zenon, <1>3, <2>1 DEF TasksOK
<1>10. DetachedOK
  <2>1. Range(detached) = {g \in Frame : use[g] = "root"}
    BY <1>1, <1>2, <1>5
  <2>2. \A i \in 1..Len(detached) : index[detached[i]] = i
    BY <1>1, <1>2
  <2>3. \A g \in Frame : use[g] # "root" => index[g] = 0
    BY <1>1
  <2> QED BY Zenon, <2>1, <2>2, <2>3 DEF DetachedOK
<1>11. ASSUME NEW c \in Class PROVE QueueOK(c)
  <2>1. next[c] = <<>> /\ Range(next[c]) = {} /\ IsInjective(next[c])
    BY Zenon, <1>3, EmptyQueue
  <2>2. CASE c = "fg"
    <3>1. ready[c] = <<f>>
      BY Zenon, <1>1, <2>2
    <3>2. at[f] = "queued" /\ class[f] = c
      BY Zenon, <1>1, <1>2, <1>3, <2>2
    <3> QED BY Zenon, <1>5, <2>1, <3>1, <3>2 DEF QueueOK
  <2>3. CASE c # "fg"
    <3>1. ready[c] = <<>>
      BY Zenon, <1>1, <2>3
    <3> QED BY Zenon, <2>1, <3>1, EmptyQueue DEF QueueOK
  <2> QED BY Zenon, <2>2, <2>3
<1>12. SliceOK
  BY Zenon, <1>3, <1>4 DEF SliceOK
<1>13. FreshOK
  BY <1>3 DEF FreshOK
<1>14. IdleOK
  BY <1>3 DEF IdleOK, Quiet
<1>15. \A c \in Class : TurnOK(c)
  BY <1>3 DEF TurnOK, NotPassed
<1>16. FramesInv
  BY Zenon, <1>8, <1>9, <1>10, <1>11 DEF FramesInv
<1> QED BY Zenon, <1>6, <1>7, <1>12, <1>13, <1>14, <1>15, <1>16, InvTogether DEF Rest

LEMMA StepInv == SchedulerInv /\ [Next]_vars => SchedulerInv'
<1> SUFFICES ASSUME SchedulerInv, [Next]_vars PROVE SchedulerInv'
  OBVIOUS
<1>1. TypeOK /\ SliceOK /\ FramesInv
  BY Zenon DEF SchedulerInv
<1>2. CASE Loop
  <2>1. FramesInv' /\ FrameTypes'
    BY Zenon, <1>1, <1>2, LoopKeepsFrames
  <2>2. Rest'
    BY Zenon, <1>2, PollingRest, IdleRest, EndSliceRest, DispatchRest DEF Loop
  <2>3. FrameTypes' /\ FramesInv' /\ Rest' => SchedulerInv'
    BY Zenon, InvTogether, PTL
  <2> QED BY Zenon, <2>1, <2>2, <2>3
<1>3. CASE Ends \/ Runs
  <2>1. FramesInv' /\ FrameTypes'
    BY Zenon, <1>1, <1>3, CoroutineKeepsFrames
  <2>2. Rest'
    BY Zenon, <1>3, CoroutineRest
  <2>3. FrameTypes' /\ FramesInv' /\ Rest' => SchedulerInv'
    BY Zenon, InvTogether, PTL
  <2> QED BY Zenon, <2>1, <2>2, <2>3
<1>4. CASE UNCHANGED vars
  <2>1. /\ UNCHANGED <<use, class, child, at, ready, next, remote, turn, cycles>>
        /\ UNCHANGED <<tasks, detached, index, pc, did, slice, fresh, passed>>
    BY Zenon, <1>4 DEF vars, frameVars, queueVars, registryVars, history
  <2>2. TypeOK' /\ SliceOK'
    BY Zenon, <1>1, <2>1 DEF TypeOK, SliceOK
  <2>3. FreshOK' /\ IdleOK' /\ \A c \in Class : TurnOK(c)'
    BY Zenon, <2>1 DEF SchedulerInv, FreshOK, NeedsPolling, Waiting, IdleOK, Quiet, HasWork,
                       Runnable, TurnOK
  <2>4. FramesInv'
    <3>1. ASSUME NEW f \in Frame PROVE FrameOK(f)' /\ ChildOK(f)'
      <4>1. FrameOK(f) /\ ChildOK(f)
        BY Zenon, <1>1 DEF FramesInv
      <4>2. FrameOK(f)'
        BY Zenon, <2>1, <4>1 DEF FrameOK, SliceClass
      <4>3. ChildOK(f)'
        BY Zenon, <2>1, <4>1 DEF ChildOK
      <4> QED BY Zenon, <4>2, <4>3
    <3>2. ASSUME NEW c \in Class PROVE QueueOK(c)'
      BY Zenon, <1>1, <2>1 DEF FramesInv, QueueOK
    <3>3. TasksOK' /\ DetachedOK'
      BY Zenon, <1>1, <2>1 DEF FramesInv, TasksOK, DetachedOK
    <3> QED BY Zenon, <3>1, <3>2, <3>3 DEF FramesInv
  <2> QED BY Zenon, <2>2, <2>3, <2>4 DEF SchedulerInv
<1> QED BY Zenon, <1>2, <1>3, <1>4 DEF Next

(* SchedulerInv holds in every round of a worker.                          *)
THEOREM SchedulerIsInvariant == Spec => []SchedulerInv
  BY InitInv, StepInv, PTL DEF Spec

(* A worker that waits without a limit (RunOnce, after the last look at    *)
(* its mailbox) has nothing in its ready, deferred and remote queues.      *)
THEOREM NoWorkIsSleptOn == Spec => []SleepsWithoutWork
<1>1. SchedulerInv => SleepsWithoutWork
  BY Zenon DEF SchedulerInv, IdleOK, SleepsWithoutWork
<1> QED BY <1>1, SchedulerIsInvariant, PTL

(* A coroutine that yields (EnqueueNext) is not resumed before the worker  *)
(* polled, and neither local nor remote work is dispatched twice while the *)
(* other waits (DrainReadyUntil, DrainBackgroundUntil).                    *)
THEOREM WorkGivesWay == Spec => []GivesWay
<1>1. SchedulerInv => YieldReachesPoll
  <2> SUFFICES ASSUME SchedulerInv, slice.running \in fresh PROVE FALSE
    BY Zenon DEF YieldReachesPoll
  <2> DEFINE f == slice.running
  <2>1. f \in Frame /\ TypeOK /\ FramesInv
    BY Zenon DEF SchedulerInv, TypeOK
  <2>2. PICK c \in Class : f \in Range(next[c])
    BY Zenon DEF SchedulerInv, FreshOK
  <2>3. at[f] = "queued" /\ at[f] = "running"
    BY Zenon, <2>1, <2>2, AtRunning DEF FramesInv, QueueOK
  <2> QED BY <2>3
<1>2. SchedulerInv => TakesTurns
  BY Zenon DEF SchedulerInv, TurnOK, TakesTurns
<1>3. SchedulerInv => GivesWay
  BY Zenon, <1>1, <1>2 DEF GivesWay
<1> QED BY <1>3, SchedulerIsInvariant, PTL

(* However frames are created, nested, destroyed and their addresses used  *)
(* again, background_tasks_ holds the background frames, a coroutine is    *)
(* queued and runs in its class, and detached_tasks_ has every root once,  *)
(* where ForgetDetached looks for it.                                      *)
THEOREM EveryFrameIsKnown == Spec => []FramesAreKnown
<1>1. SchedulerInv => ClassIsKept
  <2> SUFFICES ASSUME SchedulerInv PROVE ClassIsKept
    OBVIOUS
  <2>1. TypeOK /\ FramesInv
    BY Zenon DEF SchedulerInv
  <2>2. ASSUME NEW c \in Class, NEW f \in Range(ready[c] \o next[c])
        PROVE  use[f] # "free" /\ class[f] = c
    <3>1. ready[c] \in Seq(Frame) /\ next[c] \in Seq(Frame)
      BY Zenon, <2>1 DEF TypeOK
    <3>2. f \in Members(c)
      BY <3>1, Concatenated DEF Members
    <3>3. f \in Frame /\ at[f] \in {"queued", "done"} /\ class[f] = c
      BY Zenon, <2>1, <3>2, InClass
    <3>4. FrameOK(f)
      BY Zenon, <2>1, <3>3 DEF FramesInv
    <3> QED BY <3>3, <3>4 DEF FrameOK
  <2>3. slice.running \in Frame => class[slice.running] = SliceClass
    BY Zenon, <2>1, AtRunning
  <2> QED BY Zenon, <2>1, <2>2, <2>3 DEF ClassIsKept, FramesInv, TasksOK
<1>2. SchedulerInv => EveryFrameIsOwned
  <2> SUFFICES ASSUME SchedulerInv PROVE EveryFrameIsOwned
    OBVIOUS
  <2>1. FramesInv
    BY Zenon DEF SchedulerInv
  <2>2. ASSUME NEW f \in Frame, use[f] = "child"
        PROVE  \E p \in Frame : use[p] # "free" /\ child[p] = f
    <3>1. PICK p \in Frame : child[p] = f
      BY Zenon, <2>1, <2>2 DEF FramesInv, ChildOK
    <3>2. FrameOK(p) /\ f # None
      BY Zenon, <2>1, NamesAssumption DEF FramesInv
    <3>3. use[p] # "free"
      BY <3>1, <3>2 DEF FrameOK
    <3> QED BY Zenon, <3>1, <3>3
  <2> QED BY Zenon, <2>1, <2>2 DEF EveryFrameIsOwned, FramesInv, DetachedOK
<1>3. SchedulerInv => FramesAreKnown
  BY Zenon, <1>1, <1>2 DEF FramesAreKnown
<1> QED BY <1>3, SchedulerIsInvariant, PTL
=============================================================================
