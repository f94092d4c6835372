-------------------------- MODULE CrossCoreProofs --------------------------
(***************************************************************************)
(* TLAPS proofs about CrossCore.                                           *)
(***************************************************************************)
EXTENDS CrossCoreInv, SequenceTheorems, TLAPS

LEMMA KindType == \A m \in Msg : KindOf(m) \in Kind
BY DEF Msg, KindOf, Kind

LEMMA WordType ==
    /\ WordCount \in Nat \ {0}
    /\ \A s \in Worker : WordOf(s) \in 0..(WordCount - 1)
<1> USE SizesAssumption DEF Worker, WordOf, WordCount
<1>1. WordCount \in Nat \ {0}
  OBVIOUS
<1>2. ASSUME NEW s \in Worker PROVE WordOf(s) \in 0..(WordCount - 1)
  OBVIOUS
<1> QED BY <1>1, <1>2

LEMMA RestType ==
    ASSUME NEW S, NEW q \in Seq(S), NEW c \in 0..Len(q)
    PROVE  /\ Rest(q, c) \in Seq(S)
           /\ Rest(q, c) = <<>> <=> c = Len(q)
           /\ SubSeq(q, 1, c) \in Seq(S)
<1>1. Len(q) \in Nat /\ \A i \in 1..Len(q) : q[i] \in S
  BY LenProperties, ElementOfSeq
<1>2. \A i \in (c + 1)..Len(q) : q[i] \in S
  BY <1>1
<1>3. /\ Rest(q, c) \in Seq(S)
      /\ Len(Rest(q, c)) = IF c + 1 <= Len(q) THEN Len(q) - (c + 1) + 1 ELSE 0
  BY <1>1, <1>2, SubSeqProperties DEF Rest
<1>4. SubSeq(q, 1, c) \in Seq(S)
  BY <1>1, SubSeqProperties
<1> QED BY <1>1, <1>3, <1>4, EmptySeq

LEMMA TypeInit == Init => TypeOK
<1> SUFFICES ASSUME Init PROVE TypeOK
  OBVIOUS
<1> USE SizesAssumption, NamesAssumption, WordType DEF Init
<1>1. 0 \in Worker /\ \A k \in Kind : k \in {"req", "rep", "ntf"}
  BY DEF Worker, Kind
<1>2. NoDrain \in DrainState
  BY <1>1 DEF NoDrain, DrainState, Kind
<1>3. NoPost \in [target : Worker, msg : Msg, queued : BOOLEAN]
  BY Zenon, <1>1 DEF NoPost
<1> QED BY <1>1, <1>2, <1>3
    DEF TypeOK, LocationsOK, Thread, WorkerLocations, ForeignLocations

(* A worker, or a foreign thread, moves to one of its own locations.       *)
LEMMA GotoType ==
    ASSUME LocationsOK, NEW w \in Worker, NEW l \in WorkerLocations, Goto(w, l)
    PROVE  LocationsOK'
BY NamesAssumption DEF LocationsOK, Goto, Thread

LEMMA GotoForeignType ==
    ASSUME LocationsOK, NEW f \in Foreign, NEW l \in ForeignLocations, Goto(f, l)
    PROVE  LocationsOK'
BY NamesAssumption DEF LocationsOK, Goto, Thread

(* One post is typed: the poster's message has a queue.                    *)
LEMMA PostType ==
    ASSUME TypeOK, NEW w \in Thread
    PROVE  /\ post[w].target \in Worker /\ post[w].msg \in Msg
           /\ KindOf(post[w].msg) \in Kind
           /\ NoPost \in [target : Worker, msg : Msg, queued : BOOLEAN]
<1>1. 0 \in Worker
  BY SizesAssumption DEF Worker
<1> QED BY Zenon, <1>1, KindType, NamesAssumption DEF TypeOK, Thread, NoPost

(* The locals of a drain are typed, field by field.                        *)
LEMMA DrainType ==
    ASSUME TypeOK, NEW w \in Worker
    PROVE  /\ drain[w].overflow \in BOOLEAN /\ drain[w].first \in BOOLEAN
           /\ drain[w].start \in Worker /\ drain[w].step \in 0..WordCount
           /\ drain[w].active \in SUBSET Worker
           /\ drain[w].wrapped \in SUBSET Worker
           /\ drain[w].sender \in Worker /\ drain[w].kind \in Kind
           /\ drain[w].n \in [Kind -> 0..BatchSize]
           /\ cursor[w].sender \in Worker
           /\ cursor[w].consumed \in 0..SenderQuota
BY Zenon DEF TypeOK, DrainState

(* What one bulk dequeue of at most `maximum` messages takes and leaves.   *)
LEMMA DequeueType ==
    ASSUME NEW q \in Seq(Msg), NEW maximum \in Nat
    PROVE  LET count == Lesser(maximum, Len(q))
           IN  /\ count \in 0..maximum /\ count \in 0..Len(q)
               /\ Rest(q, count) \in Seq(Msg)
               /\ Rest(q, count) = <<>> <=> count = Len(q)
               /\ \A i \in 1..Len(SubSeq(q, 1, count)) :
                     SubSeq(q, 1, count)[i] \in Msg
<1> DEFINE count == Lesser(maximum, Len(q))
<1>1. count \in 0..maximum /\ count \in 0..Len(q)
  BY LenProperties DEF Lesser
<1> HIDE DEF count
<1>2. /\ Rest(q, count) \in Seq(Msg) /\ SubSeq(q, 1, count) \in Seq(Msg)
      /\ Rest(q, count) = <<>> <=> count = Len(q)
  BY <1>1, RestType
<1>3. \A i \in 1..Len(SubSeq(q, 1, count)) : SubSeq(q, 1, count)[i] \in Msg
  BY <1>2, ElementOfSeq
<1> QED BY <1>1, <1>2, <1>3 DEF count

LEMMA NoDrainType == NoDrain \in DrainState
<1>1. 0 \in Worker /\ 0 \in 0..WordCount /\ 0 \in 0..BatchSize
  BY SizesAssumption, WordType DEF Worker
<1> QED BY <1>1 DEF NoDrain, DrainState, Kind

LEMMA AfterType == \A k \in Kind : After(k) \in Kind
BY DEF After, Kind

(* The sequence number stays within its width.                             *)
LEMMA BumpType ==
    ASSUME TypeOK, NEW r \in Worker, Bump(r)
    PROVE  /\ wakeSeq' \in [Worker -> 0..(SeqMod - 1)]
           /\ bumps' \in [Worker -> 0..(SeqMod - 1)]
<1>1. /\ wakeSeq \in [Worker -> 0..(SeqMod - 1)]
      /\ bumps \in [Worker -> 0..(SeqMod - 1)] /\ parking \in [Worker -> BOOLEAN]
  BY DEF TypeOK
<1>2. wakeSeq[r] + 1 # SeqMod => wakeSeq[r] + 1 \in 0..(SeqMod - 1)
  BY <1>1, SizesAssumption
<1>3. parking[r] => bumps[r] + 1 \in 0..(SeqMod - 1)
  BY <1>1, SizesAssumption DEF Bump
<1>4. 0 \in 0..(SeqMod - 1)
  BY SizesAssumption
<1>5. wakeSeq' \in [Worker -> 0..(SeqMod - 1)]
  BY <1>1, <1>2, <1>4 DEF Bump
<1>6. bumps' \in [Worker -> 0..(SeqMod - 1)]
  BY <1>1, <1>3 DEF Bump
<1> QED BY <1>5, <1>6

LEMMA TypePost ==
    ASSUME TypeOK, NEW w \in Worker, NEW m \in Msg, NEW t \in Worker, Post(w, m, t)
    PROVE  TypeOK'
<1>t. /\ LocationsOK
      /\ post \in [Thread -> [target : Worker, msg : Msg, queued : BOOLEAN]]
      /\ idle \in SUBSET Msg
      /\ round \in [Worker -> {"quiet", "worked", "maintained"}]
  BY Zenon DEF TypeOK
<1>1. LocationsOK'
  BY <1>t, GotoType DEF Post, WorkerLocations
<1>2. idle' \in SUBSET Msg
  BY <1>t DEF Post
<1>3. post' \in [Thread -> [target : Worker, msg : Msg, queued : BOOLEAN]]
  BY <1>t DEF Post, Thread
<1>4. round' \in [Worker -> {"quiet", "worked", "maintained"}]
  BY <1>t DEF Post
<1> QED BY Zenon, <1>1, <1>2, <1>3, <1>4 DEF Post, TypeOK, laneVars, overVars, wakeVars, drainVars, parkVars

LEMMA TypeTryEnqueue ==
    ASSUME TypeOK, NEW w \in Worker, TryEnqueue(w)
    PROVE  TypeOK'
<1>t. /\ LocationsOK
      /\ post \in [Thread -> [target : Worker, msg : Msg, queued : BOOLEAN]]
      /\ ring \in [Worker -> [Worker -> [Kind -> Seq(Msg)]]]
  BY DEF TypeOK
<1>p. /\ post[w].target \in Worker /\ post[w].msg \in Msg
      /\ KindOf(post[w].msg) \in Kind
      /\ NoPost \in [target : Worker, msg : Msg, queued : BOOLEAN]
  BY PostType DEF Thread
<1>1. LocationsOK'
  BY Zenon, <1>t, GotoType DEF TryEnqueue, WorkerLocations
<1> DEFINE q == ring[post[w].target][w][KindOf(post[w].msg)]
<1>q. HasRoom(q) \in BOOLEAN /\ Append(q, post[w].msg) \in Seq(Msg)
  BY <1>t, <1>p DEF HasRoom
<1>2. post' \in [Thread -> [target : Worker, msg : Msg, queued : BOOLEAN]]
  BY Zenon, <1>t, <1>q DEF TryEnqueue, Thread
<1>3. ring' \in [Worker -> [Worker -> [Kind -> Seq(Msg)]]]
  <2>1. ring' = [ring EXCEPT ![post[w].target][w][KindOf(post[w].msg)] =
                   IF HasRoom(q) THEN Append(q, post[w].msg) ELSE q]
    BY Zenon DEF TryEnqueue
  <2>2. (IF HasRoom(q) THEN Append(q, post[w].msg) ELSE q) \in Seq(Msg)
    <3>1. q \in Seq(Msg)
      BY <1>t, <1>p
    <3> HIDE DEF q
    <3> QED BY <1>q, <3>1
  <2> HIDE DEF q
  <2> QED BY ZenonT(30), <1>t, <1>p, <2>1, <2>2
<1> QED BY Zenon, <1>1, <1>2, <1>3 DEF TryEnqueue, TypeOK, overVars, wakeVars, drainVars, parkVars

LEMMA TypeEnqueueOverflow ==
    ASSUME TypeOK, NEW w \in Worker, EnqueueOverflow(w)
    PROVE  TypeOK'
<1>t. /\ LocationsOK
      /\ overflow \in [Worker -> [Kind -> Seq(Msg)]]
  BY DEF TypeOK
<1>p. /\ post[w].target \in Worker /\ post[w].msg \in Msg
      /\ KindOf(post[w].msg) \in Kind
      /\ NoPost \in [target : Worker, msg : Msg, queued : BOOLEAN]
  BY PostType DEF Thread
<1>1. LocationsOK'
  BY Zenon, <1>t, GotoType DEF EnqueueOverflow, WorkerLocations
<1>2. overflow' \in [Worker -> [Kind -> Seq(Msg)]]
  <2>1. PICK t \in Worker, k \in Kind, m \in Msg :
          overflow' = [overflow EXCEPT ![t][k] = Append(@, m)]
    BY Zenon, <1>p DEF EnqueueOverflow
  <2> QED BY <1>t, <2>1
<1> QED BY Zenon, <1>1, <1>2 DEF EnqueueOverflow, TypeOK, postVars, laneVars, wakeVars, drainVars, parkVars

LEMMA TypeFlagOverflow ==
    ASSUME TypeOK, NEW w \in Worker, FlagOverflow(w)
    PROVE  TypeOK'
<1>t. /\ LocationsOK
      /\ overflowPending \in [Worker -> BOOLEAN]
  BY DEF TypeOK
<1>p. /\ post[w].target \in Worker /\ post[w].msg \in Msg
      /\ KindOf(post[w].msg) \in Kind
      /\ NoPost \in [target : Worker, msg : Msg, queued : BOOLEAN]
  BY PostType DEF Thread
<1>1. LocationsOK'
  BY <1>t, GotoType DEF FlagOverflow, WorkerLocations
<1>2. overflowPending' \in [Worker -> BOOLEAN]
  BY <1>t, <1>p DEF FlagOverflow
<1> QED BY Zenon, <1>1, <1>2 DEF FlagOverflow, TypeOK, postVars, laneVars, wakeVars, drainVars, parkVars

LEMMA TypeMarkWake ==
    ASSUME TypeOK, NEW w \in Worker, MarkWake(w)
    PROVE  TypeOK'
<1>t. /\ LocationsOK
      /\ post \in [Thread -> [target : Worker, msg : Msg, queued : BOOLEAN]]
      /\ active \in [Worker -> [Worker -> BOOLEAN]]
      /\ wakePending \in [Worker -> [Worker -> 0..2]]
      /\ wakeList \in [Worker -> Seq(Worker)]
  BY DEF TypeOK
<1>p. /\ post[w].target \in Worker /\ post[w].msg \in Msg
      /\ KindOf(post[w].msg) \in Kind
      /\ NoPost \in [target : Worker, msg : Msg, queued : BOOLEAN]
  BY PostType DEF Thread
<1>1. LocationsOK'
  BY Zenon, <1>t, GotoType DEF MarkWake, Return, WorkerLocations
<1>2. post' \in [Thread -> [target : Worker, msg : Msg, queued : BOOLEAN]]
  BY Zenon, <1>t, <1>p DEF MarkWake, Return, Thread
<1>3. active' \in [Worker -> [Worker -> BOOLEAN]]
  BY Zenon, <1>t, <1>p DEF MarkWake
<1>4. wakePending' \in [Worker -> [Worker -> 0..2]]
  <2>1. wakePending' = [wakePending EXCEPT ![w][post[w].target] =
                          IF post[w].target = w THEN @ ELSE NextPending(@)]
    BY Zenon DEF MarkWake
  <2> QED BY <1>t, <1>p, <2>1 DEF NextPending
<1>5. wakeList' \in [Worker -> Seq(Worker)]
  <2>1. PICK first \in BOOLEAN :
          wakeList' = [wakeList EXCEPT ![w] =
                         IF first THEN Append(@, post[w].target) ELSE @]
    BY Zenon DEF MarkWake
  <2> QED BY <1>t, <1>p, <2>1
<1> QED BY Zenon, <1>1, <1>2, <1>3, <1>4, <1>5 DEF MarkWake, TypeOK, overVars, drainVars, parkVars

LEMMA TypeActivateSender ==
    ASSUME TypeOK, NEW w \in Worker, ActivateSender(w)
    PROVE  TypeOK'
<1>t. /\ LocationsOK
      /\ post \in [Thread -> [target : Worker, msg : Msg, queued : BOOLEAN]]
      /\ bits \in [Worker -> SUBSET Worker]
  BY Zenon DEF TypeOK
<1>p. /\ post[w].target \in Worker /\ post[w].msg \in Msg
      /\ KindOf(post[w].msg) \in Kind
      /\ NoPost \in [target : Worker, msg : Msg, queued : BOOLEAN]
  BY PostType DEF Thread
<1>1. LocationsOK'
  BY <1>t, GotoType DEF ActivateSender, Return, WorkerLocations
<1>2. post' \in [Thread -> [target : Worker, msg : Msg, queued : BOOLEAN]]
  BY <1>t, <1>p DEF ActivateSender, Return, Thread
<1>3. bits' \in [Worker -> SUBSET Worker]
  BY <1>t, <1>p DEF ActivateSender
<1> QED BY Zenon, <1>1, <1>2, <1>3 DEF ActivateSender, TypeOK, overVars, wakeVars, drainVars, parkVars

LEMMA TypeStartDrain ==
    ASSUME TypeOK, NEW w \in Worker, StartDrain(w)
    PROVE  TypeOK'
<1>t. /\ LocationsOK
      /\ overflowPending \in [Worker -> BOOLEAN]
      /\ drain \in [Worker -> DrainState]
      /\ overflowFirst \in [Worker -> BOOLEAN]
  BY DEF TypeOK
<1>p. /\ drain[w].start \in Worker /\ drain[w].step \in 0..WordCount
      /\ drain[w].active \in SUBSET Worker /\ drain[w].wrapped \in SUBSET Worker
      /\ drain[w].sender \in Worker /\ drain[w].kind \in Kind
      /\ drain[w].n \in [Kind -> 0..BatchSize]
      /\ cursor[w].sender \in Worker /\ cursor[w].consumed \in 0..SenderQuota
  BY Zenon, DrainType
<1>1. LocationsOK'
  BY <1>t, GotoType DEF StartDrain, WorkerLocations
<1>2. overflowPending' \in [Worker -> BOOLEAN]
  BY <1>t, <1>p DEF StartDrain
<1>3. overflowFirst' \in [Worker -> BOOLEAN]
  BY Zenon, <1>t, <1>p DEF StartDrain
<1>4. drain' \in [Worker -> DrainState]
  BY ZenonT(30), <1>t, <1>p, NoDrainType DEF StartDrain, DrainState
<1> QED BY Zenon, <1>1, <1>2, <1>3, <1>4 DEF StartDrain, TypeOK, postVars, laneVars, wakeVars, parkVars

LEMMA TypeDrainOverflow ==
    ASSUME TypeOK, NEW w \in Worker, DrainOverflow(w)
    PROVE  TypeOK'
<1>t. /\ LocationsOK
      /\ delivered \in SUBSET Msg
      /\ overflow \in [Worker -> [Kind -> Seq(Msg)]]
      /\ overflowPending \in [Worker -> BOOLEAN]
      /\ drain \in [Worker -> DrainState]
  BY Zenon DEF TypeOK
<1>p. /\ drain[w].start \in Worker /\ drain[w].step \in 0..WordCount
      /\ drain[w].active \in SUBSET Worker /\ drain[w].wrapped \in SUBSET Worker
      /\ drain[w].sender \in Worker /\ drain[w].kind \in Kind
      /\ drain[w].n \in [Kind -> 0..BatchSize]
      /\ cursor[w].sender \in Worker /\ cursor[w].consumed \in 0..SenderQuota
  BY DrainType
<1> DEFINE q == overflow[w][drain[w].kind]
           maximum == BatchSize - drain[w].n[drain[w].kind]
           count == Lesser(maximum, Len(q))
<1>m. q \in Seq(Msg) /\ maximum \in Nat
  <2>1. q \in Seq(Msg)
    BY <1>p, <1>t
  <2>2. drain[w].n[drain[w].kind] \in 0..BatchSize
    BY <1>p
  <2>3. maximum \in Nat
    BY <2>2, SizesAssumption
  <2> QED BY Zenon, <2>1, <2>3
<1>d. /\ count \in 0..maximum /\ Rest(q, count) \in Seq(Msg)
      /\ \A i \in 1..Len(SubSeq(q, 1, count)) : SubSeq(q, 1, count)[i] \in Msg
  BY Zenon, <1>m, DequeueType
<1> DEFINE n == [drain[w].n EXCEPT ![drain[w].kind] = @ + count]
<1>n. n \in [Kind -> 0..BatchSize]
  <2>1. drain[w].n[drain[w].kind] \in 0..BatchSize
    BY <1>p
  <2>2. count \in 0..(BatchSize - drain[w].n[drain[w].kind])
    BY Zenon, <1>d
  <2> HIDE DEF count
  <2>3. drain[w].n[drain[w].kind] + count \in 0..BatchSize
    BY <2>1, <2>2, SizesAssumption
  <2> QED BY Zenon, <1>p, <2>3
<1>1. LocationsOK'
  BY Zenon, <1>t, GotoType DEF DrainOverflow, WorkerLocations
<1>2. delivered' \in SUBSET Msg
  BY Zenon, <1>t, <1>d DEF DrainOverflow, Deliver
<1>3. overflow' \in [Worker -> [Kind -> Seq(Msg)]]
  BY ZenonT(30), <1>t, <1>p, <1>d DEF DrainOverflow
<1>4. overflowPending' \in [Worker -> BOOLEAN]
  BY Zenon, <1>t, <1>p DEF DrainOverflow
<1>5. drain' \in [Worker -> DrainState]
  <2> DEFINE d == [drain[w] EXCEPT !.n = n, !.kind = After(drain[w].kind)]
  <2>1. d \in DrainState
    <3>1. After(drain[w].kind) \in Kind
      BY Zenon, <1>p, AfterType
    <3>2. drain[w] \in DrainState
      BY <1>t
    <3> HIDE DEF n
    <3> QED BY Zenon, <1>n, <3>1, <3>2 DEF DrainState
  <2>2. drain' = [drain EXCEPT ![w] = d]
    BY Zenon, <1>t DEF DrainOverflow
  <2> HIDE DEF d
  <2> QED BY <1>t, <2>1, <2>2
<1> QED BY Zenon, <1>1, <1>2, <1>3, <1>4, <1>5 DEF DrainOverflow, TypeOK, laneVars, wakeVars, parkVars

LEMMA TypeTakeActiveSenders ==
    ASSUME TypeOK, NEW w \in Worker, TakeActiveSenders(w)
    PROVE  TypeOK'
<1>t. /\ LocationsOK
      /\ bits \in [Worker -> SUBSET Worker]
      /\ drain \in [Worker -> DrainState]
  BY Zenon DEF TypeOK
<1>p. /\ drain[w].start \in Worker /\ drain[w].step \in 0..WordCount
      /\ drain[w].active \in SUBSET Worker /\ drain[w].wrapped \in SUBSET Worker
      /\ drain[w].sender \in Worker /\ drain[w].kind \in Kind
      /\ drain[w].n \in [Kind -> 0..BatchSize]
      /\ cursor[w].sender \in Worker /\ cursor[w].consumed \in 0..SenderQuota
  BY DrainType
<1>1. LocationsOK'
  BY Zenon, <1>t DEF TakeActiveSenders, LocationsOK
<1>2. bits' \in [Worker -> SUBSET Worker]
  BY Zenon, <1>t, <1>p DEF TakeActiveSenders
<1>3. drain' \in [Worker -> DrainState]
  <2> DEFINE d == drain[w]
             taken == {s \in bits[w] : WordOf(s) = WordAt(d.start, d.step)}
             late == {s \in taken : d.step = 0 /\ s < d.start}
             e == [d EXCEPT !.active = taken \ late,
                            !.wrapped = d.wrapped \cup late, !.step = d.step + 1]
  <2>1. taken \in SUBSET Worker /\ late \in SUBSET Worker
    BY <1>t
  <2>2. d.step + 1 \in 0..WordCount
    <3>1. d.step < WordCount /\ d.step \in 0..WordCount /\ WordCount \in Nat
      BY Zenon, <1>p, WordType DEF TakeActiveSenders
    <3> HIDE DEF d
    <3> QED BY <3>1
  <2>3. drain' = [drain EXCEPT ![w] = e]
    BY Zenon, <1>t DEF TakeActiveSenders
  <2>4. e \in DrainState
    <3>1. d \in DrainState /\ d.wrapped \in SUBSET Worker
      BY <1>t, <1>p
    <3> HIDE DEF d, taken, late
    <3>2. taken \ late \in SUBSET Worker /\ d.wrapped \cup late \in SUBSET Worker
      BY <2>1, <3>1
    <3> QED BY Zenon, <2>2, <3>1, <3>2 DEF DrainState
  <2> HIDE DEF e
  <2> QED BY <1>t, <2>3, <2>4
<1> QED BY Zenon, <1>1, <1>2, <1>3 DEF TakeActiveSenders, TypeOK, postVars, overVars, wakeVars, parkVars

LEMMA TypeVisitSender ==
    ASSUME TypeOK, NEW w \in Worker, VisitSender(w)
    PROVE  TypeOK'
<1>t. /\ LocationsOK
      /\ drain \in [Worker -> DrainState]
      /\ cursor \in [Worker -> [sender : Worker, consumed : 0..SenderQuota]]
  BY Zenon DEF TypeOK
<1>p. /\ drain[w].start \in Worker /\ drain[w].step \in 0..WordCount
      /\ drain[w].active \in SUBSET Worker /\ drain[w].wrapped \in SUBSET Worker
      /\ drain[w].sender \in Worker /\ drain[w].kind \in Kind
      /\ drain[w].n \in [Kind -> 0..BatchSize]
      /\ cursor[w].sender \in Worker /\ cursor[w].consumed \in 0..SenderQuota
  BY DrainType
<1>1. LocationsOK'
  BY <1>t, GotoType DEF VisitSender, WorkerLocations
<1>2. drain' \in [Worker -> DrainState]
  <2>1. PICK s \in Candidates(drain[w]) :
          drain' = [drain EXCEPT ![w].active = @ \ {s}, ![w].wrapped = @ \ {s},
                                 ![w].sender = s, ![w].kind = "req"]
    BY Zenon DEF VisitSender
  <2>2. s \in Worker /\ "req" \in Kind
    BY Zenon, <1>p DEF Candidates, Kind
  <2> DEFINE d == [drain[w] EXCEPT !.active = @ \ {s}, !.wrapped = @ \ {s},
                                   !.sender = s, !.kind = "req"]
  <2>3. d \in DrainState
    <3>1. /\ drain[w] \in DrainState /\ drain[w].active \ {s} \in SUBSET Worker
          /\ drain[w].wrapped \ {s} \in SUBSET Worker
      BY Zenon, <1>t, <1>p
    <3> QED BY Zenon, <2>2, <3>1 DEF DrainState
  <2>4. drain' = [drain EXCEPT ![w] = d]
    BY Zenon, <1>t, <2>1
  <2> HIDE DEF d
  <2> QED BY <1>t, <2>3, <2>4
<1>3. cursor' \in [Worker -> [sender : Worker, consumed : 0..SenderQuota]]
  <2>1. PICK s \in Candidates(drain[w]) :
          cursor' = [cursor EXCEPT ![w] =
                       IF BatchFull(drain[w].n) \/ @.sender = s THEN @
                       ELSE [sender |-> s, consumed |-> 0]]
    BY Zenon DEF VisitSender
  <2>2. s \in Worker /\ 0 \in 0..SenderQuota
    BY <1>p, SizesAssumption DEF Candidates
  <2> QED BY <1>t, <2>1, <2>2
<1> QED BY Zenon, <1>1, <1>2, <1>3 DEF VisitSender, TypeOK, postVars, laneVars, overVars, wakeVars, parkVars

LEMMA TypeDrainQueue ==
    ASSUME TypeOK, NEW w \in Worker, DrainQueue(w)
    PROVE  TypeOK'
<1>t. /\ LocationsOK
      /\ delivered \in SUBSET Msg
      /\ ring \in [Worker -> [Worker -> [Kind -> Seq(Msg)]]]
      /\ drain \in [Worker -> DrainState]
      /\ cursor \in [Worker -> [sender : Worker, consumed : 0..SenderQuota]]
  BY ZenonT(40) DEF TypeOK
<1>p. /\ drain[w].start \in Worker /\ drain[w].step \in 0..WordCount
      /\ drain[w].active \in SUBSET Worker /\ drain[w].wrapped \in SUBSET Worker
      /\ drain[w].sender \in Worker /\ drain[w].kind \in Kind
      /\ drain[w].n \in [Kind -> 0..BatchSize]
      /\ cursor[w].sender \in Worker /\ cursor[w].consumed \in 0..SenderQuota
  BY DrainType
<1> DEFINE q == ring[w][drain[w].sender][drain[w].kind]
           maximum == Lesser(BatchSize - drain[w].n[drain[w].kind],
                                 SenderQuota - cursor[w].consumed)
           count == Lesser(maximum, Len(q))
<1>m. q \in Seq(Msg) /\ maximum \in Nat
      /\ maximum <= BatchSize - drain[w].n[drain[w].kind]
      /\ maximum <= SenderQuota - cursor[w].consumed
  <2>1. q \in Seq(Msg)
    BY SMTT(30), <1>p, <1>t
  <2>2. drain[w].n[drain[w].kind] \in 0..BatchSize
    BY <1>p
  <2>3. /\ BatchSize - drain[w].n[drain[w].kind] \in Nat
        /\ SenderQuota - cursor[w].consumed \in Nat
    BY SizesAssumption, <1>p, <2>2
  <2> QED BY <2>1, <2>3 DEF Lesser
<1>d. /\ count \in 0..maximum /\ Rest(q, count) \in Seq(Msg)
      /\ \A i \in 1..Len(SubSeq(q, 1, count)) : SubSeq(q, 1, count)[i] \in Msg
  BY Zenon, <1>m, DequeueType
<1> DEFINE n == [drain[w].n EXCEPT ![drain[w].kind] = @ + count]
<1>n. n \in [Kind -> 0..BatchSize]
  <2>1. drain[w].n[drain[w].kind] + count \in 0..BatchSize
    <3> DEFINE a == drain[w].n[drain[w].kind]
    <3>1. a \in 0..BatchSize /\ maximum <= BatchSize - a
      BY Zenon, <1>p, <1>m
    <3>2. maximum \in Nat /\ count \in 0..maximum /\ BatchSize \in Nat
      BY Zenon, SizesAssumption, <1>m, <1>d
    <3> HIDE DEF maximum, count, a
    <3>3. a + count \in 0..BatchSize
      BY <3>1, <3>2
    <3> QED BY <3>3 DEF a
  <2> HIDE DEF count
  <2> QED BY <1>p, <2>1
<1>1. LocationsOK'
  BY Zenon, <1>t, GotoType DEF DrainQueue, WorkerLocations
<1>2. delivered' \in SUBSET Msg
  BY Zenon, <1>t, <1>d DEF DrainQueue, Deliver
<1>3. ring' \in [Worker -> [Worker -> [Kind -> Seq(Msg)]]]
  BY ZenonT(40), <1>t, <1>p, <1>d DEF DrainQueue
<1>4. drain' \in [Worker -> DrainState]
  <2> DEFINE d == [drain[w] EXCEPT !.n = n, !.kind = After(drain[w].kind)]
  <2>1. d \in DrainState
    <3>1. After(drain[w].kind) \in Kind
      BY <1>p, AfterType
    <3>2. drain[w] \in DrainState
      BY <1>t
    <3> HIDE DEF n
    <3> QED BY Zenon, <1>n, <3>1, <3>2 DEF DrainState
  <2>2. drain' = [drain EXCEPT ![w] = d]
    BY Zenon, <1>t DEF DrainQueue
  <2> HIDE DEF d
  <2> QED BY <1>t, <2>1, <2>2
<1>5. cursor' \in [Worker -> [sender : Worker, consumed : 0..SenderQuota]]
  <2> DEFINE consumed == cursor[w].consumed + count
  <2>1. consumed \in 0..SenderQuota
    <3> DEFINE a == cursor[w].consumed
    <3>1. a \in 0..SenderQuota /\ maximum <= SenderQuota - a
      BY Zenon, <1>p, <1>m
    <3>2. maximum \in Nat /\ count \in 0..maximum /\ SenderQuota \in Nat
      BY Zenon, SizesAssumption, <1>m, <1>d
    <3> HIDE DEF maximum, count, a
    <3>3. a + count \in 0..SenderQuota
      BY <3>1, <3>2
    <3> QED BY Zenon, <3>3 DEF a
  <2>2. AdvanceCursor(drain[w].sender, consumed, n)
          \in [sender : Worker, consumed : 0..SenderQuota]
    <3> HIDE DEF consumed, n
    <3> QED BY SizesAssumption, <1>p, <2>1 DEF AdvanceCursor, Worker
  <2>3. cursor' = [cursor EXCEPT ![w] =
                     IF drain[w].kind = "ntf"
                     THEN AdvanceCursor(drain[w].sender, consumed, n)
                     ELSE [sender |-> drain[w].sender, consumed |-> consumed]]
    BY Zenon DEF DrainQueue
  <2> HIDE DEF consumed, n
  <2> QED BY Zenon, <1>t, <1>p, <2>1, <2>2, <2>3
<1> QED BY Zenon, <1>1, <1>2, <1>3, <1>4, <1>5 DEF DrainQueue, TypeOK, overVars, wakeVars, parkVars

LEMMA TypeCloseLane ==
    ASSUME TypeOK, NEW w \in Worker, CloseLane(w)
    PROVE  TypeOK'
<1>t. /\ LocationsOK
      /\ active \in [Worker -> [Worker -> BOOLEAN]]
      /\ drain \in [Worker -> DrainState]
  BY Zenon DEF TypeOK
<1>p. /\ drain[w].start \in Worker /\ drain[w].step \in 0..WordCount
      /\ drain[w].active \in SUBSET Worker /\ drain[w].wrapped \in SUBSET Worker
      /\ drain[w].sender \in Worker /\ drain[w].kind \in Kind
      /\ drain[w].n \in [Kind -> 0..BatchSize]
      /\ cursor[w].sender \in Worker /\ cursor[w].consumed \in 0..SenderQuota
  BY DrainType
<1>1. LocationsOK'
  BY <1>t, GotoType DEF CloseLane, WorkerLocations
<1>2. active' \in [Worker -> [Worker -> BOOLEAN]]
  BY <1>t, <1>p DEF CloseLane
<1>3. drain' \in [Worker -> DrainState]
  <2>1. [drain[w] EXCEPT !.kind = "req"] \in DrainState
    <3>1. drain[w] \in DrainState /\ "req" \in Kind
      BY <1>t DEF Kind
    <3> QED BY <3>1 DEF DrainState
  <2>2. drain' = [drain EXCEPT ![w] = [drain[w] EXCEPT !.kind = "req"]]
    BY <1>t DEF CloseLane
  <2> QED BY <1>t, <2>1, <2>2
<1> QED BY Zenon, <1>1, <1>2, <1>3 DEF CloseLane, TypeOK, postVars, overVars, wakeVars, parkVars

LEMMA TypeRecheckLane ==
    ASSUME TypeOK, NEW w \in Worker, RecheckLane(w)
    PROVE  TypeOK'
<1>t. /\ LocationsOK
      /\ drain \in [Worker -> DrainState]
  BY DEF TypeOK
<1>p. /\ drain[w].start \in Worker /\ drain[w].step \in 0..WordCount
      /\ drain[w].active \in SUBSET Worker /\ drain[w].wrapped \in SUBSET Worker
      /\ drain[w].sender \in Worker /\ drain[w].kind \in Kind
      /\ drain[w].n \in [Kind -> 0..BatchSize]
      /\ cursor[w].sender \in Worker /\ cursor[w].consumed \in 0..SenderQuota
  BY DrainType
<1>1. LocationsOK'
  BY <1>t, GotoType DEF RecheckLane, WorkerLocations
<1>2. drain' \in [Worker -> DrainState]
  <2>1. [drain[w] EXCEPT !.kind = After(drain[w].kind)] \in DrainState
    BY <1>t, <1>p, AfterType DEF DrainState
  <2>2. drain' = [drain EXCEPT ![w] = [drain[w] EXCEPT !.kind = After(drain[w].kind)]]
    BY <1>t DEF RecheckLane
  <2> QED BY <1>t, <2>1, <2>2
<1> QED BY ZenonT(40), <1>1, <1>2 DEF RecheckLane, TypeOK, postVars, laneVars, overVars, wakeVars, parkVars

LEMMA TypeReopenLane ==
    ASSUME TypeOK, NEW w \in Worker, ReopenLane(w)
    PROVE  TypeOK'
<1>t. /\ LocationsOK
      /\ active \in [Worker -> [Worker -> BOOLEAN]]
  BY Zenon DEF TypeOK
<1>p. /\ drain[w].start \in Worker /\ drain[w].step \in 0..WordCount
      /\ drain[w].active \in SUBSET Worker /\ drain[w].wrapped \in SUBSET Worker
      /\ drain[w].sender \in Worker /\ drain[w].kind \in Kind
      /\ drain[w].n \in [Kind -> 0..BatchSize]
      /\ cursor[w].sender \in Worker /\ cursor[w].consumed \in 0..SenderQuota
  BY DrainType
<1>1. LocationsOK'
  BY ZenonT(30), <1>t, GotoType DEF ReopenLane, WorkerLocations
<1>2. active' \in [Worker -> [Worker -> BOOLEAN]]
  BY Zenon, <1>t, <1>p DEF ReopenLane
<1> QED BY Zenon, <1>1, <1>2 DEF ReopenLane, TypeOK, postVars, overVars, wakeVars, drainVars, parkVars

LEMMA TypeReactivateSender ==
    ASSUME TypeOK, NEW w \in Worker, ReactivateSender(w)
    PROVE  TypeOK'
<1>t. /\ LocationsOK
      /\ bits \in [Worker -> SUBSET Worker]
  BY Zenon DEF TypeOK
<1>p. /\ drain[w].start \in Worker /\ drain[w].step \in 0..WordCount
      /\ drain[w].active \in SUBSET Worker /\ drain[w].wrapped \in SUBSET Worker
      /\ drain[w].sender \in Worker /\ drain[w].kind \in Kind
      /\ drain[w].n \in [Kind -> 0..BatchSize]
      /\ cursor[w].sender \in Worker /\ cursor[w].consumed \in 0..SenderQuota
  BY DrainType
<1>1. LocationsOK'
  BY Zenon, <1>t, GotoType DEF ReactivateSender, WorkerLocations
<1>2. bits' \in [Worker -> SUBSET Worker]
  BY Zenon, <1>t, <1>p DEF ReactivateSender
<1> QED BY ZenonT(30), <1>1, <1>2 DEF ReactivateSender, TypeOK, postVars, overVars, wakeVars, drainVars, parkVars

LEMMA TypeEndScan ==
    ASSUME TypeOK, NEW w \in Worker, EndScan(w)
    PROVE  TypeOK'
<1>t. /\ LocationsOK
      /\ drain \in [Worker -> DrainState]
  BY DEF TypeOK
<1>p. /\ drain[w].start \in Worker /\ drain[w].step \in 0..WordCount
      /\ drain[w].active \in SUBSET Worker /\ drain[w].wrapped \in SUBSET Worker
      /\ drain[w].sender \in Worker /\ drain[w].kind \in Kind
      /\ drain[w].n \in [Kind -> 0..BatchSize]
      /\ cursor[w].sender \in Worker /\ cursor[w].consumed \in 0..SenderQuota
  BY DrainType
<1>1. LocationsOK'
  BY <1>t, GotoType DEF EndScan, WorkerLocations
<1>2. drain' \in [Worker -> DrainState]
  BY <1>t, <1>p DEF EndScan, DrainState, Kind
<1> QED BY Zenon, <1>1, <1>2 DEF EndScan, TypeOK, postVars, laneVars, overVars, wakeVars, parkVars

LEMMA TypeFinishDrain ==
    ASSUME TypeOK, NEW w \in Worker, FinishDrain(w)
    PROVE  TypeOK'
<1>t. /\ LocationsOK
      /\ wakeCqe \in [Worker -> BOOLEAN]
      /\ drain \in [Worker -> DrainState]
      /\ round \in [Worker -> {"quiet", "worked", "maintained"}]
  BY Zenon DEF TypeOK
<1>1. LocationsOK'
  BY ZenonT(30), <1>t, GotoType DEF FinishDrain, WorkerLocations
<1>2. drain' \in [Worker -> DrainState]
  BY Zenon, <1>t, NoDrainType DEF FinishDrain
<1>3. round' \in [Worker -> {"quiet", "worked", "maintained"}]
  BY Zenon, <1>t DEF FinishDrain
<1>4. wakeCqe' \in [Worker -> BOOLEAN]
  BY Zenon, <1>t DEF FinishDrain
<1> QED BY ZenonT(30), <1>1, <1>2, <1>3, <1>4 DEF FinishDrain, TypeOK, postVars, laneVars, overVars, wakeVars, parkVars

LEMMA TypeFinishParkingDrain ==
    ASSUME TypeOK, NEW w \in Worker, FinishParkingDrain(w)
    PROVE  TypeOK'
<1>t. /\ LocationsOK
      /\ drain \in [Worker -> DrainState]
      /\ parking \in [Worker -> BOOLEAN]
      /\ seq \in [Worker -> 0..(SeqMod - 1)]
      /\ bumps \in [Worker -> 0..(SeqMod - 1)]
  BY Zenon DEF TypeOK
<1>1. LocationsOK'
  BY <1>t, GotoType DEF FinishParkingDrain, WorkerLocations
<1>2. drain' \in [Worker -> DrainState]
  BY Zenon, <1>t, NoDrainType DEF FinishParkingDrain
<1>3. parking' \in [Worker -> BOOLEAN]
  BY Zenon, <1>t DEF FinishParkingDrain, StopParking, parkVars
<1>4. seq' \in [Worker -> 0..(SeqMod - 1)]
  BY SizesAssumption, <1>t DEF FinishParkingDrain, StopParking, parkVars
<1>5. bumps' \in [Worker -> 0..(SeqMod - 1)]
  BY SizesAssumption, <1>t DEF FinishParkingDrain, StopParking, parkVars
<1> QED BY ZenonT(30), <1>1, <1>2, <1>3, <1>4, <1>5 DEF FinishParkingDrain, TypeOK, postVars, laneVars, overVars, wakeVars

LEMMA TypePublishLane ==
    ASSUME TypeOK, FlushOK, NEW w \in Worker, PublishLane(w)
    PROVE  TypeOK'
<1>t. /\ LocationsOK
      /\ active \in [Worker -> [Worker -> BOOLEAN]]
      /\ wakeList \in [Worker -> Seq(Worker)]
  BY Zenon DEF TypeOK
<1>p. Head(wakeList[w]) \in Worker /\ Tail(wakeList[w]) \in Seq(Worker)
  BY ZenonT(30), <1>t, HeadTailProperties DEF PublishLane, FlushOK
<1>1. LocationsOK'
  BY Zenon, <1>t, GotoType DEF PublishLane, WorkerLocations
<1>2. active' \in [Worker -> [Worker -> BOOLEAN]]
  BY Zenon, <1>t, <1>p DEF PublishLane
<1> QED BY ZenonT(30), <1>1, <1>2 DEF PublishLane, TypeOK, postVars, overVars, wakeVars, drainVars, parkVars

LEMMA TypePublishSender ==
    ASSUME TypeOK, FlushOK, NEW w \in Worker, PublishSender(w)
    PROVE  TypeOK'
<1>t. /\ LocationsOK
      /\ bits \in [Worker -> SUBSET Worker]
      /\ wakeList \in [Worker -> Seq(Worker)]
  BY Zenon DEF TypeOK
<1>p. Head(wakeList[w]) \in Worker /\ Tail(wakeList[w]) \in Seq(Worker)
  BY <1>t, HeadTailProperties DEF PublishSender, FlushOK
<1>1. LocationsOK'
  BY <1>t, GotoType DEF PublishSender, WorkerLocations
<1>2. bits' \in [Worker -> SUBSET Worker]
  BY <1>t, <1>p DEF PublishSender
<1> QED BY ZenonT(30), <1>1, <1>2 DEF PublishSender, TypeOK, postVars, overVars, wakeVars, drainVars, parkVars

LEMMA TypeBumpTarget ==
    ASSUME TypeOK, FlushOK, NEW w \in Worker, BumpTarget(w)
    PROVE  TypeOK'
<1>t. /\ LocationsOK
      /\ wakePending \in [Worker -> [Worker -> 0..2]]
      /\ wakeList \in [Worker -> Seq(Worker)]
      /\ outbox \in [Worker -> SUBSET Worker]
  BY Zenon DEF TypeOK
<1>p. Head(wakeList[w]) \in Worker /\ Tail(wakeList[w]) \in Seq(Worker)
  BY Zenon, <1>t, HeadTailProperties DEF BumpTarget, FlushOK
<1>1. LocationsOK'
  BY Zenon, <1>t, GotoType DEF BumpTarget, WorkerLocations
<1>2. wakeSeq' \in [Worker -> 0..(SeqMod - 1)]
  BY <1>p, BumpType DEF BumpTarget
<1>3. bumps' \in [Worker -> 0..(SeqMod - 1)]
  BY <1>p, BumpType DEF BumpTarget
<1>4. wakePending' \in [Worker -> [Worker -> 0..2]]
  BY <1>t, <1>p DEF BumpTarget
<1>5. wakeList' \in [Worker -> Seq(Worker)]
  BY <1>t, <1>p DEF BumpTarget
<1>6. outbox' \in [Worker -> SUBSET Worker]
  BY <1>t, <1>p DEF BumpTarget
<1> QED BY ZenonT(30), <1>1, <1>2, <1>3, <1>4, <1>5, <1>6 DEF BumpTarget, TypeOK, postVars, laneVars, overVars, drainVars

LEMMA TypeSubmit ==
    ASSUME TypeOK, NEW w \in Worker, Submit(w)
    PROVE  TypeOK'
<1>t. /\ LocationsOK
      /\ outbox \in [Worker -> SUBSET Worker]
      /\ round \in [Worker -> {"quiet", "worked", "maintained"}]
  BY Zenon DEF TypeOK
<1>1. LocationsOK'
  BY Zenon, <1>t, GotoType DEF Submit, EndFlush, WorkerLocations
<1>2. wakeCqe' \in [Worker -> BOOLEAN]
  BY Zenon DEF Submit
<1>3. outbox' \in [Worker -> SUBSET Worker]
  BY <1>t DEF Submit
<1>4. round' \in [Worker -> {"quiet", "worked", "maintained"}]
  BY Zenon, <1>t DEF Submit, EndFlush
<1> QED BY ZenonT(30), <1>1, <1>2, <1>3, <1>4 DEF Submit, TypeOK, postVars, laneVars, overVars, drainVars, parkVars

LEMMA TypeSubmitUnavailable ==
    ASSUME TypeOK, NEW w \in Worker, SubmitUnavailable(w)
    PROVE  TypeOK'
<1>t. /\ LocationsOK
      /\ round \in [Worker -> {"quiet", "worked", "maintained"}]
  BY Zenon DEF TypeOK
<1>1. LocationsOK'
  BY ZenonT(30), <1>t, GotoType DEF SubmitUnavailable, EndFlush, WorkerLocations
<1>2. round' \in [Worker -> {"quiet", "worked", "maintained"}]
  BY Zenon, <1>t DEF SubmitUnavailable, EndFlush
<1> QED BY ZenonT(30), <1>1, <1>2 DEF SubmitUnavailable, TypeOK, postVars, laneVars, overVars, wakeVars, drainVars, parkVars

LEMMA TypeBusyPoll ==
    ASSUME TypeOK, NEW w \in Worker, BusyPoll(w)
    PROVE  TypeOK'
<1>t. LocationsOK
  BY Zenon DEF TypeOK
<1>1. LocationsOK'
  BY <1>t, GotoType DEF BusyPoll, WorkerLocations
<1> QED BY ZenonT(30), <1>1 DEF BusyPoll, TypeOK, postVars, laneVars, overVars, wakeVars, drainVars, parkVars

LEMMA TypeSnapshot ==
    ASSUME TypeOK, NEW w \in Worker, Snapshot(w)
    PROVE  TypeOK'
<1>t. /\ LocationsOK
      /\ wakeSeq \in [Worker -> 0..(SeqMod - 1)]
      /\ parking \in [Worker -> BOOLEAN]
      /\ seq \in [Worker -> 0..(SeqMod - 1)]
      /\ bumps \in [Worker -> 0..(SeqMod - 1)]
  BY Zenon DEF TypeOK
<1>1. LocationsOK'
  BY <1>t, GotoType DEF Snapshot, WorkerLocations
<1>2. parking' \in [Worker -> BOOLEAN]
  BY <1>t DEF Snapshot
<1>3. seq' \in [Worker -> 0..(SeqMod - 1)]
  BY <1>t DEF Snapshot
<1>4. bumps' \in [Worker -> 0..(SeqMod - 1)]
  BY SizesAssumption, <1>t DEF Snapshot
<1> QED BY ZenonT(30), <1>1, <1>2, <1>3, <1>4 DEF Snapshot, TypeOK, postVars, laneVars, overVars, wakeVars, drainVars

LEMMA TypePark ==
    ASSUME TypeOK, NEW w \in Worker, Park(w)
    PROVE  TypeOK'
<1>t. /\ LocationsOK
      /\ wakeSeq \in [Worker -> 0..(SeqMod - 1)]
      /\ parking \in [Worker -> BOOLEAN]
      /\ seq \in [Worker -> 0..(SeqMod - 1)]
      /\ bumps \in [Worker -> 0..(SeqMod - 1)]
  BY DEF TypeOK
<1>1. LocationsOK'
  BY <1>t, GotoType DEF Park, WorkerLocations
<1>2. wakeSeq' \in [Worker -> 0..(SeqMod - 1)]
  BY SizesAssumption, <1>t DEF Park
<1>3. parking' \in [Worker -> BOOLEAN]
  BY <1>t DEF Park, StopParking
<1>4. seq' \in [Worker -> 0..(SeqMod - 1)]
  BY SizesAssumption, <1>t DEF Park, StopParking
<1>5. bumps' \in [Worker -> 0..(SeqMod - 1)]
  BY SizesAssumption, <1>t DEF Park, StopParking
<1> QED BY ZenonT(30), <1>1, <1>2, <1>3, <1>4, <1>5 DEF Park, TypeOK, postVars, laneVars, overVars, wakeVars, drainVars

LEMMA TypeWake ==
    ASSUME TypeOK, NEW w \in Worker, Wake(w)
    PROVE  TypeOK'
<1>t. /\ LocationsOK
      /\ wakeCqe \in [Worker -> BOOLEAN]
  BY Zenon DEF TypeOK
<1>1. LocationsOK'
  BY <1>t, GotoType DEF Wake, WorkerLocations
<1>2. wakeCqe' \in [Worker -> BOOLEAN]
  BY <1>t DEF Wake
<1> QED BY ZenonT(30), <1>1, <1>2 DEF Wake, TypeOK, postVars, laneVars, overVars, wakeVars, drainVars, parkVars

LEMMA TypeWakeOther ==
    ASSUME TypeOK, NEW w \in Worker, WakeOther(w)
    PROVE  TypeOK'
<1>t. LocationsOK
  BY DEF TypeOK
<1>1. LocationsOK'
  BY <1>t, GotoType DEF WakeOther, WorkerLocations
<1> QED BY ZenonT(30), <1>1 DEF WakeOther, TypeOK, postVars, laneVars, overVars, wakeVars, drainVars, parkVars

LEMMA TypeUnpark ==
    ASSUME TypeOK, NEW w \in Worker, Unpark(w)
    PROVE  TypeOK'
<1>t. /\ LocationsOK
      /\ wakeSeq \in [Worker -> 0..(SeqMod - 1)]
  BY Zenon DEF TypeOK
<1>1. LocationsOK'
  BY <1>t, GotoType DEF Unpark, WorkerLocations
<1>2. wakeSeq' \in [Worker -> 0..(SeqMod - 1)]
  BY SizesAssumption, <1>t DEF Unpark
<1> QED BY ZenonT(30), <1>1, <1>2 DEF Unpark, TypeOK, postVars, laneVars, overVars, wakeVars, drainVars, parkVars

LEMMA TypeForeignPost ==
    ASSUME TypeOK, NEW f \in Foreign, NEW m \in Ntf, NEW t \in Worker, ForeignPost(f, m, t)
    PROVE  TypeOK'
<1>t. /\ LocationsOK
      /\ post \in [Thread -> [target : Worker, msg : Msg, queued : BOOLEAN]]
      /\ idle \in SUBSET Msg
      /\ overflow \in [Worker -> [Kind -> Seq(Msg)]]
  BY Zenon DEF TypeOK
<1>q. /\ f \in Thread /\ m \in Msg /\ "ntf" \in Kind
      /\ Append(overflow[t]["ntf"], m) \in Seq(Msg)
  BY <1>t DEF Thread, Msg, Kind
<1>1. LocationsOK'
  BY <1>t, GotoForeignType DEF ForeignPost, ForeignLocations
<1>2. idle' \in SUBSET Msg
  BY <1>t DEF ForeignPost
<1>3. post' \in [Thread -> [target : Worker, msg : Msg, queued : BOOLEAN]]
  BY Zenon, <1>t, <1>q DEF ForeignPost
<1>4. overflow' \in [Worker -> [Kind -> Seq(Msg)]]
  BY <1>t, <1>q DEF ForeignPost
<1> QED BY ZenonT(30), <1>1, <1>2, <1>3, <1>4 DEF ForeignPost, TypeOK, laneVars, wakeVars, drainVars, parkVars

LEMMA TypeForeignFlag ==
    ASSUME TypeOK, NEW f \in Foreign, ForeignFlag(f)
    PROVE  TypeOK'
<1>t. /\ LocationsOK
      /\ overflowPending \in [Worker -> BOOLEAN]
  BY Zenon DEF TypeOK
<1>p. post[f].target \in Worker
  BY Zenon, PostType DEF Thread
<1>1. LocationsOK'
  BY Zenon, <1>t, GotoForeignType DEF ForeignFlag, ForeignLocations
<1>2. overflowPending' \in [Worker -> BOOLEAN]
  BY <1>t, <1>p DEF ForeignFlag
<1> QED BY ZenonT(30), <1>1, <1>2 DEF ForeignFlag, TypeOK, postVars, laneVars, wakeVars, drainVars, parkVars

LEMMA TypeForeignBump ==
    ASSUME TypeOK, NEW f \in Foreign, ForeignBump(f)
    PROVE  TypeOK'
<1>t. LocationsOK
  BY Zenon DEF TypeOK
<1>p. post[f].target \in Worker
  BY PostType DEF Thread
<1>1. LocationsOK'
  BY ZenonT(30), <1>t, GotoForeignType DEF ForeignBump, ForeignLocations
<1>2. wakeSeq' \in [Worker -> 0..(SeqMod - 1)]
  BY Zenon, <1>p, BumpType DEF ForeignBump
<1>3. bumps' \in [Worker -> 0..(SeqMod - 1)]
  BY Zenon, <1>p, BumpType DEF ForeignBump
<1> QED BY ZenonT(30), <1>1, <1>2, <1>3 DEF ForeignBump, TypeOK, postVars, laneVars, overVars, wakeVars, drainVars

LEMMA TypeForeignWake ==
    ASSUME TypeOK, NEW f \in Foreign, ForeignWake(f)
    PROVE  TypeOK'
<1>t. /\ LocationsOK
      /\ wakeCqe \in [Worker -> BOOLEAN]
  BY Zenon DEF TypeOK
<1>p. post[f].target \in Worker
  BY PostType DEF Thread
<1>1. LocationsOK'
  BY Zenon, <1>t, GotoForeignType DEF ForeignWake, ForeignLocations
<1>2. wakeCqe' \in [Worker -> BOOLEAN]
  BY <1>t, <1>p DEF ForeignWake
<1> QED BY ZenonT(30), <1>1, <1>2 DEF ForeignWake, TypeOK, postVars, laneVars, overVars, wakeVars, drainVars, parkVars

(* Every step keeps the types.                                             *)
LEMMA TypeNext == TypeOK /\ FlushOK /\ [Next]_vars => TypeOK'
<1> SUFFICES ASSUME TypeOK, FlushOK, [Next]_vars PROVE TypeOK'
  OBVIOUS
<1>1. CASE UNCHANGED vars
  BY Zenon, <1>1 DEF TypeOK, LocationsOK, vars, postVars, laneVars, overVars, wakeVars,
              drainVars, parkVars
<1>2. ASSUME NEW w \in Worker, PostStep(w) PROVE TypeOK'
  BY <1>2, TypeTryEnqueue, TypeEnqueueOverflow, TypeFlagOverflow, TypeMarkWake,
     TypeActivateSender
     DEF PostStep
<1>3. ASSUME NEW w \in Worker, DrainStep(w) PROVE TypeOK'
  BY SMTT(30), <1>3, TypeStartDrain, TypeDrainOverflow, TypeTakeActiveSenders,
     TypeVisitSender, TypeDrainQueue, TypeCloseLane, TypeRecheckLane,
     TypeReopenLane, TypeReactivateSender, TypeEndScan, TypeFinishDrain,
     TypeFinishParkingDrain
     DEF DrainStep
<1>4. ASSUME NEW w \in Worker, RoundStep(w) PROVE TypeOK'
  BY <1>4, TypePublishLane, TypePublishSender, TypeBumpTarget, TypeSubmit,
     TypeBusyPoll, TypeSnapshot, TypePark, TypeWake, TypeUnpark
     DEF RoundStep
<1>5. ASSUME NEW f \in Foreign, ForeignStep(f) PROVE TypeOK'
  BY <1>5, TypeForeignFlag, TypeForeignBump, TypeForeignWake DEF ForeignStep
<1> QED BY <1>1, <1>2, <1>3, <1>4, <1>5, TypePost, TypeSubmitUnavailable,
           TypeWakeOther, TypeForeignPost
    DEF Next, Step

(* FlushWakes reaches a target only with one in wake_list_.                *)
LEMMA FlushNext == TypeOK /\ FlushOK /\ [Next]_vars => FlushOK'
<1> SUFFICES ASSUME TypeOK, FlushOK, [Next]_vars,
                    NEW s \in Worker, pc'[s] \in {"pubbit", "bump"}
             PROVE  wakeList'[s] # <<>>
  BY DEF FlushOK
<1>t. /\ pc \in [Thread -> WorkerLocations \cup ForeignLocations]
      /\ wakeList \in [Worker -> Seq(Worker)] /\ s \in Thread
      /\ pc[s] \in {"pubbit", "bump"} => wakeList[s] # <<>>
  BY Zenon DEF TypeOK, LocationsOK, Thread, FlushOK
<1>1. ASSUME NEW w \in Worker, NEW m \in Msg, NEW t \in Worker, Post(w, m, t)
      PROVE  wakeList'[s] # <<>>
  BY Zenon, <1>t, <1>1 DEF Post, Goto, wakeVars
<1>2. ASSUME NEW w \in Worker, TryEnqueue(w) PROVE wakeList'[s] # <<>>
  BY Zenon, <1>t, <1>2 DEF TryEnqueue, Goto, wakeVars
<1>3. ASSUME NEW w \in Worker, EnqueueOverflow(w) PROVE wakeList'[s] # <<>>
  BY Zenon, <1>t, <1>3 DEF EnqueueOverflow, Goto, wakeVars
<1>4. ASSUME NEW w \in Worker, FlagOverflow(w) PROVE wakeList'[s] # <<>>
  BY Zenon, <1>t, <1>4 DEF FlagOverflow, Goto, wakeVars
<1>5. ASSUME NEW w \in Worker, MarkWake(w) PROVE wakeList'[s] # <<>>
  BY Zenon, <1>t, <1>5 DEF MarkWake, Goto, Return
<1>6. ASSUME NEW w \in Worker, ActivateSender(w) PROVE wakeList'[s] # <<>>
  BY Zenon, <1>t, <1>6 DEF ActivateSender, Goto, Return, wakeVars
<1>7. ASSUME NEW w \in Worker, StartDrain(w) PROVE wakeList'[s] # <<>>
  BY <1>t, <1>7 DEF StartDrain, Goto, wakeVars
<1>8. ASSUME NEW w \in Worker, DrainOverflow(w) PROVE wakeList'[s] # <<>>
  BY Zenon, <1>t, <1>8 DEF DrainOverflow, Goto, wakeVars
<1>9. ASSUME NEW w \in Worker, TakeActiveSenders(w) PROVE wakeList'[s] # <<>>
  <2>1. UNCHANGED <<pc, wakeList>>
    BY <1>9, Zenon DEF TakeActiveSenders, wakeVars
  <2> QED BY <1>t, <2>1
<1>10. ASSUME NEW w \in Worker, VisitSender(w) PROVE wakeList'[s] # <<>>
  BY <1>t, <1>10 DEF VisitSender, Goto, wakeVars
<1>11. ASSUME NEW w \in Worker, DrainQueue(w) PROVE wakeList'[s] # <<>>
  <2>1. /\ pc' = [pc EXCEPT ![w] = IF drain[w].kind = "ntf" THEN "close" ELSE "dequeue"]
        /\ UNCHANGED wakeList
    BY <1>11, Zenon DEF DrainQueue, Goto, wakeVars
  <2> QED BY <1>t, <2>1
<1>12. ASSUME NEW w \in Worker, CloseLane(w) PROVE wakeList'[s] # <<>>
  BY <1>t, <1>12 DEF CloseLane, Goto, wakeVars
<1>13. ASSUME NEW w \in Worker, RecheckLane(w) PROVE wakeList'[s] # <<>>
  BY Zenon, <1>t, <1>13 DEF RecheckLane, Goto, wakeVars
<1>14. ASSUME NEW w \in Worker, ReopenLane(w) PROVE wakeList'[s] # <<>>
  BY Zenon, <1>t, <1>14 DEF ReopenLane, Goto, wakeVars
<1>15. ASSUME NEW w \in Worker, ReactivateSender(w) PROVE wakeList'[s] # <<>>
  BY Zenon, <1>t, <1>15 DEF ReactivateSender, Goto, wakeVars
<1>16. ASSUME NEW w \in Worker, EndScan(w) PROVE wakeList'[s] # <<>>
  BY <1>t, <1>16 DEF EndScan, Goto, wakeVars
<1>17. ASSUME NEW w \in Worker, FinishDrain(w) PROVE wakeList'[s] # <<>>
  BY <1>t, <1>17 DEF FinishDrain, Goto, wakeVars
<1>18. ASSUME NEW w \in Worker, FinishParkingDrain(w) PROVE wakeList'[s] # <<>>
  BY Zenon, <1>t, <1>18 DEF FinishParkingDrain, Goto, wakeVars
<1>19. ASSUME NEW w \in Worker, PublishLane(w) PROVE wakeList'[s] # <<>>
  BY Zenon, <1>t, <1>19 DEF PublishLane, Goto, wakeVars
<1>20. ASSUME NEW w \in Worker, PublishSender(w) PROVE wakeList'[s] # <<>>
  BY <1>t, <1>20 DEF PublishSender, Goto, wakeVars
<1>21. ASSUME NEW w \in Worker, BumpTarget(w) PROVE wakeList'[s] # <<>>
  BY <1>t, <1>21 DEF BumpTarget, Goto
<1>22. ASSUME NEW w \in Worker, Submit(w) PROVE wakeList'[s] # <<>>
  BY Zenon, <1>t, <1>22 DEF Submit, Goto, EndFlush
<1>23. ASSUME NEW w \in Worker, SubmitUnavailable(w) PROVE wakeList'[s] # <<>>
  BY Zenon, <1>t, <1>23 DEF SubmitUnavailable, Goto, EndFlush, wakeVars
<1>24. ASSUME NEW w \in Worker, BusyPoll(w) PROVE wakeList'[s] # <<>>
  BY <1>t, <1>24 DEF BusyPoll, Goto, wakeVars
<1>25. ASSUME NEW w \in Worker, Snapshot(w) PROVE wakeList'[s] # <<>>
  BY <1>t, <1>25 DEF Snapshot, Goto, wakeVars
<1>26. ASSUME NEW w \in Worker, Park(w) PROVE wakeList'[s] # <<>>
  BY <1>t, <1>26 DEF Park, Goto, wakeVars
<1>27. ASSUME NEW w \in Worker, Wake(w) PROVE wakeList'[s] # <<>>
  BY <1>t, <1>27 DEF Wake, Goto, wakeVars
<1>28. ASSUME NEW w \in Worker, WakeOther(w) PROVE wakeList'[s] # <<>>
  BY Zenon, <1>t, <1>28 DEF WakeOther, Goto, wakeVars
<1>29. ASSUME NEW w \in Worker, Unpark(w) PROVE wakeList'[s] # <<>>
  BY Zenon, <1>t, <1>29 DEF Unpark, Goto, wakeVars
<1>30. ASSUME NEW f \in Foreign, NEW m \in Ntf, NEW t \in Worker,
             ForeignPost(f, m, t)
      PROVE  wakeList'[s] # <<>>
  BY <1>t, <1>30, NamesAssumption DEF ForeignPost, Goto, wakeVars
<1>31. ASSUME NEW f \in Foreign, ForeignFlag(f) PROVE wakeList'[s] # <<>>
  BY Zenon, <1>t, <1>31, NamesAssumption DEF ForeignFlag, Goto, wakeVars
<1>32. ASSUME NEW f \in Foreign, ForeignBump(f) PROVE wakeList'[s] # <<>>
  BY Zenon, <1>t, <1>32, NamesAssumption DEF ForeignBump, Goto, wakeVars
<1>33. ASSUME NEW f \in Foreign, ForeignWake(f) PROVE wakeList'[s] # <<>>
  BY Zenon, <1>t, <1>33, NamesAssumption DEF ForeignWake, Goto, wakeVars
<1>34. CASE UNCHANGED vars
  BY <1>t, <1>34 DEF vars, wakeVars
<1> QED BY ZenonT(30), <1>1, <1>2, <1>3, <1>4, <1>5, <1>6, <1>7, <1>8, <1>9, <1>10, <1>11,
           <1>12, <1>13, <1>14, <1>15, <1>16, <1>17, <1>18, <1>19, <1>20,
           <1>21, <1>22, <1>23, <1>24, <1>25, <1>26, <1>27, <1>28, <1>29,
           <1>30, <1>31, <1>32, <1>33, <1>34
    DEF Next, Step, PostStep, DrainStep, RoundStep, ForeignStep

(* Type correctness of lanes, mailboxes, drains and parking workers.       *)
THEOREM TypeCorrect == Spec => []TypeOK
<1>1. Init => TypeOK /\ FlushOK
  BY Zenon, TypeInit DEF Init, FlushOK, Thread
<1>2. TypeOK /\ FlushOK /\ [Next]_vars => (TypeOK /\ FlushOK)'
  BY TypeNext, FlushNext
<1> QED BY <1>1, <1>2, PTL DEF Spec
=============================================================================
