------------------------ MODULE CrossCoreWakeProofs ------------------------
(***************************************************************************)
(* No message is left in a lane that nobody will look at: LaneInv is       *)
(* inductive.  On top of it, no wakeup is lost: IInv is inductive.  Both   *)
(* for any number of workers and foreign threads and any sizes.  For the   *)
(* second a step of a thread is seen twice: what it does to the other      *)
(* workers (RemoteKeeps), and what the drains and the parking of a worker  *)
(* do to itself (the Own lemmas).                                          *)
(***************************************************************************)
EXTENDS CrossCoreProofs

(* The elements of a sequence that grows at its end, or loses its head.    *)
LEMMA AppendHas ==
    ASSUME NEW S, NEW q \in Seq(S), NEW e \in S
    PROVE  /\ \E i \in 1..Len(Append(q, e)) : Append(q, e)[i] = e
           /\ \A i \in 1..Len(q) : /\ i \in 1..Len(Append(q, e))
                                    /\ Append(q, e)[i] = q[i]
           /\ q # <<>> => Head(Append(q, e)) = Head(q)
<1>1. /\ Len(q) \in Nat /\ Len(Append(q, e)) = Len(q) + 1
      /\ Append(q, e)[Len(q) + 1] = e
      /\ \A i \in 1..Len(q) : Append(q, e)[i] = q[i]
  BY AppendProperties, LenProperties
<1>2. q # <<>> => 1 \in 1..Len(q)
  BY <1>1, EmptySeq
<1>3. /\ \A i \in 1..Len(q) : i \in 1..Len(Append(q, e))
      /\ Len(q) + 1 \in 1..Len(Append(q, e))
  BY <1>1
<1> QED BY <1>1, <1>2, <1>3

LEMMA TailHas ==
    ASSUME NEW S, NEW q \in Seq(S), q # <<>>,
           NEW i \in 1..Len(q), q[i] # Head(q)
    PROVE  \E j \in 1..Len(Tail(q)) : Tail(q)[j] = q[i]
<1>1. /\ Len(q) \in Nat \ {0} /\ Len(Tail(q)) = Len(q) - 1
      /\ \A j \in 1..Len(Tail(q)) : Tail(q)[j] = q[j + 1]
      /\ Head(q) = q[1]
  OBVIOUS
<1>2. i - 1 \in 1..Len(Tail(q)) /\ (i - 1) + 1 = i
  BY <1>1
<1>3. Tail(q)[i - 1] = q[i]
  BY <1>1, <1>2
<1> QED BY Zenon, <1>2, <1>3

(* wake_list_ and wake_pending_ are touched by their own thread only.      *)
LEMMA WakeListFrame ==
    ASSUME WakeListOK, NEW p \in Thread, NEW l,
           pc \in [Thread -> WorkerLocations \cup ForeignLocations],
           \A u \in Worker : u \in Thread,
           l # "pubbit", pc' = [pc EXCEPT ![p] = l],
           UNCHANGED <<wakePending, wakeList>>
    PROVE  WakeListOK'
<1>1. \A u \in Worker : pc'[u] = "pubbit" => pc[u] = "pubbit"
  OBVIOUS
<1> QED BY <1>1 DEF WakeListOK, InList

(* A step of thread p that leaves the lanes alone: p moves from a place    *)
(* where nothing depends on it to one outside FlushWakes, and holds no     *)
(* sender before or after.                                                 *)
LaneQuiet(p) ==
    /\ pc[p] \notin {"mark", "setbit", "pubbit", "dequeue", "close", "recheck",
                     "reopen", "rebit"}
    /\ \E l : l \notin {"pubbit", "bump"} /\ pc' = [pc EXCEPT ![p] = l]
    /\ UNCHANGED <<ring, active, bits, wakePending, wakeList>>
    /\ \A t \in Thread \ {p} : post'[t] = post[t]
    /\ \A r \in Worker \ {p} : drain'[r] = drain[r]
    /\ p \in Worker => /\ drain[p].active = {} /\ drain[p].wrapped = {}
                       /\ drain'[p].active = {} /\ drain'[p].wrapped = {}

LEMMA LaneFrame ==
    ASSUME LaneInv, NEW p \in Thread, LaneQuiet(p)
    PROVE  (WakeListOK /\ TakenOK /\ ActiveLaneOK /\ NonemptyLaneOK)'
<1>i. /\ TypeOK /\ WakeListOK /\ TakenOK /\ ActiveLaneOK /\ NonemptyLaneOK
  BY DEF LaneInv
<1>q. PICK l : l \notin {"pubbit", "bump"} /\ pc' = [pc EXCEPT ![p] = l]
  BY Zenon DEF LaneQuiet
<1>t. /\ pc \in [Thread -> WorkerLocations \cup ForeignLocations]
      /\ \A w \in Worker : w \in Thread
  BY Zenon, <1>i DEF TypeOK, LocationsOK, Thread
<1>1. WakeListOK'
  BY <1>i, <1>q, <1>t DEF LaneQuiet, WakeListOK, InList
<1>2. TakenOK'
  BY Zenon, <1>i, <1>q, <1>t DEF LaneQuiet, TakenOK
<1>3. ActiveLaneOK'
  <2> SUFFICES ASSUME NEW r \in Worker, NEW s \in Worker, active[r][s]
               PROVE  Held(r, s)'
    BY DEF ActiveLaneOK, LaneQuiet
  <2>1. Held(r, s)
    BY <1>i DEF ActiveLaneOK
  <2> QED BY Zenon, <1>q, <1>t, <2>1 DEF LaneQuiet, Held
<1>4. NonemptyLaneOK'
  <2> SUFFICES ASSUME NEW r \in Worker, NEW s \in Worker, NEW k \in Kind,
                      ring[r][s][k] # <<>>
               PROVE  Announced(r, s, k)'
    BY DEF NonemptyLaneOK, LaneQuiet
  <2>1. Announced(r, s, k)
    BY <1>i DEF NonemptyLaneOK
  <2> QED BY Zenon, <1>q, <1>t, <2>1 DEF LaneQuiet, Announced
<1> QED BY <1>1, <1>2, <1>3, <1>4

LEMMA LaneTryEnqueue ==
    ASSUME LaneInv, NEW w \in Worker, TryEnqueue(w)
    PROVE  (WakeListOK /\ TakenOK /\ ActiveLaneOK /\ NonemptyLaneOK)'
<1>i. /\ TypeOK /\ FlushOK /\ WakeListOK /\ TakenOK
      /\ ActiveLaneOK /\ NonemptyLaneOK
  BY DEF LaneInv
<1>t. /\ pc \in [Thread -> WorkerLocations \cup ForeignLocations]
      /\ \A u \in Worker : u \in Thread
      /\ post \in [Thread -> [target : Worker, msg : Msg, queued : BOOLEAN]]
      /\ ring \in [Worker -> [Worker -> [Kind -> Seq(Msg)]]]
  BY Zenon, <1>i DEF TypeOK, LocationsOK, Thread
<1>1. WakeListOK'
  <2>1. /\ UNCHANGED <<wakePending, wakeList>>
        /\ \E l : l # "pubbit" /\ pc' = [pc EXCEPT ![w] = l]
    BY ZenonT(30) DEF TryEnqueue, Goto, wakeVars
  <2> QED BY Zenon, <1>i, <1>t, <2>1, WakeListFrame
<1>2. TakenOK'
  BY Zenon, <1>i, <1>t DEF TryEnqueue, Goto, TakenOK, Scanning, laneVars, wakeVars, drainVars, postVars
<1>3. ActiveLaneOK'
  <2> SUFFICES ASSUME NEW r \in Worker, NEW s \in Worker, active'[r][s]
               PROVE  Held(r, s)'
    BY Zenon DEF ActiveLaneOK
  <2>1. active[r][s] => Held(r, s)
    BY <1>i DEF ActiveLaneOK
  <2> QED BY Zenon, <1>i, <1>t, <2>1 DEF TryEnqueue, Goto, Held, laneVars, wakeVars, drainVars, postVars
<1>4. NonemptyLaneOK'
  <2> SUFFICES ASSUME NEW r \in Worker, NEW s \in Worker, NEW k \in Kind,
                      ring'[r][s][k] # <<>>
               PROVE  Announced(r, s, k)'
    BY DEF NonemptyLaneOK
  <2>1. ring[r][s][k] # <<>> => Announced(r, s, k)
    BY <1>i DEF NonemptyLaneOK
  <2> DEFINE t == post[w].target
             m == post[w].msg
  <2>2. pc[w] = "enqueue" /\ t \in Worker /\ UNCHANGED <<active, wakePending, wakeList, drain>>
    BY Zenon, <1>t DEF TryEnqueue, wakeVars, drainVars
  <2>3. CASE ring'[r][s][k] = ring[r][s][k]
    <3>1. Announced(r, s, k)
      BY <2>1, <2>3
    <3>2. \E l : l \notin {"pubbit", "bump"} /\ pc' = [pc EXCEPT ![w] = l]
      BY Zenon DEF TryEnqueue, Goto
    <3>3. \A u \in Worker \ {w} : post'[u] = post[u]
      BY Zenon, <1>t DEF TryEnqueue
    <3> QED BY Zenon, <1>t, <2>2, <3>1, <3>2, <3>3 DEF Announced
  <2>4. CASE ring'[r][s][k] # ring[r][s][k]
    <3>1. r = t /\ s = w /\ HasRoom(ring[t][w][KindOf(m)])
      BY Zenon, <1>t, <2>2, <2>4 DEF TryEnqueue
    <3>2. pc'[w] = "mark" /\ post'[w].queued /\ post'[w].target = t
      <4>1. post' = [post EXCEPT ![w] = [post[w] EXCEPT !.queued = TRUE]]
        BY Zenon, <1>t, <3>1 DEF TryEnqueue
      <4>2. pc'[w] = "mark"
        BY ZenonT(30), <1>t, <3>1 DEF TryEnqueue, Goto
      <4> QED BY <1>t, <4>1, <4>2
    <3> QED BY Zenon, <3>1, <3>2 DEF Announced
  <2> QED BY <2>3, <2>4
<1> QED BY <1>1, <1>2, <1>3, <1>4

LEMMA LaneMarkWake ==
    ASSUME LaneInv, NEW w \in Worker, MarkWake(w)
    PROVE  (WakeListOK /\ TakenOK /\ ActiveLaneOK /\ NonemptyLaneOK)'
<1>i. /\ TypeOK /\ FlushOK /\ WakeListOK /\ TakenOK
      /\ ActiveLaneOK /\ NonemptyLaneOK
  BY DEF LaneInv
<1>t. /\ pc \in [Thread -> WorkerLocations \cup ForeignLocations]
      /\ \A u \in Worker : u \in Thread
      /\ post \in [Thread -> [target : Worker, msg : Msg, queued : BOOLEAN]]
      /\ active \in [Worker -> [Worker -> BOOLEAN]]
      /\ wakePending \in [Worker -> [Worker -> 0..2]]
      /\ wakeList \in [Worker -> Seq(Worker)]
  BY Zenon, <1>i DEF TypeOK, LocationsOK, Thread
<1>1. WakeListOK'
  <2> DEFINE t == post[w].target
             first == t # w /\ wakePending[w][t] = 0
  <2>1. t \in Worker /\ pc[w] = "mark" /\ pc'[w] # "pubbit"
    BY Zenon, <1>t DEF MarkWake, Return, Goto
  <2>2. \A u \in Worker \ {w} : /\ pc'[u] = pc[u] /\ wakeList'[u] = wakeList[u]
                                 /\ wakePending'[u] = wakePending[u]
    BY Zenon, <1>t DEF MarkWake, Return, Goto
  <2>3. \A u \in Worker \ {t} : wakePending'[w][u] = wakePending[w][u]
    BY Zenon, <1>t, <2>1 DEF MarkWake
  <2>4. t = w => wakePending'[w][t] = wakePending[w][t]
    BY Zenon, <1>t, <2>1 DEF MarkWake
  <2>5. wakeList'[w] = IF first THEN Append(wakeList[w], t) ELSE wakeList[w]
    BY Zenon, <1>t DEF MarkWake
  <2>6. /\ first => \E i \in 1..Len(wakeList'[w]) : wakeList'[w][i] = t
        /\ \A u \in Worker : InList(w, u) => InList(w, u)'
    <3>1. CASE first
      <4>1. wakeList[w] \in Seq(Worker) /\ wakeList'[w] = Append(wakeList[w], t)
        BY <1>t, <2>5, <3>1
      <4>2. /\ \E i \in 1..Len(wakeList'[w]) : wakeList'[w][i] = t
            /\ \A i \in 1..Len(wakeList[w]) :
                  /\ i \in 1..Len(wakeList'[w])
                  /\ wakeList'[w][i] = wakeList[w][i]
        BY SMTT(30), <2>1, <4>1, AppendHas
      <4>4. ASSUME NEW u \in Worker, InList(w, u) PROVE InList(w, u)'
        BY Zenon, <4>2, <4>4 DEF InList
      <4> QED BY Zenon, <4>2, <4>4
    <3>2. CASE ~first
      BY Zenon, <2>5, <3>2 DEF InList
    <3> QED BY Zenon, <3>1, <3>2
  <2>7. \A u \in Worker, v \in Worker :
          wakePending'[u][v] # 0 => u # v /\ InList(u, v)'
    <3> SUFFICES ASSUME NEW u \in Worker, NEW v \in Worker,
                        wakePending'[u][v] # 0
                 PROVE  u # v /\ InList(u, v)'
      OBVIOUS
    <3>1. CASE u # w
      BY <1>i, <2>2, <3>1 DEF WakeListOK, InList
    <3>2. CASE u = w /\ v # t
      BY Zenon, <1>i, <2>3, <2>6, <3>2 DEF WakeListOK
    <3>3. CASE u = w /\ v = t
      <4>1. t # w
        BY Zenon, <1>i, <2>1, <2>4, <3>3 DEF WakeListOK
      <4>2. first \/ InList(w, t)
        BY Zenon, <1>i, <2>1, <4>1 DEF WakeListOK
      <4>3. InList(w, v)'
        BY Zenon, <2>1, <2>6, <3>3, <4>2 DEF InList
      <4> QED BY <3>3, <4>1, <4>3
    <3> QED BY <3>1, <3>2, <3>3
  <2>8. \A u \in Worker :
          pc'[u] = "pubbit" => wakePending'[u][Head(wakeList'[u])] = 2
    BY <1>i, <2>1, <2>2 DEF WakeListOK
  <2> QED BY <2>7, <2>8 DEF WakeListOK
<1>2. TakenOK'
  BY Zenon, <1>i, <1>t DEF MarkWake, Goto, TakenOK, Scanning, laneVars, wakeVars, drainVars, postVars, Return, NextPending
<1>3. ActiveLaneOK'
  <2> SUFFICES ASSUME NEW r \in Worker, NEW s \in Worker, active'[r][s]
               PROVE  Held(r, s)'
    BY DEF ActiveLaneOK
  <2>1. active[r][s] => Held(r, s)
    BY <1>i DEF ActiveLaneOK
  <2> QED BY Zenon, <1>i, <1>t, <2>1 DEF MarkWake, Goto, Held, laneVars, wakeVars, drainVars, postVars, Return, NextPending
<1>4. NonemptyLaneOK'
  <2> SUFFICES ASSUME NEW r \in Worker, NEW s \in Worker, NEW k \in Kind,
                      ring'[r][s][k] # <<>>
               PROVE  Announced(r, s, k)'
    BY DEF NonemptyLaneOK
  <2>1. ring[r][s][k] # <<>> => Announced(r, s, k)
    BY <1>i DEF NonemptyLaneOK
  <2> DEFINE t == post[w].target
             first == t # w /\ wakePending[w][t] = 0
  <2>2. t \in Worker /\ pc[w] = "mark" /\ UNCHANGED <<ring, drain>>
    BY Zenon, <1>t DEF MarkWake, drainVars
  <2>3. \A u \in Worker \ {w} : /\ pc'[u] = pc[u] /\ wakeList'[u] = wakeList[u]
                                 /\ wakePending'[u] = wakePending[u]
                                 /\ post'[u] = post[u]
    BY Zenon, <1>t DEF MarkWake, Return, Goto
  <2>4. pc'[w] \in {"run", "setbit"}
    BY Zenon, <1>t DEF MarkWake, Return, Goto
  <2>5. active[r][s] => active'[r][s]
    BY Zenon, <1>t, <2>2 DEF MarkWake
  <2>6. Announced(r, s, k)
    BY <2>1, <2>2
  <2>7. CASE s # w
    BY Zenon, <2>2, <2>3, <2>4, <2>5, <2>6, <2>7 DEF Announced
  <2>8. CASE s = w /\ r # t
    <3>1. wakePending'[w][r] = wakePending[w][r]
      BY Zenon, <1>t, <2>2, <2>8 DEF MarkWake
    <3> QED BY Zenon, <2>2, <2>3, <2>4, <2>5, <2>6, <2>8, <3>1 DEF Announced
  <2>9. CASE s = w /\ r = t
    <3>1. wakePending[w][t] \in 0..2
      BY Zenon, <1>t, <2>2
    <3>2. CASE t # w /\ wakePending[w][t] # 0
      <4>1. wakePending'[w][t] = 2
        BY Zenon, <1>t, <2>2, <3>2 DEF MarkWake, NextPending
      <4> QED BY Zenon, <2>4, <2>9, <4>1 DEF Announced
    <3>3. CASE (t = w \/ first) /\ post[w].queued
      <4>1. active'[t][w]
        BY Zenon, <1>t, <2>2, <3>3 DEF MarkWake
      <4> QED BY Zenon, <2>9, <4>1 DEF Announced
    <3>4. CASE (t = w \/ first) /\ ~post[w].queued
      <4>1. wakePending[w][t] # 2
        BY SMTT(30), <1>i, <2>2, <3>4 DEF WakeListOK
      <4> QED BY Zenon, <2>2, <2>3, <2>4, <2>5, <2>6, <2>9, <3>4, <4>1 DEF Announced
    <3> QED BY Zenon, <3>2, <3>3, <3>4
  <2> QED BY <2>7, <2>8, <2>9
<1> QED BY <1>1, <1>2, <1>3, <1>4

LEMMA LaneActivateSender ==
    ASSUME LaneInv, NEW w \in Worker, ActivateSender(w)
    PROVE  (WakeListOK /\ TakenOK /\ ActiveLaneOK /\ NonemptyLaneOK)'
<1>i. /\ TypeOK /\ FlushOK /\ WakeListOK /\ TakenOK
      /\ ActiveLaneOK /\ NonemptyLaneOK
  BY DEF LaneInv
<1>t. /\ pc \in [Thread -> WorkerLocations \cup ForeignLocations]
      /\ \A u \in Worker : u \in Thread
      /\ post \in [Thread -> [target : Worker, msg : Msg, queued : BOOLEAN]]
      /\ bits \in [Worker -> SUBSET Worker]
  BY ZenonT(40), <1>i DEF TypeOK, LocationsOK, Thread
<1>1. WakeListOK'
  BY <1>i, <1>t DEF ActivateSender, Goto, WakeListOK, InList, laneVars, wakeVars, drainVars, postVars, Return
<1>2. TakenOK'
  BY Zenon, <1>i, <1>t DEF ActivateSender, Goto, TakenOK, Scanning, laneVars, wakeVars, drainVars, postVars, Return
<1>3. ActiveLaneOK'
  <2> SUFFICES ASSUME NEW r \in Worker, NEW s \in Worker, active'[r][s]
               PROVE  Held(r, s)'
    BY DEF ActiveLaneOK
  <2>1. active[r][s] => Held(r, s)
    BY <1>i DEF ActiveLaneOK
  <2> QED BY Zenon, <1>i, <1>t, <2>1 DEF ActivateSender, Goto, Held, laneVars, wakeVars, drainVars, postVars, Return
<1>4. NonemptyLaneOK'
  <2> SUFFICES ASSUME NEW r \in Worker, NEW s \in Worker, NEW k \in Kind,
                      ring'[r][s][k] # <<>>
               PROVE  Announced(r, s, k)'
    BY DEF NonemptyLaneOK
  <2>1. ring[r][s][k] # <<>> => Announced(r, s, k)
    BY <1>i DEF NonemptyLaneOK
  <2> QED BY ZenonT(40), <1>i, <1>t, <2>1 DEF ActivateSender, Goto, Announced, laneVars, wakeVars, drainVars, postVars, Return
<1> QED BY <1>1, <1>2, <1>3, <1>4

LEMMA LaneTakeActiveSenders ==
    ASSUME LaneInv, NEW w \in Worker, TakeActiveSenders(w)
    PROVE  (WakeListOK /\ TakenOK /\ ActiveLaneOK /\ NonemptyLaneOK)'
<1>i. /\ TypeOK /\ FlushOK /\ WakeListOK /\ TakenOK
      /\ ActiveLaneOK /\ NonemptyLaneOK
  BY DEF LaneInv
<1>t. /\ pc \in [Thread -> WorkerLocations \cup ForeignLocations]
      /\ \A u \in Worker : u \in Thread
      /\ bits \in [Worker -> SUBSET Worker]
      /\ drain \in [Worker -> DrainState]
  BY Zenon, <1>i DEF TypeOK, LocationsOK, Thread
<1> DEFINE d == drain[w]
           taken == {s \in bits[w] : WordOf(s) = WordAt(d.start, d.step)}
           late == {s \in taken : d.step = 0 /\ s < d.start}
           e == [d EXCEPT !.active = taken \ late,
                          !.wrapped = d.wrapped \cup late, !.step = d.step + 1]
<1>a. /\ drain' = [drain EXCEPT ![w] = e]
      /\ bits' = [bits EXCEPT ![w] = bits[w] \ taken]
      /\ UNCHANGED <<pc, post, ring, active, wakePending, wakeList>>
      /\ pc[w] = "scan" /\ d.active = {}
  BY Zenon, <1>t DEF TakeActiveSenders, wakeVars, postVars
<1>b. /\ e.sender = d.sender /\ e.kind = d.kind
      /\ e.active = taken \ late /\ e.wrapped = d.wrapped \cup late
  <2>1. d \in DrainState
    BY <1>t
  <2> HIDE DEF d, taken, late
  <2> QED BY <2>1 DEF DrainState
<1>s. taken \subseteq bits[w] /\ late \subseteq taken
  OBVIOUS
<1> HIDE DEF e, taken, late
<1>d. /\ \A u \in Worker \ {w} : drain'[u] = drain[u] /\ bits'[u] = bits[u]
      /\ drain'[w].sender = drain[w].sender /\ drain'[w].kind = drain[w].kind
      /\ UNCHANGED <<pc, post, ring, active, wakePending, wakeList>>
      /\ pc[w] = "scan" /\ drain[w].active = {}
  BY Zenon, <1>t, <1>a, <1>b
<1>e. /\ drain[w].wrapped \subseteq drain'[w].wrapped
      /\ bits[w] \subseteq bits'[w] \cup drain'[w].active \cup drain'[w].wrapped
  BY Zenon, <1>t, <1>a, <1>b, <1>s
<1>1. WakeListOK'
  BY <1>i, <1>d DEF WakeListOK, InList
<1>2. TakenOK'
  BY ZenonT(30), <1>i, <1>t DEF TakeActiveSenders, Goto, TakenOK, Scanning, laneVars, wakeVars, drainVars, postVars
<1>3. ActiveLaneOK'
  <2> SUFFICES ASSUME NEW r \in Worker, NEW s \in Worker, active'[r][s]
               PROVE  Held(r, s)'
    BY DEF ActiveLaneOK
  <2>1. active[r][s] => Held(r, s)
    BY <1>i DEF ActiveLaneOK
  <2> QED BY Zenon, <1>d, <1>e, <2>1 DEF Held
<1>4. NonemptyLaneOK'
  <2> SUFFICES ASSUME NEW r \in Worker, NEW s \in Worker, NEW k \in Kind,
                      ring'[r][s][k] # <<>>
               PROVE  Announced(r, s, k)'
    BY DEF NonemptyLaneOK
  <2>1. ring[r][s][k] # <<>> => Announced(r, s, k)
    BY <1>i DEF NonemptyLaneOK
  <2> QED BY ZenonT(30), <1>i, <1>t, <2>1 DEF TakeActiveSenders, Goto, Announced, laneVars, wakeVars, drainVars, postVars
<1> QED BY <1>1, <1>2, <1>3, <1>4

LEMMA LaneVisitSender ==
    ASSUME LaneInv, NEW w \in Worker, VisitSender(w)
    PROVE  (WakeListOK /\ TakenOK /\ ActiveLaneOK /\ NonemptyLaneOK)'
<1>i. /\ TypeOK /\ FlushOK /\ WakeListOK /\ TakenOK
      /\ ActiveLaneOK /\ NonemptyLaneOK
  BY DEF LaneInv
<1>t. /\ pc \in [Thread -> WorkerLocations \cup ForeignLocations]
      /\ \A u \in Worker : u \in Thread
      /\ drain \in [Worker -> DrainState]
  BY ZenonT(40), <1>i DEF TypeOK, LocationsOK, Thread
<1>1. WakeListOK'
  BY <1>i, <1>t DEF VisitSender, Goto, WakeListOK, InList, laneVars, wakeVars, drainVars, postVars
<1>2. TakenOK'
  BY Zenon, <1>i, <1>t DEF VisitSender, Goto, TakenOK, Scanning, laneVars, wakeVars, drainVars, postVars
<1>3. ActiveLaneOK'
  <2> SUFFICES ASSUME NEW r \in Worker, NEW s \in Worker, active'[r][s]
               PROVE  Held(r, s)'
    BY DEF ActiveLaneOK
  <2>1. active[r][s] => Held(r, s)
    BY <1>i DEF ActiveLaneOK
  <2> QED BY <1>i, <1>t, <2>1 DEF VisitSender, Goto, Held, laneVars, wakeVars, drainVars, postVars
<1>4. NonemptyLaneOK'
  <2> SUFFICES ASSUME NEW r \in Worker, NEW s \in Worker, NEW k \in Kind,
                      ring'[r][s][k] # <<>>
               PROVE  Announced(r, s, k)'
    BY DEF NonemptyLaneOK
  <2>1. ring[r][s][k] # <<>> => Announced(r, s, k)
    BY <1>i DEF NonemptyLaneOK
  <2> QED BY ZenonT(40), <1>i, <1>t, <2>1 DEF VisitSender, Goto, Announced, laneVars, wakeVars, drainVars, postVars
<1> QED BY <1>1, <1>2, <1>3, <1>4

LEMMA LaneDrainQueue ==
    ASSUME LaneInv, NEW w \in Worker, DrainQueue(w)
    PROVE  (WakeListOK /\ TakenOK /\ ActiveLaneOK /\ NonemptyLaneOK)'
<1>i. /\ TypeOK /\ FlushOK /\ WakeListOK /\ TakenOK
      /\ ActiveLaneOK /\ NonemptyLaneOK
  BY DEF LaneInv
<1>t. /\ pc \in [Thread -> WorkerLocations \cup ForeignLocations]
      /\ \A u \in Worker : u \in Thread
      /\ ring \in [Worker -> [Worker -> [Kind -> Seq(Msg)]]]
      /\ drain \in [Worker -> DrainState]
  BY Zenon, <1>i DEF TypeOK, LocationsOK, Thread
<1>q. ring[w][drain[w].sender][drain[w].kind] \in Seq(Msg)
  <2>1. drain[w].sender \in Worker /\ drain[w].kind \in Kind
    BY <1>i, DrainType
  <2> QED BY <1>t, <2>1
<1>d. /\ \A u \in Worker : /\ drain'[u].active = drain[u].active
                            /\ drain'[u].wrapped = drain[u].wrapped
                            /\ drain'[u].sender = drain[u].sender
      /\ \A u \in Worker \ {w} : drain'[u] = drain[u] /\ pc'[u] = pc[u]
      /\ UNCHANGED <<post, active, bits, wakePending, wakeList>>
      /\ pc[w] = "dequeue" /\ pc'[w] \in {"close", "dequeue"}
  <2>1. PICK n : drain' = [drain EXCEPT ![w] =
                   [drain[w] EXCEPT !.n = n, !.kind = After(drain[w].kind)]]
    BY Zenon, <1>t DEF DrainQueue
  <2> DEFINE e == [drain[w] EXCEPT !.n = n, !.kind = After(drain[w].kind)]
  <2>2. /\ e.active = drain[w].active /\ e.wrapped = drain[w].wrapped
        /\ e.sender = drain[w].sender
    <3>1. drain[w] \in DrainState
      BY <1>t
    <3> QED BY <3>1 DEF DrainState
  <2>3. drain' = [drain EXCEPT ![w] = e]
    BY <2>1
  <2> HIDE DEF e
  <2>4. /\ \A u \in Worker : /\ drain'[u].active = drain[u].active
                              /\ drain'[u].wrapped = drain[u].wrapped
                              /\ drain'[u].sender = drain[u].sender
        /\ \A u \in Worker \ {w} : drain'[u] = drain[u]
    BY <1>t, <2>2, <2>3
  <2>5. /\ \A u \in Worker \ {w} : pc'[u] = pc[u]
        /\ pc[w] = "dequeue" /\ pc'[w] \in {"close", "dequeue"}
    BY Zenon, <1>t DEF DrainQueue, Goto
  <2>6. UNCHANGED <<post, active, bits, wakePending, wakeList>>
    BY Zenon DEF DrainQueue, wakeVars
  <2> QED BY Zenon, <2>4, <2>5, <2>6
<1>1. WakeListOK'
  <2>1. /\ UNCHANGED <<wakePending, wakeList>>
        /\ \E l : l # "pubbit" /\ pc' = [pc EXCEPT ![w] = l]
    BY Zenon DEF DrainQueue, Goto, wakeVars
  <2> QED BY Zenon, <1>i, <1>t, <2>1, WakeListFrame
<1>2. TakenOK'
  BY ZenonT(30), <1>i, <1>t DEF DrainQueue, Goto, TakenOK, Scanning, laneVars, wakeVars, drainVars, postVars
<1>3. ActiveLaneOK'
  <2> SUFFICES ASSUME NEW r \in Worker, NEW s \in Worker, active'[r][s]
               PROVE  Held(r, s)'
    BY DEF ActiveLaneOK
  <2>1. active[r][s] => Held(r, s)
    BY <1>i DEF ActiveLaneOK
  <2> QED BY Zenon, <1>d, <2>1 DEF Held
<1>4. NonemptyLaneOK'
  <2> SUFFICES ASSUME NEW r \in Worker, NEW s \in Worker, NEW k \in Kind,
                      ring'[r][s][k] # <<>>
               PROVE  Announced(r, s, k)'
    BY DEF NonemptyLaneOK
  <2>1. ring[r][s][k] # <<>> => Announced(r, s, k)
    BY <1>i DEF NonemptyLaneOK
  <2> DEFINE q == ring[w][drain[w].sender][drain[w].kind]
             maximum == Lesser(BatchSize - drain[w].n[drain[w].kind],
                               SenderQuota - cursor[w].consumed)
             count == Lesser(maximum, Len(q))
  <2>p. /\ drain[w].sender \in Worker /\ drain[w].kind \in Kind
        /\ drain[w].n[drain[w].kind] \in 0..BatchSize
        /\ cursor[w].consumed \in 0..SenderQuota
    BY Zenon, <1>i, DrainType
  <2>m. q \in Seq(Msg) /\ maximum \in Nat
    <3>1. q \in Seq(Msg)
      BY Zenon, <1>q
    <3>2. /\ BatchSize - drain[w].n[drain[w].kind] \in Nat
          /\ SenderQuota - cursor[w].consumed \in Nat
      BY SMTT(30), SizesAssumption, <2>p
    <3> QED BY Zenon, <3>1, <3>2 DEF Lesser
  <2>c. count \in 0..Len(q) /\ (Rest(q, count) = <<>> <=> count = Len(q))
    BY Zenon, <2>m, DequeueType
  <2>r. ring' = [ring EXCEPT ![w][drain[w].sender][drain[w].kind] =
                    Rest(q, count)]
    BY Zenon, <1>t, <2>p DEF DrainQueue
  <2> HIDE DEF count, maximum
  <2>e. q = <<>> => Rest(q, count) = <<>>
    <3>1. q = <<>> => Len(q) = 0
      BY SMTT(30)
    <3> QED BY <2>c, <3>1
  <2>2. ring[r][s][k] # <<>>
    BY SMTT(30), <1>t, <2>p, <2>r, <2>e
  <2> QED BY Zenon, <1>d, <2>1, <2>2 DEF Announced
<1> QED BY <1>1, <1>2, <1>3, <1>4

LEMMA LaneCloseLane ==
    ASSUME LaneInv, NEW w \in Worker, CloseLane(w)
    PROVE  (WakeListOK /\ TakenOK /\ ActiveLaneOK /\ NonemptyLaneOK)'
<1>i. /\ TypeOK /\ FlushOK /\ WakeListOK /\ TakenOK
      /\ ActiveLaneOK /\ NonemptyLaneOK
  BY DEF LaneInv
<1>t. /\ pc \in [Thread -> WorkerLocations \cup ForeignLocations]
      /\ \A u \in Worker : u \in Thread
      /\ active \in [Worker -> [Worker -> BOOLEAN]]
      /\ drain \in [Worker -> DrainState]
  BY ZenonT(40), <1>i DEF TypeOK, LocationsOK, Thread
<1>d. /\ \A u \in Worker \ {w} : drain'[u] = drain[u] /\ pc'[u] = pc[u]
      /\ UNCHANGED <<post, ring, wakePending, wakeList>>
      /\ pc[w] = "close" /\ pc'[w] = "recheck"
      /\ drain'[w].sender = drain[w].sender /\ drain'[w].kind = "req"
  BY <1>t DEF CloseLane, Goto, postVars, wakeVars, DrainState
<1>1. WakeListOK'
  BY <1>i, <1>t DEF CloseLane, Goto, WakeListOK, InList, laneVars, wakeVars, drainVars, postVars
<1>2. TakenOK'
  BY <1>i, <1>t DEF CloseLane, Goto, TakenOK, Scanning, laneVars, wakeVars, drainVars, postVars
<1>3. ActiveLaneOK'
  <2> SUFFICES ASSUME NEW r \in Worker, NEW s \in Worker, active'[r][s]
               PROVE  Held(r, s)'
    BY DEF ActiveLaneOK
  <2>1. active[r][s] => Held(r, s)
    BY <1>i DEF ActiveLaneOK
  <2> QED BY <1>i, <1>t, <2>1 DEF CloseLane, Goto, Held, laneVars, wakeVars, drainVars, postVars
<1>4. NonemptyLaneOK'
  <2> SUFFICES ASSUME NEW r \in Worker, NEW s \in Worker, NEW k \in Kind,
                      ring'[r][s][k] # <<>>
               PROVE  Announced(r, s, k)'
    BY DEF NonemptyLaneOK
  <2>1. ring[r][s][k] # <<>> => Announced(r, s, k)
    BY <1>i DEF NonemptyLaneOK
  <2>2. CASE r = w /\ s = drain[w].sender
    BY Zenon, <1>d, <2>2 DEF Announced, AtOrAfter
  <2>3. CASE ~(r = w /\ s = drain[w].sender)
    <3>1. active'[r][s] = active[r][s]
      BY ZenonT(30), <1>t, <2>3 DEF CloseLane
    <3> QED BY Zenon, <1>d, <2>1, <2>3, <3>1 DEF Announced
  <2> QED BY <2>2, <2>3
<1> QED BY <1>1, <1>2, <1>3, <1>4

LEMMA LaneRecheckLane ==
    ASSUME LaneInv, NEW w \in Worker, RecheckLane(w)
    PROVE  (WakeListOK /\ TakenOK /\ ActiveLaneOK /\ NonemptyLaneOK)'
<1>i. /\ TypeOK /\ FlushOK /\ WakeListOK /\ TakenOK
      /\ ActiveLaneOK /\ NonemptyLaneOK
  BY DEF LaneInv
<1>t. /\ pc \in [Thread -> WorkerLocations \cup ForeignLocations]
      /\ \A u \in Worker : u \in Thread
      /\ drain \in [Worker -> DrainState]
  BY SMTT(30), <1>i DEF TypeOK, LocationsOK, Thread
<1>d. /\ \A u \in Worker \ {w} : drain'[u] = drain[u] /\ pc'[u] = pc[u]
      /\ UNCHANGED <<post, ring, active, wakePending, wakeList>>
      /\ pc[w] = "recheck" /\ drain[w].kind \in Kind
      /\ pc'[w] = IF ring[w][drain[w].sender][drain[w].kind] # <<>>
                  THEN "reopen"
                  ELSE IF drain[w].kind # "ntf" THEN "recheck" ELSE "scan"
      /\ drain'[w].sender = drain[w].sender
      /\ drain'[w].kind = After(drain[w].kind)
  BY SMTT(30), <1>t DEF RecheckLane, Goto, laneVars, postVars, wakeVars, DrainState
<1>1. WakeListOK'
  BY <1>i, <1>t DEF RecheckLane, Goto, WakeListOK, InList, laneVars, wakeVars, drainVars, postVars
<1>2. TakenOK'
  BY Zenon, <1>i, <1>t DEF RecheckLane, Goto, TakenOK, Scanning, laneVars, wakeVars, drainVars, postVars
<1>3. ActiveLaneOK'
  <2> SUFFICES ASSUME NEW r \in Worker, NEW s \in Worker, active'[r][s]
               PROVE  Held(r, s)'
    BY DEF ActiveLaneOK
  <2>1. active[r][s] => Held(r, s)
    BY <1>i DEF ActiveLaneOK
  <2> QED BY SMTT(30), <1>i, <1>t, <2>1 DEF RecheckLane, Goto, Held, laneVars, wakeVars, drainVars, postVars
<1>4. NonemptyLaneOK'
  <2> SUFFICES ASSUME NEW r \in Worker, NEW s \in Worker, NEW k \in Kind,
                      ring'[r][s][k] # <<>>
               PROVE  Announced(r, s, k)'
    BY DEF NonemptyLaneOK
  <2>1. ring[r][s][k] # <<>> => Announced(r, s, k)
    BY <1>i DEF NonemptyLaneOK
  <2>2. CASE r = w /\ s = drain[w].sender
    <3>1. CASE pc'[w] = "reopen"
      BY Zenon, <1>d, <2>2, <3>1 DEF Announced
    <3>2. CASE pc'[w] # "reopen"
      <4>1. k # drain[w].kind
        BY Zenon, <1>d, <2>2, <3>2
      <4>2. AtOrAfter(drain[w].kind, k) =>
              drain[w].kind # "ntf" /\ AtOrAfter(After(drain[w].kind), k)
        BY Zenon, <1>d, <4>1 DEF AtOrAfter, After, Kind
      <4> QED BY ZenonT(30), <1>d, <2>1, <2>2, <3>2, <4>2 DEF Announced
    <3> QED BY <3>1, <3>2
  <2>3. CASE ~(r = w /\ s = drain[w].sender)
    BY ZenonT(40), <1>d, <2>1, <2>3 DEF Announced
  <2> QED BY <2>2, <2>3
<1> QED BY <1>1, <1>2, <1>3, <1>4

LEMMA LaneReopenLane ==
    ASSUME LaneInv, NEW w \in Worker, ReopenLane(w)
    PROVE  (WakeListOK /\ TakenOK /\ ActiveLaneOK /\ NonemptyLaneOK)'
<1>i. /\ TypeOK /\ FlushOK /\ WakeListOK /\ TakenOK
      /\ ActiveLaneOK /\ NonemptyLaneOK
  BY DEF LaneInv
<1>t. /\ pc \in [Thread -> WorkerLocations \cup ForeignLocations]
      /\ \A u \in Worker : u \in Thread
      /\ active \in [Worker -> [Worker -> BOOLEAN]]
      /\ drain \in [Worker -> DrainState]
  BY <1>i DEF TypeOK, LocationsOK, Thread
<1>1. WakeListOK'
  <2>1. /\ UNCHANGED <<wakePending, wakeList>>
        /\ \E l : l # "pubbit" /\ pc' = [pc EXCEPT ![w] = l]
    BY Zenon DEF ReopenLane, Goto, wakeVars
  <2> QED BY Zenon, <1>i, <1>t, <2>1, WakeListFrame
<1>2. TakenOK'
  BY ZenonT(30), <1>i, <1>t DEF ReopenLane, Goto, TakenOK, Scanning, laneVars, wakeVars, drainVars, postVars
<1>3. ActiveLaneOK'
  <2> SUFFICES ASSUME NEW r \in Worker, NEW s \in Worker, active'[r][s]
               PROVE  Held(r, s)'
    BY DEF ActiveLaneOK
  <2>1. active[r][s] => Held(r, s)
    BY <1>i DEF ActiveLaneOK
  <2> QED BY Zenon, <1>i, <1>t, <2>1 DEF ReopenLane, Goto, Held, laneVars, wakeVars, drainVars, postVars
<1>4. NonemptyLaneOK'
  <2> SUFFICES ASSUME NEW r \in Worker, NEW s \in Worker, NEW k \in Kind,
                      ring'[r][s][k] # <<>>
               PROVE  Announced(r, s, k)'
    BY DEF NonemptyLaneOK
  <2>1. ring[r][s][k] # <<>> => Announced(r, s, k)
    BY <1>i DEF NonemptyLaneOK
  <2> QED BY ZenonT(40), <1>i, <1>t, <2>1 DEF ReopenLane, Goto, Announced, laneVars, wakeVars, drainVars, postVars
<1> QED BY <1>1, <1>2, <1>3, <1>4

LEMMA LaneReactivateSender ==
    ASSUME LaneInv, NEW w \in Worker, ReactivateSender(w)
    PROVE  (WakeListOK /\ TakenOK /\ ActiveLaneOK /\ NonemptyLaneOK)'
<1>i. /\ TypeOK /\ FlushOK /\ WakeListOK /\ TakenOK
      /\ ActiveLaneOK /\ NonemptyLaneOK
  BY DEF LaneInv
<1>t. /\ pc \in [Thread -> WorkerLocations \cup ForeignLocations]
      /\ \A u \in Worker : u \in Thread
      /\ bits \in [Worker -> SUBSET Worker]
      /\ drain \in [Worker -> DrainState]
  BY <1>i DEF TypeOK, LocationsOK, Thread
<1>1. WakeListOK'
  <2>1. /\ UNCHANGED <<wakePending, wakeList>>
        /\ \E l : l # "pubbit" /\ pc' = [pc EXCEPT ![w] = l]
    BY ZenonT(30) DEF ReactivateSender, Goto, wakeVars
  <2> QED BY Zenon, <1>i, <1>t, <2>1, WakeListFrame
<1>2. TakenOK'
  BY Zenon, <1>i, <1>t DEF ReactivateSender, Goto, TakenOK, Scanning, laneVars, wakeVars, drainVars, postVars
<1>3. ActiveLaneOK'
  <2> SUFFICES ASSUME NEW r \in Worker, NEW s \in Worker, active'[r][s]
               PROVE  Held(r, s)'
    BY DEF ActiveLaneOK
  <2>1. active[r][s] => Held(r, s)
    BY <1>i DEF ActiveLaneOK
  <2> QED BY Zenon, <1>i, <1>t, <2>1 DEF ReactivateSender, Goto, Held, laneVars, wakeVars, drainVars, postVars
<1>4. NonemptyLaneOK'
  <2> SUFFICES ASSUME NEW r \in Worker, NEW s \in Worker, NEW k \in Kind,
                      ring'[r][s][k] # <<>>
               PROVE  Announced(r, s, k)'
    BY DEF NonemptyLaneOK
  <2>1. ring[r][s][k] # <<>> => Announced(r, s, k)
    BY <1>i DEF NonemptyLaneOK
  <2> QED BY ZenonT(40), <1>i, <1>t, <2>1 DEF ReactivateSender, Goto, Announced, laneVars, wakeVars, drainVars, postVars
<1> QED BY <1>1, <1>2, <1>3, <1>4

LEMMA LanePublishLane ==
    ASSUME LaneInv, NEW w \in Worker, PublishLane(w)
    PROVE  (WakeListOK /\ TakenOK /\ ActiveLaneOK /\ NonemptyLaneOK)'
<1>i. /\ TypeOK /\ FlushOK /\ WakeListOK /\ TakenOK
      /\ ActiveLaneOK /\ NonemptyLaneOK
  BY DEF LaneInv
<1>t. /\ pc \in [Thread -> WorkerLocations \cup ForeignLocations]
      /\ \A u \in Worker : u \in Thread
      /\ active \in [Worker -> [Worker -> BOOLEAN]]
      /\ wakeList \in [Worker -> Seq(Worker)]
      /\ wakePending \in [Worker -> [Worker -> 0..2]]
  BY ZenonT(40), <1>i DEF TypeOK, LocationsOK, Thread
<1>1. WakeListOK'
  BY <1>i, <1>t DEF PublishLane, Goto, WakeListOK, InList, laneVars, wakeVars, drainVars, postVars
<1>2. TakenOK'
  BY Zenon, <1>i, <1>t DEF PublishLane, Goto, TakenOK, Scanning, laneVars, wakeVars, drainVars, postVars
<1>3. ActiveLaneOK'
  <2> SUFFICES ASSUME NEW r \in Worker, NEW s \in Worker, active'[r][s]
               PROVE  Held(r, s)'
    BY DEF ActiveLaneOK
  <2>1. active[r][s] => Held(r, s)
    BY <1>i DEF ActiveLaneOK
  <2> QED BY Zenon, <1>i, <1>t, <2>1 DEF PublishLane, Goto, Held, laneVars, wakeVars, drainVars, postVars
<1>4. NonemptyLaneOK'
  <2> SUFFICES ASSUME NEW r \in Worker, NEW s \in Worker, NEW k \in Kind,
                      ring'[r][s][k] # <<>>
               PROVE  Announced(r, s, k)'
    BY DEF NonemptyLaneOK
  <2>1. ring[r][s][k] # <<>> => Announced(r, s, k)
    BY <1>i DEF NonemptyLaneOK
  <2> QED BY ZenonT(30), <1>i, <1>t, <2>1 DEF PublishLane, Goto, Announced, laneVars, wakeVars, drainVars, postVars
<1> QED BY <1>1, <1>2, <1>3, <1>4

LEMMA LanePublishSender ==
    ASSUME LaneInv, NEW w \in Worker, PublishSender(w)
    PROVE  (WakeListOK /\ TakenOK /\ ActiveLaneOK /\ NonemptyLaneOK)'
<1>i. /\ TypeOK /\ FlushOK /\ WakeListOK /\ TakenOK
      /\ ActiveLaneOK /\ NonemptyLaneOK
  BY DEF LaneInv
<1>t. /\ pc \in [Thread -> WorkerLocations \cup ForeignLocations]
      /\ \A u \in Worker : u \in Thread
      /\ bits \in [Worker -> SUBSET Worker]
      /\ wakeList \in [Worker -> Seq(Worker)]
  BY Zenon, <1>i DEF TypeOK, LocationsOK, Thread
<1>1. WakeListOK'
  <2>1. /\ UNCHANGED <<wakePending, wakeList>>
        /\ \E l : l # "pubbit" /\ pc' = [pc EXCEPT ![w] = l]
    BY ZenonT(30) DEF PublishSender, Goto, wakeVars
  <2> QED BY Zenon, <1>i, <1>t, <2>1, WakeListFrame
<1>2. TakenOK'
  BY Zenon, <1>i, <1>t DEF PublishSender, Goto, TakenOK, Scanning, laneVars, wakeVars, drainVars, postVars
<1>3. ActiveLaneOK'
  <2> SUFFICES ASSUME NEW r \in Worker, NEW s \in Worker, active'[r][s]
               PROVE  Held(r, s)'
    BY DEF ActiveLaneOK
  <2>1. active[r][s] => Held(r, s)
    BY <1>i DEF ActiveLaneOK
  <2> QED BY Zenon, <1>i, <1>t, <2>1 DEF PublishSender, Goto, Held, laneVars, wakeVars, drainVars, postVars
<1>4. NonemptyLaneOK'
  <2> SUFFICES ASSUME NEW r \in Worker, NEW s \in Worker, NEW k \in Kind,
                      ring'[r][s][k] # <<>>
               PROVE  Announced(r, s, k)'
    BY DEF NonemptyLaneOK
  <2>1. ring[r][s][k] # <<>> => Announced(r, s, k)
    BY <1>i DEF NonemptyLaneOK
  <2> QED BY ZenonT(40), <1>i, <1>t, <2>1 DEF PublishSender, Goto, Announced, laneVars, wakeVars, drainVars, postVars
<1> QED BY <1>1, <1>2, <1>3, <1>4

LEMMA LaneBumpTarget ==
    ASSUME LaneInv, NEW w \in Worker, BumpTarget(w)
    PROVE  (WakeListOK /\ TakenOK /\ ActiveLaneOK /\ NonemptyLaneOK)'
<1>i. /\ TypeOK /\ FlushOK /\ WakeListOK /\ TakenOK
      /\ ActiveLaneOK /\ NonemptyLaneOK
  BY DEF LaneInv
<1>t. /\ pc \in [Thread -> WorkerLocations \cup ForeignLocations]
      /\ \A u \in Worker : u \in Thread
      /\ wakePending \in [Worker -> [Worker -> 0..2]]
      /\ wakeList \in [Worker -> Seq(Worker)]
  BY ZenonT(40), <1>i DEF TypeOK, LocationsOK, Thread
<1>1. WakeListOK'
  <2> DEFINE t == Head(wakeList[w])
  <2>1. pc[w] = "bump" /\ wakeList[w] # <<>> /\ t \in Worker
    BY Zenon, <1>i, <1>t, HeadTailProperties DEF BumpTarget, FlushOK
  <2>2. /\ wakePending' = [wakePending EXCEPT ![w][t] = 0]
        /\ wakeList' = [wakeList EXCEPT ![w] = Tail(wakeList[w])]
        /\ pc' = [pc EXCEPT ![w] = "flush"]
    BY Zenon, <1>t DEF BumpTarget, Goto
  <2>3. \A u \in Worker : InList(w, u) /\ u # t => InList(w, u)'
    <3>1. wakeList[w] \in Seq(Worker) /\ wakeList'[w] = Tail(wakeList[w])
      BY <1>t, <2>2
    <3>2. \A i \in 1..Len(wakeList[w]) :
            wakeList[w][i] # t =>
              \E j \in 1..Len(wakeList'[w]) : wakeList'[w][j] = wakeList[w][i]
      BY <2>1, <3>1, TailHas
    <3> QED BY Zenon, <3>2 DEF InList
  <2>4. \A u \in Worker, v \in Worker :
          wakePending'[u][v] # 0 => u # v /\ InList(u, v)'
    <3> SUFFICES ASSUME NEW u \in Worker, NEW v \in Worker,
                        wakePending'[u][v] # 0
                 PROVE  u # v /\ InList(u, v)'
      OBVIOUS
    <3>1. CASE u # w
      <4>1. wakePending'[u] = wakePending[u] /\ wakeList'[u] = wakeList[u]
        BY <1>t, <2>2, <3>1
      <4> QED BY <1>i, <4>1 DEF WakeListOK, InList
    <3>2. CASE u = w
      <4>1. v # t /\ wakePending'[w][v] = wakePending[w][v]
        BY Zenon, <1>t, <2>1, <2>2, <3>2
      <4> QED BY Zenon, <1>i, <2>3, <3>2, <4>1 DEF WakeListOK
    <3> QED BY <3>1, <3>2
  <2>5. \A u \in Worker :
          pc'[u] = "pubbit" => wakePending'[u][Head(wakeList'[u])] = 2
    BY Zenon, <1>i, <1>t, <2>2 DEF WakeListOK
  <2> QED BY <2>4, <2>5 DEF WakeListOK
<1>2. TakenOK'
  BY Zenon, <1>i, <1>t DEF BumpTarget, Goto, TakenOK, Scanning, laneVars, wakeVars, drainVars, postVars
<1>3. ActiveLaneOK'
  <2> SUFFICES ASSUME NEW r \in Worker, NEW s \in Worker, active'[r][s]
               PROVE  Held(r, s)'
    BY DEF ActiveLaneOK
  <2>1. active[r][s] => Held(r, s)
    BY <1>i DEF ActiveLaneOK
  <2> QED BY Zenon, <1>i, <1>t, <2>1 DEF BumpTarget, Goto, Held, laneVars, wakeVars, drainVars, postVars
<1>4. NonemptyLaneOK'
  <2> SUFFICES ASSUME NEW r \in Worker, NEW s \in Worker, NEW k \in Kind,
                      ring'[r][s][k] # <<>>
               PROVE  Announced(r, s, k)'
    BY DEF NonemptyLaneOK
  <2>1. ring[r][s][k] # <<>> => Announced(r, s, k)
    BY <1>i DEF NonemptyLaneOK
  <2> QED BY Zenon, <1>i, <1>t, <2>1 DEF BumpTarget, Goto, Announced, laneVars, wakeVars, drainVars, postVars
<1> QED BY <1>1, <1>2, <1>3, <1>4

(* The steps of a worker that leave the lanes alone.                       *)
LEMMA QuietSteps ==
    ASSUME LaneInv, NEW w \in Worker,
           \/ EnqueueOverflow(w) \/ FlagOverflow(w) \/ StartDrain(w)
           \/ DrainOverflow(w) \/ EndScan(w) \/ FinishDrain(w)
           \/ FinishParkingDrain(w) \/ Submit(w) \/ SubmitUnavailable(w)
           \/ BusyPoll(w) \/ Snapshot(w) \/ Park(w) \/ Wake(w) \/ WakeOther(w)
           \/ Unpark(w)
    PROVE  LaneQuiet(w)
<1>t. /\ pc \in [Thread -> WorkerLocations \cup ForeignLocations]
      /\ w \in Thread /\ drain \in [Worker -> DrainState]
      /\ post \in [Thread -> [target : Worker, msg : Msg, queued : BOOLEAN]]
  BY Zenon DEF LaneInv, TypeOK, LocationsOK, Thread
<1>n. NoDrain.active = {} /\ NoDrain.wrapped = {}
  BY Zenon DEF NoDrain
<1>s. pc[w] \notin Scanning => drain[w].active = {} /\ drain[w].wrapped = {}
  BY Zenon DEF LaneInv, TakenOK
<1>1. CASE EnqueueOverflow(w)
  BY Zenon, <1>t, <1>n, <1>s, <1>1
  DEF EnqueueOverflow, LaneQuiet, Goto, Scanning, laneVars, wakeVars, drainVars, postVars
<1>2. CASE FlagOverflow(w)
  BY Zenon, <1>t, <1>n, <1>s, <1>2
  DEF FlagOverflow, LaneQuiet, Goto, Scanning, laneVars, wakeVars, drainVars, postVars
<1>3. CASE StartDrain(w)
  <2>1. pc[w] = "drain"
    BY <1>3 DEF StartDrain
  <2>2. PICK over, first, start :
          drain' = [drain EXCEPT ![w] =
            [NoDrain EXCEPT !.overflow = over, !.first = first, !.start = start]]
    BY Zenon, <1>t, <1>3 DEF StartDrain
  <2>3. drain[w].active = {} /\ drain[w].wrapped = {}
    BY Zenon, <1>s, <2>1 DEF Scanning
  <2> DEFINE e == [NoDrain EXCEPT !.overflow = over, !.first = first, !.start = start]
  <2>4. e.active = NoDrain.active /\ e.wrapped = NoDrain.wrapped
    BY <1>t DEF DrainState, NoDrain
  <2> HIDE DEF e
  <2>5. /\ \A r \in Worker \ {w} : drain'[r] = drain[r]
        /\ drain'[w].active = {} /\ drain'[w].wrapped = {}
    BY <1>t, <1>n, <2>2, <2>3, <2>4 DEF e
  <2>6. /\ \E l : l \notin {"pubbit", "bump"} /\ pc' = [pc EXCEPT ![w] = l]
        /\ UNCHANGED <<ring, active, bits, wakePending, wakeList, post>>
    BY Zenon, <1>3 DEF StartDrain, Goto, laneVars, wakeVars, postVars
  <2> QED BY Zenon, <2>1, <2>3, <2>5, <2>6 DEF LaneQuiet
<1>4. CASE DrainOverflow(w)
  <2>1. pc[w] = "overflow"
    BY Zenon, <1>4 DEF DrainOverflow
  <2>2. PICK n, kind :
          drain' = [drain EXCEPT ![w] =
            [drain[w] EXCEPT !.n = n, !.kind = kind]]
    BY Zenon, <1>t, <1>4 DEF DrainOverflow
  <2>3. drain[w].active = {} /\ drain[w].wrapped = {}
    BY Zenon, <1>s, <2>1 DEF Scanning
  <2> DEFINE e == [drain[w] EXCEPT !.n = n, !.kind = kind]
  <2>4. e.active = drain[w].active /\ e.wrapped = drain[w].wrapped
    BY <1>t DEF DrainState, NoDrain
  <2> HIDE DEF e
  <2>5. /\ \A r \in Worker \ {w} : drain'[r] = drain[r]
        /\ drain'[w].active = {} /\ drain'[w].wrapped = {}
    BY <1>t, <1>n, <2>2, <2>3, <2>4 DEF e
  <2>6. /\ \E l : l \notin {"pubbit", "bump"} /\ pc' = [pc EXCEPT ![w] = l]
        /\ UNCHANGED <<ring, active, bits, wakePending, wakeList, post>>
    BY Zenon, <1>4 DEF DrainOverflow, Goto, laneVars, wakeVars, postVars
  <2> QED BY ZenonT(30), <2>1, <2>3, <2>5, <2>6 DEF LaneQuiet
<1>5. CASE EndScan(w)
  <2>1. pc[w] = "scan"
    BY <1>5 DEF EndScan
  <2>2. drain' = [drain EXCEPT ![w] = [drain[w] EXCEPT !.kind = "req"]]
    BY <1>t, <1>5 DEF EndScan
  <2>3. drain[w].active = {} /\ drain[w].wrapped = {}
    BY <1>5 DEF EndScan, Candidates
  <2> DEFINE e == [drain[w] EXCEPT !.kind = "req"]
  <2>4. e.active = drain[w].active /\ e.wrapped = drain[w].wrapped
    BY <1>t DEF DrainState, NoDrain
  <2> HIDE DEF e
  <2>5. /\ \A r \in Worker \ {w} : drain'[r] = drain[r]
        /\ drain'[w].active = {} /\ drain'[w].wrapped = {}
    BY <1>t, <1>n, <2>2, <2>3, <2>4 DEF e
  <2>6. /\ \E l : l \notin {"pubbit", "bump"} /\ pc' = [pc EXCEPT ![w] = l]
        /\ UNCHANGED <<ring, active, bits, wakePending, wakeList, post>>
    BY Zenon, <1>5 DEF EndScan, Goto, laneVars, wakeVars, postVars
  <2> QED BY Zenon, <2>1, <2>3, <2>5, <2>6 DEF LaneQuiet
<1>6. CASE FinishDrain(w)
  BY Zenon, <1>t, <1>n, <1>s, <1>6
  DEF FinishDrain, LaneQuiet, Goto, Scanning, laneVars, wakeVars, drainVars, postVars
<1>7. CASE FinishParkingDrain(w)
  BY Zenon, <1>t, <1>n, <1>s, <1>7
  DEF FinishParkingDrain, LaneQuiet, Goto, Scanning, laneVars, wakeVars, drainVars, postVars
<1>8. CASE Submit(w)
  BY Zenon, <1>t, <1>n, <1>s, <1>8
  DEF Submit, LaneQuiet, Goto, Scanning, laneVars, wakeVars, drainVars, postVars, EndFlush
<1>9. CASE SubmitUnavailable(w)
  BY Zenon, <1>t, <1>n, <1>s, <1>9
  DEF SubmitUnavailable, LaneQuiet, Goto, Scanning, laneVars, wakeVars, drainVars, postVars, EndFlush
<1>10. CASE BusyPoll(w)
  BY Zenon, <1>t, <1>n, <1>s, <1>10
  DEF BusyPoll, LaneQuiet, Goto, Scanning, laneVars, wakeVars, drainVars, postVars
<1>11. CASE Snapshot(w)
  BY Zenon, <1>t, <1>n, <1>s, <1>11
  DEF Snapshot, LaneQuiet, Goto, Scanning, laneVars, wakeVars, drainVars, postVars
<1>12. CASE Park(w)
  BY Zenon, <1>t, <1>n, <1>s, <1>12
  DEF Park, LaneQuiet, Goto, Scanning, laneVars, wakeVars, drainVars, postVars
<1>13. CASE Wake(w)
  BY Zenon, <1>t, <1>n, <1>s, <1>13
  DEF Wake, LaneQuiet, Goto, Scanning, laneVars, wakeVars, drainVars, postVars
<1>14. CASE WakeOther(w)
  BY Zenon, <1>t, <1>n, <1>s, <1>14
  DEF WakeOther, LaneQuiet, Goto, Scanning, laneVars, wakeVars, drainVars, postVars
<1>15. CASE Unpark(w)
  BY Zenon, <1>t, <1>n, <1>s, <1>15
  DEF Unpark, LaneQuiet, Goto, Scanning, laneVars, wakeVars, drainVars, postVars
<1> QED BY ZenonT(40), <1>1, <1>2, <1>3, <1>4, <1>5, <1>6, <1>7, <1>8, <1>9,
       <1>10, <1>11, <1>12, <1>13, <1>14, <1>15

LEMMA QuietPost ==
    ASSUME LaneInv, NEW w \in Worker, NEW m \in Msg, NEW t \in Worker,
           Post(w, m, t)
    PROVE  LaneQuiet(w)
<1>t. post \in [Thread -> [target : Worker, msg : Msg, queued : BOOLEAN]]
  BY Zenon DEF LaneInv, TypeOK
<1>s. pc[w] \notin Scanning => drain[w].active = {} /\ drain[w].wrapped = {}
  BY Zenon DEF LaneInv, TakenOK
<1> QED BY ZenonT(30), <1>t, <1>s
  DEF Post, LaneQuiet, Goto, Scanning, laneVars, wakeVars, drainVars

LEMMA QuietForeign ==
    ASSUME LaneInv, NEW f \in Foreign,
           \/ ForeignStep(f)
           \/ \E m \in Ntf, t \in Worker : ForeignPost(f, m, t)
    PROVE  f \in Thread /\ LaneQuiet(f)
<1>t. /\ post \in [Thread -> [target : Worker, msg : Msg, queued : BOOLEAN]]
      /\ f \in Thread /\ f \notin Worker
  BY ZenonT(40), NamesAssumption DEF LaneInv, TypeOK, Thread
<1>1. CASE ForeignFlag(f)
  BY Zenon, <1>t, <1>1 DEF ForeignFlag, LaneQuiet, Goto, laneVars, wakeVars, drainVars, postVars
<1>2. CASE ForeignBump(f)
  BY Zenon, <1>t, <1>2 DEF ForeignBump, LaneQuiet, Goto, laneVars, wakeVars, drainVars, postVars
<1>3. CASE ForeignWake(f)
  BY Zenon, <1>t, <1>3 DEF ForeignWake, LaneQuiet, Goto, laneVars, wakeVars, drainVars, postVars
<1>4. CASE \E m \in Ntf, t \in Worker : ForeignPost(f, m, t)
  BY Zenon, <1>t, <1>4 DEF ForeignPost, LaneQuiet, Goto, laneVars, wakeVars, drainVars
<1> QED BY SMTT(30), <1>1, <1>2, <1>3, <1>4 DEF ForeignStep

LEMMA LaneInit == Init => LaneInv
<1> SUFFICES ASSUME Init PROVE LaneInv
  OBVIOUS
<1>1. TypeOK /\ FlushOK
  BY Zenon, TypeInit DEF Init, FlushOK, Thread
<1>2. WakeListOK
  BY Zenon DEF Init, WakeListOK, Thread
<1>3. TakenOK
  BY Zenon DEF Init, TakenOK, NoDrain
<1>4. ActiveLaneOK
  BY Zenon DEF Init, ActiveLaneOK
<1>5. NonemptyLaneOK
  BY Zenon DEF Init, NonemptyLaneOK
<1> QED BY <1>1, <1>2, <1>3, <1>4, <1>5 DEF LaneInv

LEMMA LaneNext == LaneInv /\ [Next]_vars => LaneInv'
<1> SUFFICES ASSUME LaneInv, [Next]_vars PROVE LaneInv'
  OBVIOUS
<1>1. TypeOK' /\ FlushOK'
  BY TypeNext, FlushNext DEF LaneInv
<1> DEFINE LanesOK == WakeListOK /\ TakenOK /\ ActiveLaneOK /\ NonemptyLaneOK
<1> SUFFICES LanesOK'
  BY <1>1 DEF LaneInv
<1> HIDE DEF LanesOK
<1>2. ASSUME NEW w \in Worker, Step(w) \/ SubmitUnavailable(w) \/ WakeOther(w)
      PROVE  LanesOK'
  <2>1. CASE TryEnqueue(w) \/ MarkWake(w) \/ ActivateSender(w)
    BY <2>1, LaneTryEnqueue, LaneMarkWake, LaneActivateSender DEF LanesOK
  <2>2. CASE TakeActiveSenders(w) \/ VisitSender(w) \/ DrainQueue(w)
    BY <2>2, LaneTakeActiveSenders, LaneVisitSender, LaneDrainQueue DEF LanesOK
  <2>3. CASE CloseLane(w) \/ RecheckLane(w) \/ ReopenLane(w) \/ ReactivateSender(w)
    BY SMTT(30), <2>3, LaneCloseLane, LaneRecheckLane, LaneReopenLane, LaneReactivateSender
    DEF LanesOK
  <2>4. CASE PublishLane(w) \/ PublishSender(w) \/ BumpTarget(w)
    BY <2>4, LanePublishLane, LanePublishSender, LaneBumpTarget DEF LanesOK
  <2>5. CASE LaneQuiet(w)
    BY <2>5, LaneFrame DEF LanesOK, Thread
  <2> QED BY Zenon, <1>2, <2>1, <2>2, <2>3, <2>4, <2>5, QuietSteps
      DEF Step, PostStep, DrainStep, RoundStep
<1>3. ASSUME NEW w \in Worker, NEW m \in Msg, NEW t \in Worker, Post(w, m, t)
      PROVE  LanesOK'
  BY <1>3, QuietPost, LaneFrame DEF LanesOK, Thread
<1>4. ASSUME NEW f \in Foreign,
             \/ ForeignStep(f)
             \/ \E m \in Ntf, t \in Worker : ForeignPost(f, m, t)
      PROVE  LanesOK'
  BY <1>4, QuietForeign, LaneFrame DEF LanesOK
<1>5. CASE UNCHANGED vars
  <2>1. UNCHANGED <<pc, post, ring, active, bits, wakePending, wakeList, drain>>
    BY Zenon, <1>5 DEF vars, postVars, laneVars, wakeVars, drainVars
  <2>2. WakeListOK' /\ TakenOK'
    BY <2>1 DEF LaneInv, WakeListOK, InList, TakenOK
  <2>3. ActiveLaneOK'
    BY Zenon, <2>1 DEF LaneInv, ActiveLaneOK, Held
  <2>4. NonemptyLaneOK'
    BY <2>1 DEF LaneInv, NonemptyLaneOK, Announced
  <2> QED BY <2>2, <2>3, <2>4 DEF LanesOK
<1> QED BY Zenon, <1>2, <1>3, <1>4, <1>5 DEF Next

(* What the invariant says of a lane that holds a message.                 *)
LEMMA LaneInvPublishes == LaneInv => NoLostPublication
<1> SUFFICES ASSUME LaneInv, NEW r \in Worker, NEW s \in Worker,
                    NEW k \in Kind, ring[r][s][k] # <<>>
             PROVE  \/ s \in bits[r]
                    \/ Visiting(r, s)
                    \/ pc[s] \in {"mark", "setbit"} /\ post[s].target = r
                    \/ /\ wakePending[s][r] = 2
                       /\ \E i \in 1..Len(wakeList[s]) : wakeList[s][i] = r
  BY ZenonT(60) DEF NoLostPublication
<1>1. Announced(r, s, k) /\ (active[r][s] => Held(r, s))
  BY Zenon DEF LaneInv, NonemptyLaneOK, ActiveLaneOK
<1>2. wakePending[s][r] = 2 =>
        \E i \in 1..Len(wakeList[s]) : wakeList[s][i] = r
  BY DEF LaneInv, WakeListOK, InList
<1>3. pc[s] = "pubbit" => wakePending[s][Head(wakeList[s])] = 2
  BY Zenon DEF LaneInv, WakeListOK
<1>4. CASE active[r][s]
  BY Zenon, <1>1, <1>2, <1>3, <1>4 DEF Held, Visiting
<1>5. CASE ~active[r][s]
  BY Zenon, <1>1, <1>2, <1>5 DEF Announced, Visiting
<1> QED BY ZenonT(30), <1>4, <1>5

(* The handshake over active_, the bitmap and wake_pending_ between posts, *)
(* FlushWakes and DrainCrossCoreImpl loses no lane: one that holds a       *)
(* message is always in its receiver's bitmap, being visited, or about to  *)
(* be published by its sender.  For any number of workers and messages,    *)
(* any ring capacity, batch size and quota, and any width of a word.       *)
THEOREM LanesArePublished == Spec => []NoLostPublication
<1>1. Init => LaneInv
  BY LaneInit
<1>2. LaneInv /\ [Next]_vars => LaneInv'
  BY LaneNext
<1>3. LaneInv => NoLostPublication
  BY LaneInvPublishes
<1> QED BY <1>1, <1>2, <1>3, PTL DEF Spec

-----------------------------------------------------------------------------
(* No wakeup is lost.                                                      *)

(* A step of thread p leaves the locals of the other threads alone.        *)
OnlyActor(p) ==
    /\ \A t \in Thread \ {p} : pc'[t] = pc[t] /\ post'[t] = post[t]
    /\ \A r \in Worker \ {p} :
          /\ drain'[r] = drain[r] /\ cursor'[r] = cursor[r]
          /\ parking'[r] = parking[r] /\ seq'[r] = seq[r]
          /\ wakeList'[r] = wakeList[r]

(* What a step of thread p may do to another worker r: post to it, set a   *)
(* flag or a bit, bump its wake_seq_, and wake it.                         *)
Reaches(p, r) ==
    /\ bits[r] \subseteq bits'[r]
    /\ \A s \in Worker, k \in Kind :
          ring'[r][s][k] = ring[r][s][k] \/ (s = p /\ Owes(p, r)')
    /\ \A k \in Kind :
          overflow'[r][k] = overflow[r][k] \/ (Flagging(p, r)' /\ Owes(p, r)')
    /\ overflowPending[r] \/ Flagging(p, r) => overflowPending'[r]
    /\ \/ /\ wakeSeq'[r] = wakeSeq[r] /\ bumps'[r] = bumps[r]
          /\ Owes(p, r) => Owes(p, r)'
       \/ Bump(r) /\ (MustWake(r) => WakeComing(r)')
    /\ WakeComing(r) => WakeComing(r)'

LEMMA ActorSteps ==
    ASSUME TypeOK, NEW w \in Worker,
           Step(w) \/ SubmitUnavailable(w) \/ WakeOther(w)
    PROVE  OnlyActor(w)
<1>t. /\ pc \in [Thread -> WorkerLocations \cup ForeignLocations]
      /\ \A u \in Worker : u \in Thread
      /\ post \in [Thread -> [target : Worker, msg : Msg, queued : BOOLEAN]]
      /\ wakeList \in [Worker -> Seq(Worker)]
      /\ drain \in [Worker -> DrainState]
      /\ cursor \in [Worker -> [sender : Worker, consumed : 0..SenderQuota]]
      /\ parking \in [Worker -> BOOLEAN] /\ seq \in [Worker -> 0..(SeqMod - 1)]
  BY Zenon DEF TypeOK, LocationsOK, Thread
<1>1. CASE TryEnqueue(w)
  BY ZenonT(30), <1>t, <1>1 DEF TryEnqueue, OnlyActor, Goto, postVars,
     laneVars, wakeVars, drainVars, parkVars
<1>2. CASE EnqueueOverflow(w)
  BY ZenonT(30), <1>t, <1>2 DEF EnqueueOverflow, OnlyActor, Goto, postVars,
     laneVars, wakeVars, drainVars, parkVars
<1>3. CASE FlagOverflow(w)
  BY ZenonT(30), <1>t, <1>3 DEF FlagOverflow, OnlyActor, Goto, postVars,
     laneVars, wakeVars, drainVars, parkVars
<1>4. CASE MarkWake(w)
  BY ZenonT(30), <1>t, <1>4 DEF MarkWake, OnlyActor, Goto, Return, postVars,
     laneVars, wakeVars, drainVars, parkVars
<1>5. CASE ActivateSender(w)
  BY ZenonT(30), <1>t, <1>5 DEF ActivateSender, OnlyActor, Goto, Return, postVars,
     laneVars, wakeVars, drainVars, parkVars
<1>6. CASE StartDrain(w)
  BY ZenonT(30), <1>t, <1>6 DEF StartDrain, OnlyActor, Goto, postVars,
     laneVars, wakeVars, drainVars, parkVars
<1>7. CASE DrainOverflow(w)
  BY ZenonT(30), <1>t, <1>7 DEF DrainOverflow, OnlyActor, Goto, postVars,
     laneVars, wakeVars, drainVars, parkVars
<1>8. CASE TakeActiveSenders(w)
  BY ZenonT(30), <1>t, <1>8 DEF TakeActiveSenders, OnlyActor, Goto, postVars,
     laneVars, wakeVars, drainVars, parkVars
<1>9. CASE VisitSender(w)
  BY ZenonT(30), <1>t, <1>9 DEF VisitSender, OnlyActor, Goto, postVars,
     laneVars, wakeVars, drainVars, parkVars
<1>10. CASE DrainQueue(w)
  BY ZenonT(30), <1>t, <1>10 DEF DrainQueue, OnlyActor, Goto, postVars,
     laneVars, wakeVars, drainVars, parkVars
<1>11. CASE CloseLane(w)
  BY ZenonT(30), <1>t, <1>11 DEF CloseLane, OnlyActor, Goto, postVars,
     laneVars, wakeVars, drainVars, parkVars
<1>12. CASE RecheckLane(w)
  BY ZenonT(30), <1>t, <1>12 DEF RecheckLane, OnlyActor, Goto, postVars,
     laneVars, wakeVars, drainVars, parkVars
<1>13. CASE ReopenLane(w)
  BY ZenonT(30), <1>t, <1>13 DEF ReopenLane, OnlyActor, Goto, postVars,
     laneVars, wakeVars, drainVars, parkVars
<1>14. CASE ReactivateSender(w)
  BY ZenonT(30), <1>t, <1>14 DEF ReactivateSender, OnlyActor, Goto, postVars,
     laneVars, wakeVars, drainVars, parkVars
<1>15. CASE EndScan(w)
  BY ZenonT(30), <1>t, <1>15 DEF EndScan, OnlyActor, Goto, postVars,
     laneVars, wakeVars, drainVars, parkVars
<1>16. CASE FinishDrain(w)
  BY ZenonT(30), <1>t, <1>16 DEF FinishDrain, OnlyActor, Goto, postVars,
     laneVars, wakeVars, drainVars, parkVars
<1>17. CASE FinishParkingDrain(w)
  BY ZenonT(30), <1>t, <1>17 DEF FinishParkingDrain, OnlyActor, Goto, StopParking, postVars,
     laneVars, wakeVars, drainVars, parkVars
<1>18. CASE PublishLane(w)
  BY ZenonT(30), <1>t, <1>18 DEF PublishLane, OnlyActor, Goto, postVars,
     laneVars, wakeVars, drainVars, parkVars
<1>19. CASE PublishSender(w)
  BY ZenonT(30), <1>t, <1>19 DEF PublishSender, OnlyActor, Goto, postVars,
     laneVars, wakeVars, drainVars, parkVars
<1>20. CASE BumpTarget(w)
  BY ZenonT(30), <1>t, <1>20 DEF BumpTarget, OnlyActor, Goto, postVars,
     laneVars, wakeVars, drainVars, parkVars
<1>21. CASE Submit(w)
  BY ZenonT(30), <1>t, <1>21 DEF Submit, OnlyActor, Goto, EndFlush, postVars,
     laneVars, wakeVars, drainVars, parkVars
<1>22. CASE BusyPoll(w)
  BY ZenonT(30), <1>t, <1>22 DEF BusyPoll, OnlyActor, Goto, postVars,
     laneVars, wakeVars, drainVars, parkVars
<1>23. CASE Snapshot(w)
  BY ZenonT(30), <1>t, <1>23 DEF Snapshot, OnlyActor, Goto, postVars,
     laneVars, wakeVars, drainVars, parkVars
<1>24. CASE Park(w)
  BY ZenonT(30), <1>t, <1>24 DEF Park, OnlyActor, Goto, StopParking, postVars,
     laneVars, wakeVars, drainVars, parkVars
<1>25. CASE Wake(w)
  BY ZenonT(30), <1>t, <1>25 DEF Wake, OnlyActor, Goto, postVars,
     laneVars, wakeVars, drainVars, parkVars
<1>26. CASE Unpark(w)
  BY ZenonT(30), <1>t, <1>26 DEF Unpark, OnlyActor, Goto, postVars,
     laneVars, wakeVars, drainVars, parkVars
<1>27. CASE SubmitUnavailable(w)
  BY ZenonT(30), <1>t, <1>27 DEF SubmitUnavailable, OnlyActor, Goto, EndFlush, postVars,
     laneVars, wakeVars, drainVars, parkVars
<1>28. CASE WakeOther(w)
  BY ZenonT(30), <1>t, <1>28 DEF WakeOther, OnlyActor, Goto, postVars,
     laneVars, wakeVars, drainVars, parkVars
<1> QED BY ZenonT(40), <1>1, <1>2, <1>3, <1>4, <1>5, <1>6, <1>7, <1>8, <1>9, <1>10,
       <1>11, <1>12, <1>13, <1>14, <1>15, <1>16, <1>17, <1>18, <1>19, <1>20,
       <1>21, <1>22, <1>23, <1>24, <1>25, <1>26, <1>27, <1>28
     DEF Step, PostStep, DrainStep, RoundStep

LEMMA ActorPost ==
    ASSUME TypeOK, NEW w \in Worker, NEW m \in Msg, NEW t \in Worker,
           Post(w, m, t)
    PROVE  OnlyActor(w)
<1>t. /\ post \in [Thread -> [target : Worker, msg : Msg, queued : BOOLEAN]]
      /\ pc \in [Thread -> WorkerLocations \cup ForeignLocations]
  BY Zenon DEF TypeOK, LocationsOK
<1> QED BY ZenonT(30), <1>t DEF Post, OnlyActor, Goto, wakeVars, drainVars, parkVars

LEMMA ActorForeign ==
    ASSUME TypeOK, NEW f \in Foreign,
           \/ ForeignStep(f)
           \/ \E m \in Ntf, t \in Worker : ForeignPost(f, m, t)
    PROVE  OnlyActor(f)
<1>t. /\ post \in [Thread -> [target : Worker, msg : Msg, queued : BOOLEAN]]
      /\ pc \in [Thread -> WorkerLocations \cup ForeignLocations]
  BY Zenon DEF TypeOK, LocationsOK
<1>1. CASE ForeignFlag(f)
  BY ZenonT(30), <1>t, <1>1 DEF ForeignFlag, OnlyActor, Goto, postVars, wakeVars, drainVars, parkVars
<1>2. CASE ForeignBump(f)
  BY ZenonT(30), <1>t, <1>2 DEF ForeignBump, OnlyActor, Goto, postVars, wakeVars, drainVars, parkVars
<1>3. CASE ForeignWake(f)
  BY ZenonT(30), <1>t, <1>3 DEF ForeignWake, OnlyActor, Goto, postVars, wakeVars, drainVars, parkVars
<1>4. CASE \E m \in Ntf, t \in Worker : ForeignPost(f, m, t)
  BY ZenonT(30), <1>t, <1>4 DEF ForeignPost, OnlyActor, Goto, wakeVars, drainVars, parkVars
<1> QED BY <1>1, <1>2, <1>3, <1>4 DEF ForeignStep

(* A step of worker w that other workers do not notice.                    *)
Local(w) ==
    /\ \A r \in Worker \ {w} :
          /\ ring'[r] = ring[r] /\ bits'[r] = bits[r]
          /\ overflow'[r] = overflow[r] /\ overflowPending'[r] = overflowPending[r]
          /\ wakeSeq'[r] = wakeSeq[r] /\ bumps'[r] = bumps[r]
          /\ wakeCqe'[r] = wakeCqe[r]
    /\ UNCHANGED <<wakeList, outbox>>
    /\ pc[w] \notin {"flag", "mark"}

LEMMA LocalSteps ==
    ASSUME TypeOK, NEW w \in Worker,
           \/ StartDrain(w) \/ DrainOverflow(w) \/ TakeActiveSenders(w)
           \/ VisitSender(w) \/ DrainQueue(w) \/ CloseLane(w)
           \/ RecheckLane(w) \/ ReopenLane(w) \/ ReactivateSender(w)
           \/ EndScan(w) \/ FinishDrain(w) \/ FinishParkingDrain(w)
           \/ PublishLane(w) \/ BusyPoll(w) \/ Snapshot(w)
           \/ Park(w) \/ Wake(w) \/ Unpark(w)
           \/ SubmitUnavailable(w) \/ WakeOther(w)
    PROVE  Local(w)
<1>t. /\ ring \in [Worker -> [Worker -> [Kind -> Seq(Msg)]]]
      /\ bits \in [Worker -> SUBSET Worker]
      /\ overflow \in [Worker -> [Kind -> Seq(Msg)]]
      /\ overflowPending \in [Worker -> BOOLEAN]
      /\ wakeSeq \in [Worker -> 0..(SeqMod - 1)]
      /\ bumps \in [Worker -> 0..(SeqMod - 1)]
      /\ wakeCqe \in [Worker -> BOOLEAN]
  BY Zenon DEF TypeOK
<1>1. CASE StartDrain(w)
  BY ZenonT(30), <1>t, <1>1 DEF StartDrain, Local, Goto, laneVars, overVars,
     wakeVars, parkVars
<1>2. CASE DrainOverflow(w)
  BY ZenonT(30), <1>t, <1>2 DEF DrainOverflow, Local, Goto, laneVars, overVars,
     wakeVars, parkVars
<1>3. CASE TakeActiveSenders(w)
  BY ZenonT(30), <1>t, <1>3 DEF TakeActiveSenders, Local, Goto, laneVars, overVars,
     wakeVars, parkVars
<1>4. CASE VisitSender(w)
  BY ZenonT(30), <1>t, <1>4 DEF VisitSender, Local, Goto, laneVars, overVars,
     wakeVars, parkVars
<1>5. CASE DrainQueue(w)
  BY ZenonT(30), <1>t, <1>5 DEF DrainQueue, Local, Goto, laneVars, overVars,
     wakeVars, parkVars
<1>6. CASE CloseLane(w)
  BY ZenonT(30), <1>t, <1>6 DEF CloseLane, Local, Goto, laneVars, overVars,
     wakeVars, parkVars
<1>7. CASE RecheckLane(w)
  BY ZenonT(30), <1>t, <1>7 DEF RecheckLane, Local, Goto, laneVars, overVars,
     wakeVars, parkVars
<1>8. CASE ReopenLane(w)
  BY ZenonT(30), <1>t, <1>8 DEF ReopenLane, Local, Goto, laneVars, overVars,
     wakeVars, parkVars
<1>9. CASE ReactivateSender(w)
  BY ZenonT(30), <1>t, <1>9 DEF ReactivateSender, Local, Goto, laneVars, overVars,
     wakeVars, parkVars
<1>10. CASE EndScan(w)
  BY ZenonT(30), <1>t, <1>10 DEF EndScan, Local, Goto, laneVars, overVars,
     wakeVars, parkVars
<1>11. CASE FinishDrain(w)
  BY ZenonT(30), <1>t, <1>11 DEF FinishDrain, Local, Goto, laneVars, overVars,
     wakeVars, parkVars
<1>12. CASE FinishParkingDrain(w)
  BY ZenonT(30), <1>t, <1>12 DEF FinishParkingDrain, Local, Goto, StopParking, laneVars, overVars,
     wakeVars, parkVars
<1>13. CASE PublishLane(w)
  BY ZenonT(30), <1>t, <1>13 DEF PublishLane, Local, Goto, laneVars, overVars,
     wakeVars, parkVars
<1>14. CASE BusyPoll(w)
  BY ZenonT(30), <1>t, <1>14 DEF BusyPoll, Local, Goto, laneVars, overVars,
     wakeVars, parkVars
<1>15. CASE Snapshot(w)
  BY ZenonT(30), <1>t, <1>15 DEF Snapshot, Local, Goto, laneVars, overVars,
     wakeVars, parkVars
<1>16. CASE Park(w)
  BY ZenonT(30), <1>t, <1>16 DEF Park, Local, Goto, StopParking, laneVars, overVars,
     wakeVars, parkVars
<1>17. CASE Wake(w)
  BY ZenonT(30), <1>t, <1>17 DEF Wake, Local, Goto, laneVars, overVars,
     wakeVars, parkVars
<1>18. CASE Unpark(w)
  BY ZenonT(30), <1>t, <1>18 DEF Unpark, Local, Goto, laneVars, overVars,
     wakeVars, parkVars
<1>19. CASE SubmitUnavailable(w)
  BY ZenonT(30), <1>t, <1>19 DEF SubmitUnavailable, Local, Goto, EndFlush, laneVars, overVars,
     wakeVars, parkVars
<1>20. CASE WakeOther(w)
  BY ZenonT(30), <1>t, <1>20 DEF WakeOther, Local, Goto, laneVars, overVars,
     wakeVars, parkVars
<1> QED BY Zenon, <1>1, <1>2, <1>3, <1>4, <1>5, <1>6, <1>7, <1>8, <1>9, <1>10,
       <1>11, <1>12, <1>13, <1>14, <1>15, <1>16, <1>17, <1>18, <1>19, <1>20

LEMMA LocalPost ==
    ASSUME TypeOK, NEW w \in Worker, NEW m \in Msg, NEW t \in Worker,
           Post(w, m, t)
    PROVE  Local(w)
BY ZenonT(30) DEF Post, Local, Goto, laneVars, overVars, wakeVars, parkVars

(* Where the threads are, and who is one.                                  *)
LEMMA ThreadFacts ==
    ASSUME TypeOK
    PROVE  /\ \A w \in Worker : w \in Thread /\ w \notin Foreign
           /\ \A f \in Foreign : f \in Thread /\ f \notin Worker
           /\ \A w \in Worker : pc[w] \notin ForeignLocations
           /\ \A f \in Foreign : pc[f] \in ForeignLocations
BY ZenonT(30), NamesAssumption
DEF TypeOK, LocationsOK, Thread, WorkerLocations, ForeignLocations

LEMMA ReachesLocal ==
    ASSUME TypeOK, NEW w \in Worker, NEW r \in Worker \ {w},
           OnlyActor(w), Local(w)
    PROVE  Reaches(w, r)
<1>t. /\ \A u \in Worker : u \in Thread /\ u \notin Foreign
      /\ \A f \in Foreign : f \in Thread /\ f \notin Worker
      /\ pc[w] \notin {"flag", "mark", "foreign_flag"}
  BY Zenon, ThreadFacts DEF Local, ForeignLocations
<1>1. Owes(w, r) => Owes(w, r)'
  BY Zenon, <1>t DEF Owes, Local
<1>2. WakeComing(r) => WakeComing(r)'
  BY ZenonT(30), <1>t DEF WakeComing, Local, OnlyActor
<1> QED BY ZenonT(30), <1>t, <1>1, <1>2 DEF Reaches, Local, Flagging

LEMMA ReachesTryEnqueue ==
    ASSUME TypeOK, NEW w \in Worker, NEW r \in Worker \ {w},
           OnlyActor(w), TryEnqueue(w)
    PROVE  Reaches(w, r)
<1> DEFINE t == post[w].target
           m == post[w].msg
<1>t. /\ \A u \in Worker : u \in Thread /\ u \notin Foreign
      /\ \A f \in Foreign : f \in Thread /\ f \notin Worker
      /\ ring \in [Worker -> [Worker -> [Kind -> Seq(Msg)]]]
      /\ post \in [Thread -> [target : Worker, msg : Msg, queued : BOOLEAN]]
      /\ pc \in [Thread -> WorkerLocations \cup ForeignLocations]
      /\ t \in Worker /\ KindOf(m) \in Kind
  BY ZenonT(40), ThreadFacts, PostType DEF TypeOK, LocationsOK
<1>u. /\ pc[w] = "enqueue"
      /\ UNCHANGED <<bits, overflow, overflowPending, wakeSeq, bumps, wakeList,
                     outbox, wakeCqe>>
  BY Zenon DEF TryEnqueue, overVars, wakeVars, parkVars
<1>1. Owes(w, r) => Owes(w, r)'
  BY Zenon, <1>t, <1>u DEF Owes
<1>2. WakeComing(r) => WakeComing(r)'
  BY ZenonT(30), <1>t, <1>u DEF WakeComing, OnlyActor
<1>3. ASSUME NEW s \in Worker, NEW k \in Kind, ring'[r][s][k] # ring[r][s][k]
      PROVE  s = w /\ Owes(w, r)'
  <2>0. ring' = [ring EXCEPT ![t][w][KindOf(m)] =
                    IF HasRoom(ring[t][w][KindOf(m)])
                    THEN Append(ring[t][w][KindOf(m)], m)
                    ELSE ring[t][w][KindOf(m)]]
    BY Zenon, <1>t DEF TryEnqueue
  <2>1. r = t /\ s = w /\ HasRoom(ring[t][w][KindOf(m)])
    <3> HIDE DEF t, m
    <3>1. r # t \/ s # w => ring'[r][s] = ring[r][s]
      BY <1>t, <2>0
    <3>2. ~HasRoom(ring[t][w][KindOf(m)]) => ring'[t][w][k] = ring[t][w][k]
      BY <1>t, <2>0
    <3> QED BY SMTT(30), <1>3, <3>1, <3>2
  <2>2. post' = [post EXCEPT ![w] = [post[w] EXCEPT !.queued = TRUE]]
    BY Zenon, <1>t, <2>1 DEF TryEnqueue
  <2>3. pc'[w] = "mark"
    BY ZenonT(30), <1>t, <2>1 DEF TryEnqueue, Goto
  <2>4. post'[w].target = t
    BY <1>t, <2>2
  <2> QED BY Zenon, <2>1, <2>3, <2>4 DEF Owes
<1> HIDE DEF t, m
<1> QED BY ZenonT(30), <1>u, <1>1, <1>2, <1>3 DEF Reaches, Flagging

LEMMA ReachesEnqueueOverflow ==
    ASSUME TypeOK, NEW w \in Worker, NEW r \in Worker \ {w},
           OnlyActor(w), EnqueueOverflow(w)
    PROVE  Reaches(w, r)
<1> DEFINE t == post[w].target
           m == post[w].msg
<1>t. /\ \A u \in Worker : u \in Thread /\ u \notin Foreign
      /\ \A f \in Foreign : f \in Thread /\ f \notin Worker
      /\ overflow \in [Worker -> [Kind -> Seq(Msg)]]
      /\ pc \in [Thread -> WorkerLocations \cup ForeignLocations]
      /\ t \in Worker /\ KindOf(m) \in Kind
  BY ZenonT(40), ThreadFacts, PostType DEF TypeOK, LocationsOK
<1>u. /\ pc[w] = "spill" /\ pc'[w] = "flag"
      /\ UNCHANGED <<post, ring, bits, overflowPending, wakeSeq, bumps, wakeList,
                     outbox, wakeCqe>>
  BY Zenon, <1>t DEF EnqueueOverflow, Goto, postVars, laneVars, wakeVars, parkVars
<1>1. Owes(w, r) => Owes(w, r)'
  BY Zenon, <1>t, <1>u DEF Owes
<1>2. WakeComing(r) => WakeComing(r)'
  BY ZenonT(30), <1>t, <1>u DEF WakeComing, OnlyActor
<1>3. ASSUME NEW k \in Kind, overflow'[r][k] # overflow[r][k]
      PROVE  Flagging(w, r)' /\ Owes(w, r)'
  <2>1. r = t
    BY Zenon, <1>t, <1>3 DEF EnqueueOverflow
  <2> QED BY Zenon, <1>u, <2>1 DEF Owes, Flagging
<1> HIDE DEF t, m
<1> QED BY ZenonT(30), <1>u, <1>1, <1>2, <1>3 DEF Reaches, Flagging

LEMMA ReachesFlagOverflow ==
    ASSUME TypeOK, NEW w \in Worker, NEW r \in Worker \ {w},
           OnlyActor(w), FlagOverflow(w)
    PROVE  Reaches(w, r)
<1>t. /\ \A u \in Worker : u \in Thread /\ u \notin Foreign
      /\ \A f \in Foreign : f \in Thread /\ f \notin Worker
      /\ overflowPending \in [Worker -> BOOLEAN]
      /\ pc \in [Thread -> WorkerLocations \cup ForeignLocations]
      /\ post[w].target \in Worker
  BY ZenonT(40), ThreadFacts, PostType DEF TypeOK, LocationsOK
<1>u. /\ pc[w] = "flag" /\ pc'[w] = "mark"
      /\ UNCHANGED <<post, ring, bits, overflow, wakeSeq, bumps, wakeList,
                     outbox, wakeCqe>>
  BY Zenon, <1>t DEF FlagOverflow, Goto, postVars, laneVars, wakeVars, parkVars
<1>1. Owes(w, r) => Owes(w, r)'
  BY Zenon, <1>t, <1>u DEF Owes
<1>2. WakeComing(r) => WakeComing(r)'
  BY ZenonT(30), <1>t, <1>u DEF WakeComing, OnlyActor
<1>3. overflowPending[r] \/ Flagging(w, r) => overflowPending'[r]
  BY Zenon, <1>t DEF FlagOverflow, Flagging
<1> QED BY ZenonT(30), <1>u, <1>1, <1>2, <1>3 DEF Reaches

(* What marking a target does to wake_list_.                               *)
LEMMA MarkWakeLists ==
    ASSUME LaneInv, NEW w \in Worker, MarkWake(w)
    PROVE  \A u \in Worker :
              InList(w, u) \/ (u = post[w].target /\ u # w) => InList(w, u)'
<1> DEFINE t == post[w].target
           first == t # w /\ wakePending[w][t] = 0
<1>t. /\ wakeList \in [Worker -> Seq(Worker)] /\ t \in Worker
  BY ZenonT(40), ThreadFacts, PostType DEF LaneInv, TypeOK
<1>1. wakeList'[w] = IF first THEN Append(wakeList[w], t) ELSE wakeList[w]
  BY Zenon, <1>t DEF MarkWake
<1>2. CASE first
  <2>1. wakeList[w] \in Seq(Worker) /\ wakeList'[w] = Append(wakeList[w], t)
    BY <1>t, <1>1, <1>2
  <2>2. /\ \E i \in 1..Len(wakeList'[w]) : wakeList'[w][i] = t
        /\ \A i \in 1..Len(wakeList[w]) :
              i \in 1..Len(wakeList'[w]) /\ wakeList'[w][i] = wakeList[w][i]
    <3>1. t \in Worker
      BY <1>t
    <3> HIDE DEF t
    <3> QED BY <2>1, <3>1, AppendHas
  <2> QED BY Zenon, <2>2 DEF InList
<1>3. CASE ~first
  <2>1. t # w => InList(w, t)
    BY Zenon, <1>t, <1>3 DEF LaneInv, WakeListOK
  <2> QED BY Zenon, <1>1, <1>3, <2>1 DEF InList
<1> QED BY <1>2, <1>3

LEMMA ReachesMarkWake ==
    ASSUME LaneInv, NEW w \in Worker, NEW r \in Worker \ {w},
           OnlyActor(w), MarkWake(w)
    PROVE  Reaches(w, r)
<1>t. /\ \A u \in Worker : u \in Thread /\ u \notin Foreign
      /\ \A f \in Foreign : f \in Thread /\ f \notin Worker
  BY Zenon, ThreadFacts DEF LaneInv
<1>u. /\ pc[w] = "mark"
      /\ UNCHANGED <<ring, bits, overflow, overflowPending, wakeSeq, bumps,
                     outbox, wakeCqe>>
  BY Zenon DEF MarkWake, overVars, parkVars
<1>1. Owes(w, r) => Owes(w, r)'
  <2>1. Owes(w, r) => InList(w, r) \/ post[w].target = r
    BY Zenon, <1>t DEF Owes, InList
  <2>2. Owes(w, r) => InList(w, r)'
    BY Zenon, <2>1, MarkWakeLists
  <2> QED BY Zenon, <2>2 DEF Owes, InList
<1>2. WakeComing(r) => WakeComing(r)'
  BY ZenonT(30), <1>t, <1>u DEF WakeComing, OnlyActor
<1> QED BY ZenonT(30), <1>u, <1>1, <1>2 DEF Reaches, Flagging

LEMMA ReachesBits ==
    ASSUME LaneInv, NEW w \in Worker, NEW r \in Worker \ {w},
           OnlyActor(w), ActivateSender(w) \/ PublishSender(w)
    PROVE  Reaches(w, r)
<1>t. /\ \A u \in Worker : u \in Thread /\ u \notin Foreign
      /\ \A f \in Foreign : f \in Thread /\ f \notin Worker
      /\ bits \in [Worker -> SUBSET Worker]
  BY Zenon, ThreadFacts DEF LaneInv, TypeOK
<1>u. /\ pc[w] \in {"setbit", "pubbit"}
      /\ UNCHANGED <<ring, overflow, overflowPending, wakeSeq, bumps, wakeList,
                     outbox, wakeCqe>>
  BY Zenon DEF ActivateSender, PublishSender, overVars, wakeVars, parkVars
<1>1. Owes(w, r) => Owes(w, r)'
  BY Zenon, <1>t, <1>u DEF Owes
<1>2. WakeComing(r) => WakeComing(r)'
  BY ZenonT(30), <1>t, <1>u DEF WakeComing, OnlyActor
<1>3. bits[r] \subseteq bits'[r]
  <2>1. PICK x : bits' = [bits EXCEPT ![x] = bits[x] \cup {w}]
    BY Zenon DEF ActivateSender, PublishSender
  <2> QED BY <1>t, <2>1
<1> QED BY ZenonT(30), <1>u, <1>1, <1>2, <1>3 DEF Reaches, Flagging

LEMMA ReachesBumpTarget ==
    ASSUME LaneInv, NEW w \in Worker, NEW r \in Worker \ {w},
           OnlyActor(w), BumpTarget(w)
    PROVE  Reaches(w, r)
<1> DEFINE t == Head(wakeList[w])
<1>t. /\ \A u \in Worker : u \in Thread /\ u \notin Foreign
      /\ \A f \in Foreign : f \in Thread /\ f \notin Worker
      /\ wakeList \in [Worker -> Seq(Worker)]
      /\ outbox \in [Worker -> SUBSET Worker]
      /\ wakeSeq \in [Worker -> 0..(SeqMod - 1)]
      /\ bumps \in [Worker -> 0..(SeqMod - 1)]
  BY ZenonT(40), ThreadFacts DEF LaneInv, TypeOK
<1>u. /\ pc[w] = "bump" /\ wakeList[w] # <<>> /\ Bump(t)
      /\ UNCHANGED <<post, ring, bits, overflow, overflowPending, wakeCqe>>
      /\ wakeList' = [wakeList EXCEPT ![w] = Tail(wakeList[w])]
      /\ outbox' = [outbox EXCEPT ![w] = IF MustWake(t) THEN outbox[w] \cup {t}
                                         ELSE outbox[w]]
  BY Zenon, <1>t DEF BumpTarget, LaneInv, FlushOK, postVars, laneVars, overVars
<1>h. t \in Worker
  BY <1>t, <1>u, HeadTailProperties
<1> HIDE DEF t
<1>1. t # r /\ Owes(w, r) => Owes(w, r)'
  <2>1. /\ wakeList[w] \in Seq(Worker) /\ wakeList'[w] = Tail(wakeList[w])
        /\ wakeList[w] # <<>>
    BY <1>t, <1>u
  <2>2. \A i \in 1..Len(wakeList[w]) :
          wakeList[w][i] # t =>
            \E j \in 1..Len(wakeList'[w]) : wakeList'[w][j] = wakeList[w][i]
    <3> SUFFICES ASSUME NEW i \in 1..Len(wakeList[w]),
                        wakeList[w][i] # Head(wakeList[w])
                 PROVE  \E j \in 1..Len(Tail(wakeList[w])) :
                            Tail(wakeList[w])[j] = wakeList[w][i]
      BY Zenon, <2>1 DEF t
    <3> QED BY Zenon, <2>1, TailHas
  <2>3. Owes(w, r) => InList(w, r)
    BY Zenon, <1>t, <1>u DEF Owes, InList
  <2>4. t # r /\ InList(w, r) => InList(w, r)'
    BY Zenon, <2>2 DEF InList
  <2> QED BY Zenon, <2>3, <2>4 DEF Owes, InList
<1>2. \A s \in Worker : outbox[s] \subseteq outbox'[s]
  BY Zenon, <1>t, <1>u
<1>3. WakeComing(r) => WakeComing(r)'
  BY ZenonT(30), <1>t, <1>u, <1>2 DEF WakeComing, OnlyActor
<1>4. t # r => wakeSeq'[r] = wakeSeq[r] /\ bumps'[r] = bumps[r]
  BY Zenon, <1>t, <1>u DEF Bump
<1>5. t = r /\ MustWake(r) => WakeComing(r)'
  BY Zenon, <1>t, <1>u DEF WakeComing
<1>6. \/ /\ wakeSeq'[r] = wakeSeq[r] /\ bumps'[r] = bumps[r]
         /\ Owes(w, r) => Owes(w, r)'
      \/ Bump(r) /\ (MustWake(r) => WakeComing(r)')
  BY Zenon, <1>u, <1>1, <1>4, <1>5
<1> QED BY ZenonT(30), <1>u, <1>3, <1>6 DEF Reaches, Flagging

LEMMA ReachesSubmit ==
    ASSUME LaneInv, NEW w \in Worker, NEW r \in Worker \ {w},
           OnlyActor(w), Submit(w)
    PROVE  Reaches(w, r)
<1>t. /\ \A u \in Worker : u \in Thread /\ u \notin Foreign
      /\ \A f \in Foreign : f \in Thread /\ f \notin Worker
      /\ outbox \in [Worker -> SUBSET Worker]
  BY ZenonT(40), ThreadFacts DEF LaneInv, TypeOK
<1>u. /\ pc[w] \in {"run", "flush"}
      /\ UNCHANGED <<ring, bits, overflow, overflowPending, wakeSeq, bumps, wakeList>>
      /\ wakeCqe[r] \/ r \in outbox[w] => wakeCqe'[r]
      /\ \A s \in Worker \ {w} : outbox'[s] = outbox[s]
  BY Zenon, <1>t DEF Submit, laneVars, overVars, parkVars
<1>1. Owes(w, r) => Owes(w, r)'
  BY Zenon, <1>t, <1>u DEF Owes
<1>2. WakeComing(r) => WakeComing(r)'
  BY ZenonT(30), <1>t, <1>u DEF WakeComing, OnlyActor
<1> QED BY ZenonT(30), <1>u, <1>1, <1>2 DEF Reaches, Flagging

LEMMA ReachesForeign ==
    ASSUME TypeOK, NEW f \in Foreign, NEW r \in Worker, OnlyActor(f),
           \/ ForeignStep(f)
           \/ \E m \in Ntf, t \in Worker : ForeignPost(f, m, t)
    PROVE  Reaches(f, r)
<1>t. /\ \A u \in Worker : u \in Thread /\ u \notin Foreign
      /\ \A g \in Foreign : g \in Thread /\ g \notin Worker
      /\ pc \in [Thread -> WorkerLocations \cup ForeignLocations]
      /\ post \in [Thread -> [target : Worker, msg : Msg, queued : BOOLEAN]]
      /\ overflow \in [Worker -> [Kind -> Seq(Msg)]]
      /\ overflowPending \in [Worker -> BOOLEAN]
      /\ wakeSeq \in [Worker -> 0..(SeqMod - 1)]
      /\ bumps \in [Worker -> 0..(SeqMod - 1)]
      /\ wakeCqe \in [Worker -> BOOLEAN]
      /\ post[f].target \in Worker
  BY ZenonT(40), ThreadFacts, PostType DEF TypeOK, LocationsOK
<1>u. UNCHANGED <<ring, bits, wakeList, outbox>>
  BY Zenon DEF ForeignStep, ForeignFlag, ForeignBump, ForeignWake, ForeignPost,
     laneVars, wakeVars
<1>1. CASE ForeignFlag(f)
  <2>1. /\ pc[f] = "foreign_flag" /\ pc'[f] = "foreign_bump"
        /\ UNCHANGED <<post, overflow, wakeSeq, bumps, wakeCqe>>
    BY Zenon, <1>t, <1>1 DEF ForeignFlag, Goto, postVars, parkVars
  <2>2. Owes(f, r) => Owes(f, r)'
    BY Zenon, <1>t, <2>1 DEF Owes
  <2>3. WakeComing(r) => WakeComing(r)'
    BY ZenonT(30), <1>t, <1>u, <2>1 DEF WakeComing, OnlyActor
  <2>4. overflowPending[r] \/ Flagging(f, r) => overflowPending'[r]
    BY Zenon, <1>t, <1>1 DEF ForeignFlag, Flagging
  <2> QED BY ZenonT(30), <1>u, <2>1, <2>2, <2>3, <2>4 DEF Reaches
<1>2. CASE ForeignBump(f)
  <2> DEFINE t == post[f].target
  <2>1. /\ pc[f] = "foreign_bump" /\ Bump(t)
        /\ pc'[f] = (IF MustWake(t) THEN "foreign_wake" ELSE "foreign")
        /\ UNCHANGED <<post, overflow, overflowPending, wakeCqe>>
    BY Zenon, <1>t, <1>2 DEF ForeignBump, Goto, postVars, overVars
  <2>2. WakeComing(r) => WakeComing(r)'
    BY ZenonT(30), <1>t, <1>u, <2>1 DEF WakeComing, OnlyActor
  <2>3. t # r => /\ wakeSeq'[r] = wakeSeq[r] /\ bumps'[r] = bumps[r]
                 /\ Owes(f, r) => Owes(f, r)'
    BY Zenon, <1>t, <2>1 DEF Bump, Owes
  <2>4. t = r /\ MustWake(r) => WakeComing(r)'
    BY Zenon, <1>t, <2>1 DEF WakeComing
  <2>5. \/ /\ wakeSeq'[r] = wakeSeq[r] /\ bumps'[r] = bumps[r]
           /\ Owes(f, r) => Owes(f, r)'
        \/ Bump(r) /\ (MustWake(r) => WakeComing(r)')
    BY Zenon, <2>1, <2>3, <2>4
  <2> HIDE DEF t
  <2> QED BY ZenonT(30), <1>u, <2>1, <2>2, <2>5 DEF Reaches, Flagging
<1>3. CASE ForeignWake(f)
  <2>1. /\ pc[f] = "foreign_wake"
        /\ UNCHANGED <<post, overflow, overflowPending, wakeSeq, bumps>>
        /\ wakeCqe[r] \/ post[f].target = r => wakeCqe'[r]
    BY Zenon, <1>t, <1>3 DEF ForeignWake, postVars, overVars, parkVars
  <2>2. Owes(f, r) => Owes(f, r)'
    BY Zenon, <1>t, <2>1 DEF Owes
  <2>3. WakeComing(r) => WakeComing(r)'
    BY ZenonT(30), <1>t, <1>u, <2>1 DEF WakeComing, OnlyActor
  <2> QED BY ZenonT(30), <1>u, <2>1, <2>2, <2>3 DEF Reaches, Flagging
<1>4. ASSUME NEW m \in Ntf, NEW t \in Worker, ForeignPost(f, m, t)
      PROVE  Reaches(f, r)
  <2>1. /\ pc[f] = "foreign" /\ pc'[f] = "foreign_flag"
        /\ UNCHANGED <<overflowPending, wakeSeq, bumps, wakeCqe>>
    BY Zenon, <1>t, <1>4 DEF ForeignPost, Goto, parkVars
  <2>2. post'[f].target = t
    <3>1. post' = [post EXCEPT ![f] = [post[f] EXCEPT !.target = t]]
      BY Zenon, <1>t, <1>4 DEF ForeignPost
    <3> QED BY <1>t, <3>1
  <2>3. Owes(f, r) => Owes(f, r)'
    BY Zenon, <1>t, <2>1 DEF Owes
  <2>4. WakeComing(r) => WakeComing(r)'
    BY ZenonT(30), <1>t, <1>u, <2>1 DEF WakeComing, OnlyActor
  <2>5. r # t => overflow'[r] = overflow[r]
    BY ZenonT(40), <1>t, <1>4 DEF ForeignPost
  <2>6. r = t => Flagging(f, r)' /\ Owes(f, r)'
    BY Zenon, <1>t, <2>1, <2>2 DEF Flagging, Owes
  <2> QED BY ZenonT(30), <1>u, <2>1, <2>3, <2>4, <2>5, <2>6 DEF Reaches, Flagging
<1> QED BY SMTT(30), <1>1, <1>2, <1>3, <1>4 DEF ForeignStep

(* What wake_seq_ is after a number of bumps.                              *)
Moved(from, by) == IF from + by < SeqMod THEN from + by ELSE from + by - SeqMod

LEMMA MovedOn ==
    ASSUME NEW a \in 0..(SeqMod - 1), NEW b \in 0..(SeqMod - 1), b + 1 < SeqMod
    PROVE  Moved(a, b + 1) = IF Moved(a, b) + 1 = SeqMod THEN 0
                             ELSE Moved(a, b) + 1
BY SizesAssumption DEF Moved

(* A thread other than worker r keeps what holds of r.                     *)
LEMMA RemoteKeeps ==
    ASSUME TypeOK, NEW p \in Thread, NEW r \in Worker, p # r,
           OnlyActor(p), Reaches(p, r), WorkerInv(r)
    PROVE  WorkerInv(r)'
<1>t. /\ r \in Thread /\ seq[r] \in 0..(SeqMod - 1) /\ bumps[r] \in 0..(SeqMod - 1)
      /\ wakeSeq \in [Worker -> 0..(SeqMod - 1)]
      /\ bumps \in [Worker -> 0..(SeqMod - 1)]
  BY Zenon DEF TypeOK, Thread
<1>u. /\ pc'[r] = pc[r] /\ post'[r] = post[r] /\ drain'[r] = drain[r]
      /\ cursor'[r] = cursor[r] /\ parking'[r] = parking[r] /\ seq'[r] = seq[r]
      /\ wakeList'[r] = wakeList[r]
  BY Zenon, <1>t DEF OnlyActor
<1>i. DrainOK(r) /\ PostedOK(r) /\ OverflowOK(r) /\ ParkingOK(r) /\ SleepsSafely(r)
  BY Zenon DEF WorkerInv
<1>o. \A s \in Thread : Owes(s, r) => Owes(s, r)' \/ s = p
  BY ZenonT(40) DEF Owes, OnlyActor
<1>1. DrainOK(r)'
  BY Zenon, <1>u, <1>i DEF DrainOK
<1>2. PostedOK(r)'
  BY Zenon, <1>u, <1>i DEF PostedOK, InList
<1>d. \A k \in Kind : OverflowDue(r, k) => OverflowDue(r, k)'
  BY Zenon, <1>u DEF OverflowDue
<1>3. OverflowOK(r)'
  <2> SUFFICES ASSUME NEW k \in Kind, overflow'[r][k] # <<>>
               PROVE  \/ overflowPending'[r]
                      \/ \E q \in Thread : Flagging(q, r)'
                      \/ OverflowDue(r, k)'
    BY Zenon DEF OverflowOK
  <2>1. CASE overflow'[r][k] # overflow[r][k]
    BY Zenon, <2>1 DEF Reaches
  <2>2. CASE overflow'[r][k] = overflow[r][k]
    <3>1. \/ overflowPending[r]
          \/ \E q \in Thread : Flagging(q, r)
          \/ OverflowDue(r, k)
      BY Zenon, <1>i, <2>2 DEF OverflowOK
    <3>2. overflowPending[r] \/ Flagging(p, r) => overflowPending'[r]
      BY Zenon DEF Reaches
    <3>3. \A q \in Thread : Flagging(q, r) => q = p \/ Flagging(q, r)'
      BY Zenon DEF Flagging, OnlyActor
    <3> QED BY Zenon, <1>d, <3>1, <3>2, <3>3
  <2> QED BY <2>1, <2>2
<1>b. ASSUME Bump(r), MustWake(r) => WakeComing(r)'
      PROVE  ParkingOK(r)' /\ SleepsSafely(r)'
  <2>1. /\ wakeSeq'[r] = (IF wakeSeq[r] + 1 = SeqMod THEN 0 ELSE wakeSeq[r] + 1)
        /\ parking[r] => bumps[r] + 1 < SeqMod /\ bumps'[r] = bumps[r] + 1
    BY Zenon, <1>t, <1>b DEF Bump
  <2>2. ASSUME parking[r]
        PROVE  wakeSeq'[r] = Moved(seq[r], bumps'[r]) /\ bumps'[r] # 0
    <3>1. wakeSeq[r] = Moved(seq[r], bumps[r])
      BY Zenon, <1>i, <2>2 DEF ParkingOK, Moved
    <3>2. Moved(seq[r], bumps[r] + 1) = IF Moved(seq[r], bumps[r]) + 1 = SeqMod
                                        THEN 0 ELSE Moved(seq[r], bumps[r]) + 1
      BY <1>t, <2>1, <2>2, MovedOn
    <3> QED BY <1>t, <2>1, <2>2, <3>1, <3>2
  <2>3. ParkingOK(r)'
    BY Zenon, <1>u, <2>2 DEF ParkingOK, Moved
  <2>4. SleepsSafely(r)'
    BY Zenon, <1>u, <1>i, <1>b DEF SleepsSafely, MustWake, Reaches
  <2> QED BY <2>3, <2>4
<1>n. ASSUME wakeSeq'[r] = wakeSeq[r], bumps'[r] = bumps[r],
             Owes(p, r) => Owes(p, r)'
      PROVE  ParkingOK(r)' /\ SleepsSafely(r)'
  <2>1. \A s \in Thread : Owes(s, r) => Owes(s, r)'
    BY Zenon, <1>o, <1>n
  <2>2. \A s \in Worker : s \in Thread
    BY Zenon DEF Thread
  <2>3. \A s \in Worker, k \in Kind : LaneDue(r, s, k) => LaneDue(r, s, k)'
    BY ZenonT(30), <1>u DEF LaneDue, Unread, Reaches
  <2>4. SeesAll(r) => SeesAll(r)'
    BY ZenonT(60), <1>u, <1>d, <2>1, <2>2, <2>3 DEF SeesAll, Reaches
  <2>5. ParkingOK(r)'
    BY Zenon, <1>u, <1>i, <1>n, <2>4 DEF ParkingOK
  <2>6. SleepsSafely(r)'
    BY ZenonT(60), <1>u, <1>i, <1>n, <2>1, <2>2 DEF SleepsSafely, Reaches
  <2> QED BY <2>5, <2>6
<1>4. ParkingOK(r)' /\ SleepsSafely(r)'
  BY Zenon, <1>b, <1>n DEF Reaches
<1> QED BY Zenon, <1>1, <1>2, <1>3, <1>4 DEF WorkerInv

(* Nobody owes itself a bump, and a worker's own step is none of another   *)
(* thread's business.                                                      *)
LEMMA OwnOwes ==
    ASSUME TypeOK, NEW w \in Worker, OnlyActor(w)
    PROVE  /\ \A p \in Thread : Owes(p, w) <=> Owes(p, w)'
           /\ \A p \in Thread \ {w} : Flagging(p, w) <=> Flagging(p, w)'
           /\ ~Owes(w, w)
<1>1. w \notin Foreign
  BY Zenon, ThreadFacts
<1>2. ~Owes(w, w) /\ ~Owes(w, w)'
  BY Zenon, <1>1 DEF Owes
<1>3. ASSUME NEW p \in Thread \ {w} PROVE Owes(p, w) <=> Owes(p, w)'
  <2>1. /\ pc'[p] = pc[p] /\ post'[p] = post[p]
        /\ p \in Worker => wakeList'[p] = wakeList[p]
    BY Zenon DEF OnlyActor
  <2> QED BY Zenon, <2>1 DEF Owes
<1>4. \A p \in Thread \ {w} : Flagging(p, w) <=> Flagging(p, w)'
  BY Zenon DEF Flagging, OnlyActor
<1> QED BY Zenon, <1>2, <1>3, <1>4

(* A step of worker w away from its drain and from parking.                *)
Calm(w) ==
    /\ pc[w] \notin Scanning \cup {"drain", "overflow", "cas"}
    /\ ~parking'[w] /\ cursor'[w] = cursor[w]
    /\ pc'[w] \notin {"wait", "cas"}
    /\ overflowPending[w] \/ Flagging(w, w) => overflowPending'[w]
    /\ \A k \in Kind : overflow'[w][k] = overflow[w][k] \/ Flagging(w, w)'

LEMMA CalmKeeps ==
    ASSUME TypeOK, NEW w \in Worker, OnlyActor(w), Calm(w), WorkerInv(w)
    PROVE  (DrainOK(w) /\ OverflowOK(w) /\ ParkingOK(w) /\ SleepsSafely(w))'
<1>i. DrainOK(w) /\ OverflowOK(w)
  BY Zenon DEF WorkerInv
<1>1. DrainOK(w)'
  BY Zenon, <1>i DEF DrainOK, Calm, Scanning
<1>2. OverflowOK(w)'
  <2> SUFFICES ASSUME NEW k \in Kind, overflow'[w][k] # <<>>
               PROVE  overflowPending'[w] \/ \E q \in Thread : Flagging(q, w)'
    BY Zenon DEF OverflowOK
  <2>1. w \in Thread /\ ~OverflowDue(w, k)
    BY Zenon DEF OverflowDue, Calm, Thread
  <2>2. \A q \in Thread \ {w} : Flagging(q, w) => Flagging(q, w)'
    BY Zenon, OwnOwes
  <2>3. CASE overflow'[w][k] # overflow[w][k]
    BY Zenon, <2>1, <2>3 DEF Calm
  <2>4. CASE overflow'[w][k] = overflow[w][k]
    <3>1. overflowPending[w] \/ \E q \in Thread : Flagging(q, w)
      BY Zenon, <1>i, <2>1, <2>4 DEF OverflowOK
    <3> QED BY Zenon, <2>2, <3>1 DEF Calm
  <2> QED BY <2>3, <2>4
<1>3. ParkingOK(w)' /\ SleepsSafely(w)'
  BY Zenon DEF ParkingOK, SleepsSafely, Calm
<1> QED BY <1>1, <1>2, <1>3

LEMMA CalmSteps ==
    ASSUME TypeOK, NEW w \in Worker, WorkerInv(w),
           \/ TryEnqueue(w) \/ EnqueueOverflow(w) \/ FlagOverflow(w)
           \/ MarkWake(w) \/ ActivateSender(w) \/ FinishDrain(w)
           \/ PublishLane(w) \/ PublishSender(w) \/ BumpTarget(w)
           \/ Submit(w) \/ SubmitUnavailable(w) \/ BusyPoll(w)
           \/ Wake(w) \/ WakeOther(w) \/ Unpark(w)
    PROVE  Calm(w)
<1>t. /\ pc \in [Thread -> WorkerLocations \cup ForeignLocations]
      /\ w \in Thread /\ pc[w] \notin ForeignLocations
      /\ overflow \in [Worker -> [Kind -> Seq(Msg)]]
      /\ overflowPending \in [Worker -> BOOLEAN]
      /\ post[w].target \in Worker /\ KindOf(post[w].msg) \in Kind
  BY ZenonT(40), ThreadFacts, PostType DEF TypeOK, LocationsOK
<1>p. parking[w] => pc[w] \in Scanning \cup {"drain", "overflow", "return", "cas"}
  BY Zenon DEF WorkerInv, DrainOK
<1> USE DEF Calm, Goto, Scanning, Flagging
<1>1. CASE TryEnqueue(w)
  BY ZenonT(30), <1>t, <1>p, <1>1 DEF TryEnqueue, postVars, overVars,
     drainVars, parkVars, ForeignLocations
<1>2. CASE EnqueueOverflow(w)
  BY ZenonT(30), <1>t, <1>p, <1>2 DEF EnqueueOverflow, postVars, overVars,
     drainVars, parkVars, ForeignLocations
<1>3. CASE FlagOverflow(w)
  BY ZenonT(30), <1>t, <1>p, <1>3 DEF FlagOverflow, postVars, overVars,
     drainVars, parkVars, ForeignLocations
<1>4. CASE MarkWake(w)
  BY ZenonT(30), <1>t, <1>p, <1>4 DEF MarkWake, Return, postVars, overVars,
     drainVars, parkVars, ForeignLocations
<1>5. CASE ActivateSender(w)
  BY ZenonT(30), <1>t, <1>p, <1>5 DEF ActivateSender, Return, postVars, overVars,
     drainVars, parkVars, ForeignLocations
<1>6. CASE FinishDrain(w)
  BY ZenonT(30), <1>t, <1>p, <1>6 DEF FinishDrain, postVars, overVars,
     drainVars, parkVars, ForeignLocations
<1>7. CASE PublishLane(w)
  BY ZenonT(30), <1>t, <1>p, <1>7 DEF PublishLane, postVars, overVars,
     drainVars, parkVars, ForeignLocations
<1>8. CASE PublishSender(w)
  BY ZenonT(30), <1>t, <1>p, <1>8 DEF PublishSender, postVars, overVars,
     drainVars, parkVars, ForeignLocations
<1>9. CASE BumpTarget(w)
  BY ZenonT(30), <1>t, <1>p, <1>9 DEF BumpTarget, postVars, overVars,
     drainVars, parkVars, ForeignLocations
<1>10. CASE Submit(w)
  BY ZenonT(30), <1>t, <1>p, <1>10 DEF Submit, EndFlush, postVars, overVars,
     drainVars, parkVars, ForeignLocations
<1>11. CASE SubmitUnavailable(w)
  BY ZenonT(30), <1>t, <1>p, <1>11 DEF SubmitUnavailable, EndFlush, postVars, overVars,
     drainVars, parkVars, ForeignLocations
<1>12. CASE BusyPoll(w)
  BY ZenonT(30), <1>t, <1>p, <1>12 DEF BusyPoll, postVars, overVars,
     drainVars, parkVars, ForeignLocations
<1>13. CASE Wake(w)
  BY ZenonT(30), <1>t, <1>p, <1>13 DEF Wake, postVars, overVars,
     drainVars, parkVars, ForeignLocations
<1>14. CASE WakeOther(w)
  BY ZenonT(30), <1>t, <1>p, <1>14 DEF WakeOther, postVars, overVars,
     drainVars, parkVars, ForeignLocations
<1>15. CASE Unpark(w)
  BY ZenonT(30), <1>t, <1>p, <1>15 DEF Unpark, postVars, overVars,
     drainVars, parkVars, ForeignLocations
<1> QED BY ZenonT(40), <1>1, <1>2, <1>3, <1>4, <1>5, <1>6, <1>7, <1>8, <1>9, <1>10,
       <1>11, <1>12, <1>13, <1>14, <1>15

LEMMA CalmPost ==
    ASSUME TypeOK, NEW w \in Worker, WorkerInv(w), NEW m \in Msg, NEW t \in Worker,
           Post(w, m, t)
    PROVE  Calm(w)
<1>t. pc \in [Thread -> WorkerLocations \cup ForeignLocations] /\ w \in Thread
  BY ZenonT(40), ThreadFacts DEF TypeOK, LocationsOK
<1>p. parking[w] => pc[w] \in Scanning \cup {"drain", "overflow", "return", "cas"}
  BY Zenon DEF WorkerInv, DrainOK
<1> QED BY ZenonT(30), <1>t, <1>p
  DEF Post, Calm, Goto, Scanning, Flagging, overVars, drainVars, parkVars

(* A step of worker w within a drain.                                      *)
Draining(w) ==
    /\ pc'[w] \in Scanning \cup {"overflow", "return"}
    /\ wakeSeq'[w] = wakeSeq[w] /\ parking'[w] = parking[w]
    /\ seq'[w] = seq[w] /\ bumps'[w] = bumps[w]
    /\ cursor'[w].consumed = SenderQuota => pc'[w] = "dequeue" /\ Found(drain'[w].n)

LEMMA DrainKeeps ==
    ASSUME NEW w \in Worker, WorkerInv(w), Draining(w), OverflowOK(w)',
           parking[w] /\ bumps[w] = 0 /\ ~Found(drain'[w].n) => SeesAll(w)'
    PROVE  WorkerInv(w)'
<1>1. DrainOK(w)' /\ PostedOK(w)' /\ SleepsSafely(w)'
  BY Zenon DEF DrainOK, PostedOK, SleepsSafely, Draining, Scanning
<1>2. ParkingOK(w)'
  BY Zenon DEF ParkingOK, Draining, WorkerInv
<1> QED BY Zenon, <1>1, <1>2 DEF WorkerInv

(* The snapshot: the drain that follows sees everything.                   *)
LEMMA OwnSnapshot ==
    ASSUME TypeOK, NEW w \in Worker, OnlyActor(w), WorkerInv(w), Snapshot(w)
    PROVE  WorkerInv(w)'
<1>t. /\ w \in Thread /\ pc \in [Thread -> WorkerLocations \cup ForeignLocations]
      /\ parking \in [Worker -> BOOLEAN] /\ seq \in [Worker -> 0..(SeqMod - 1)]
      /\ bumps \in [Worker -> 0..(SeqMod - 1)] /\ wakeSeq[w] \in 0..(SeqMod - 1)
  BY Zenon DEF TypeOK, LocationsOK, Thread
<1>u. /\ pc'[w] = "drain" /\ pc[w] = "idle" /\ parking'[w] /\ seq'[w] = wakeSeq[w]
      /\ bumps'[w] = 0 /\ wakeSeq' = wakeSeq /\ UNCHANGED <<drain, cursor>>
      /\ UNCHANGED <<overflow, overflowPending>>
  BY Zenon, <1>t DEF Snapshot, Goto, overVars, drainVars
<1>1. DrainOK(w)' /\ PostedOK(w)' /\ SleepsSafely(w)'
  BY Zenon, <1>u DEF DrainOK, PostedOK, SleepsSafely, WorkerInv
<1>2. OverflowOK(w)'
  <2>1. \A k \in Kind : ~OverflowDue(w, k)
    BY Zenon, <1>u DEF OverflowDue, Scanning
  <2>2. \A p \in Thread : Flagging(p, w) => Flagging(p, w)'
    BY ZenonT(40), <1>u, OwnOwes DEF Flagging
  <2> QED BY Zenon, <1>u, <2>1, <2>2 DEF OverflowOK, WorkerInv
<1>3. SeesAll(w)'
  BY Zenon, <1>u DEF SeesAll, LaneDue
<1>4. wakeSeq'[w] = IF seq'[w] + bumps'[w] < SeqMod THEN seq'[w] + bumps'[w]
                    ELSE seq'[w] + bumps'[w] - SeqMod
  BY <1>t, <1>u, SizesAssumption
<1>5. ParkingOK(w)'
  BY Zenon, <1>3, <1>4 DEF ParkingOK
<1> QED BY ZenonT(40), <1>1, <1>2, <1>5 DEF WorkerInv

LEMMA OwnStartDrain ==
    ASSUME LaneInv, NEW w \in Worker, OnlyActor(w), \A r \in Worker : WorkerInv(r),
           StartDrain(w)
    PROVE  WorkerInv(w)'
<1> DEFINE over == overflowPending[w]
           first == over /\ overflowFirst[w]
           d == [NoDrain EXCEPT !.overflow = over, !.first = first,
                                !.start = cursor[w].sender]
<1>t. /\ TypeOK /\ w \in Thread
      /\ pc \in [Thread -> WorkerLocations \cup ForeignLocations]
      /\ drain \in [Worker -> DrainState] /\ overflowPending \in [Worker -> BOOLEAN]
      /\ overflowFirst \in [Worker -> BOOLEAN]
  BY ZenonT(40) DEF LaneInv, TypeOK, LocationsOK, Thread
<1>d. /\ d.overflow = over /\ d.first = first /\ d.step = 0 /\ d.kind = "req"
      /\ \A k \in Kind : d.n[k] = 0
  BY <1>t DEF NoDrain
<1>u. /\ pc[w] = "drain" /\ pc'[w] = (IF first THEN "overflow" ELSE "scan")
      /\ drain'[w] = d
      /\ UNCHANGED <<ring, active, bits, overflow, wakeSeq, cursor>>
      /\ UNCHANGED <<parking, seq, bumps>>
  BY Zenon, <1>t DEF StartDrain, Goto, laneVars, parkVars
<1> HIDE DEF d
<1>i. WorkerInv(w) /\ DrainOK(w) /\ OverflowOK(w)
  BY Zenon DEF WorkerInv
<1>1. Draining(w)
  BY Zenon, <1>u, <1>i DEF Draining, DrainOK, Scanning
<1>o. ASSUME NEW k \in Kind, overflow[w][k] # <<>>, over
      PROVE  OverflowDue(w, k)'
  BY Zenon, <1>u, <1>d, <1>o DEF OverflowDue, AtOrAfter, Scanning
<1>p. ASSUME NEW k \in Kind, overflow[w][k] # <<>>, ~over
      PROVE  \E p \in Thread \ {w} : Flagging(p, w)
  BY Zenon, <1>u, <1>i, <1>p DEF OverflowOK, OverflowDue, Flagging, Scanning
<1>2. OverflowOK(w)'
  <2>1. \A p \in Thread \ {w} : Flagging(p, w) => Flagging(p, w)'
    BY Zenon, <1>t, OwnOwes
  <2> QED BY Zenon, <1>u, <1>o, <1>p, <2>1 DEF OverflowOK
<1>3. ASSUME NEW k \in Kind, overflow'[w][k] # <<>>
      PROVE  (\E p \in Thread : Owes(p, w)') \/ OverflowDue(w, k)'
  <2>1. CASE over
    BY Zenon, <1>u, <1>o, <1>3, <2>1
  <2>2. CASE ~over
    <3>1. PICK p \in Thread \ {w} : Flagging(p, w)
      BY Zenon, <1>u, <1>p, <1>3, <2>2
    <3>2. Owes(p, w)
      BY Zenon, <3>1, <1>t, ThreadFacts DEF Owes, Flagging, ForeignLocations, Thread
    <3> QED BY Zenon, <3>2, <1>t, OwnOwes
  <2> QED BY <2>1, <2>2
<1>4. ASSUME NEW s \in Worker, NEW k \in Kind, ring'[w][s][k] # <<>>
      PROVE  Owes(s, w)' \/ LaneDue(w, s, k)'
  <2>1. Announced(w, s, k)
    BY Zenon, <1>u, <1>4 DEF LaneInv, NonemptyLaneOK
  <2>t. s \in Thread
    BY Zenon, <1>t, ThreadFacts
  <2>2. ASSUME InList(s, w), s # w PROVE Owes(s, w)'
    BY Zenon, <2>2, <1>t, <2>t, OwnOwes DEF Owes, InList
  <2>3. CASE wakePending[s][w] = 2
    BY <2>2, <2>3 DEF LaneInv, WakeListOK
  <2>4. CASE pc[s] = "mark" /\ post[s].target = w
    <3>1. s # w
      BY Zenon, <2>4, <1>u
    <3>2. Owes(s, w)
      BY Zenon, <2>4, <3>1 DEF Owes
    <3> QED BY Zenon, <3>2, <1>t, <2>t, OwnOwes
  <2>5. CASE active[w][s]
    <3>1. Held(w, s)
      BY Zenon, <2>5 DEF LaneInv, ActiveLaneOK
    <3>2. s \notin drain[w].active \cup drain[w].wrapped
      BY Zenon, <1>u DEF LaneInv, TakenOK, Scanning
    <3>3. CASE s \in bits[w]
      <4>1. \A i \in 0..(0 - 1) : FALSE
        OBVIOUS
      <4>2. Unread(w, s)'
        BY Zenon, <4>1, <1>u, <1>d DEF Unread
      <4> QED BY Zenon, <3>3, <4>2, <1>u, <1>d DEF LaneDue, Scanning
    <3>4. CASE pc[s] = "setbit" /\ post[s].target = w
      BY Zenon, <3>4, <2>2, <1>u DEF WorkerInv, PostedOK
    <3>5. CASE pc[s] = "pubbit" /\ Head(wakeList[s]) = w
      BY Zenon, <3>5, <2>3 DEF LaneInv, WakeListOK
    <3> QED BY Zenon, <3>1, <3>2, <3>3, <3>4, <3>5, <1>u DEF Held
  <2> QED BY Zenon, <2>1, <2>3, <2>4, <2>5, <1>u DEF Announced
<1>5. SeesAll(w)'
  BY Zenon, <1>3, <1>4 DEF SeesAll
<1> QED BY ZenonT(40), <1>1, <1>2, <1>5, <1>i, DrainKeeps

(* The handshake that ends a visit moves nothing that a drain has to see.  *)
LEMMA OwnHandshake ==
    ASSUME TypeOK, NEW w \in Worker, OnlyActor(w), WorkerInv(w),
           CloseLane(w) \/ RecheckLane(w) \/ ReopenLane(w) \/ ReactivateSender(w)
    PROVE  WorkerInv(w)'
<1>t. /\ w \in Thread /\ pc \in [Thread -> WorkerLocations \cup ForeignLocations]
      /\ drain \in [Worker -> DrainState] /\ bits \in [Worker -> SUBSET Worker]
      /\ drain[w] \in DrainState
  BY Zenon DEF TypeOK, LocationsOK, Thread
<1>u. /\ pc[w] \in {"close", "recheck", "reopen", "rebit"}
      /\ pc'[w] \in Scanning \ {"dequeue"}
      /\ UNCHANGED <<ring, overflow, overflowPending, wakeSeq, cursor>>
      /\ UNCHANGED <<parking, seq, bumps>>
      /\ bits[w] \subseteq bits'[w]
  BY ZenonT(30), <1>t DEF CloseLane, RecheckLane, ReopenLane, ReactivateSender, Goto,
     Scanning, laneVars, overVars, parkVars, drainVars
<1>d. /\ drain'[w].overflow = drain[w].overflow /\ drain'[w].first = drain[w].first
      /\ drain'[w].start = drain[w].start /\ drain'[w].step = drain[w].step
      /\ drain'[w].active = drain[w].active /\ drain'[w].wrapped = drain[w].wrapped
      /\ drain'[w].n = drain[w].n
  <2>1. CASE CloseLane(w) \/ RecheckLane(w)
    <3>1. PICK k : drain' = [drain EXCEPT ![w].kind = k]
      BY Zenon, <2>1 DEF CloseLane, RecheckLane
    <3> QED BY <3>1, <1>t DEF DrainState
  <2>2. CASE ReopenLane(w) \/ ReactivateSender(w)
    BY Zenon, <2>2 DEF ReopenLane, ReactivateSender, drainVars
  <2> QED BY <2>1, <2>2
<1>i. DrainOK(w) /\ OverflowOK(w) /\ ParkingOK(w)
  BY Zenon DEF WorkerInv
<1>1. Draining(w)
  BY Zenon, <1>u, <1>d, <1>i DEF Draining, DrainOK, Scanning
<1>o. \A k \in Kind : OverflowDue(w, k) => OverflowDue(w, k)'
  BY Zenon, <1>u, <1>d DEF OverflowDue, Scanning
<1>2. OverflowOK(w)'
  <2>1. \A p \in Thread \ {w} : Flagging(p, w) => Flagging(p, w)'
    BY Zenon, OwnOwes
  <2>2. ~Flagging(w, w)
    BY Zenon, <1>u DEF Flagging
  <2> QED BY Zenon, <1>u, <1>i, <1>o, <2>1, <2>2 DEF OverflowOK
<1>3. ASSUME SeesAll(w) PROVE SeesAll(w)'
  <2>1. \A p \in Thread : Owes(p, w) => Owes(p, w)'
    BY Zenon, OwnOwes
  <2>2. \A s \in Worker : s \in Thread
    BY Zenon, ThreadFacts
  <2>3. \A s \in Worker : Unread(w, s) => Unread(w, s)'
    BY Zenon, <1>d DEF Unread
  <2>4. \A s \in Worker, k \in Kind : LaneDue(w, s, k) => LaneDue(w, s, k)'
    BY Zenon, <1>u, <1>d, <2>3 DEF LaneDue, Scanning
  <2>5. pc[w] # "drain"
    BY Zenon, <1>u
  <2> QED BY Zenon, <1>3, <1>u, <1>o, <2>1, <2>2, <2>4, <2>5 DEF SeesAll
<1>4. parking[w] /\ bumps[w] = 0 /\ ~Found(drain'[w].n) => SeesAll(w)'
  BY Zenon, <1>3, <1>i, <1>d DEF ParkingOK
<1> QED BY Zenon, <1>1, <1>2, <1>4, DrainKeeps

(* A scan reads every word of the bitmap.                                  *)
LEMMA AllWords ==
    ASSUME NEW start \in Worker, NEW s \in Worker
    PROVE  \E i \in 0..(WordCount - 1) : WordAt(start, i) = WordOf(s)
<1> DEFINE a == WordOf(start)
           b == WordOf(s)
           c == WordCount
           i == IF b >= a THEN b - a ELSE b - a + c
<1>1. a \in 0..(c - 1) /\ b \in 0..(c - 1) /\ c \in Nat \ {0}
  BY Zenon, WordType
<1> HIDE DEF a, b, c
<1>2. i \in 0..(c - 1) /\ (IF a + i < c THEN a + i ELSE a + i - c) = b
  BY <1>1
<1> HIDE DEF i
<1>3. WordAt(start, i) = IF a + i < c THEN a + i ELSE a + i - c
  BY <1>1, <1>2 DEF WordAt, a, c
<1>4. WordAt(start, i) = b
  BY <1>2, <1>3
<1> QED BY Zenon, <1>2, <1>4 DEF b, c

LEMMA OwnEndScan ==
    ASSUME TypeOK, NEW w \in Worker, OnlyActor(w), WorkerInv(w), EndScan(w)
    PROVE  WorkerInv(w)'
<1>t. /\ w \in Thread /\ pc \in [Thread -> WorkerLocations \cup ForeignLocations]
      /\ drain \in [Worker -> DrainState] /\ drain[w] \in DrainState
      /\ drain[w].start \in Worker
  BY ZenonT(40), DrainType DEF TypeOK, LocationsOK, Thread
<1>u. /\ pc[w] = "scan"
      /\ pc'[w] = (IF drain[w].overflow /\ ~drain[w].first THEN "overflow"
                   ELSE "return")
      /\ UNCHANGED <<ring, bits, overflow, overflowPending, wakeSeq, cursor>>
      /\ UNCHANGED <<parking, seq, bumps>>
      /\ drain[w].step = WordCount
      /\ drain' = [drain EXCEPT ![w].kind = "req"]
  BY Zenon, <1>t DEF EndScan, Goto, laneVars, overVars, parkVars
<1>c. drain[w].active = {} /\ drain[w].wrapped = {}
  BY Zenon, <1>t DEF EndScan, Candidates
<1>d. /\ drain'[w].overflow = drain[w].overflow /\ drain'[w].first = drain[w].first
      /\ drain'[w].n = drain[w].n /\ drain'[w].kind = "req"
  BY <1>t, <1>u DEF DrainState
<1>i. DrainOK(w) /\ OverflowOK(w) /\ ParkingOK(w)
  BY Zenon DEF WorkerInv
<1>1. Draining(w)
  BY Zenon, <1>u, <1>d, <1>i DEF Draining, DrainOK, Scanning
<1>o. \A k \in Kind : OverflowDue(w, k) => OverflowDue(w, k)'
  BY Zenon, <1>u, <1>d DEF OverflowDue, Scanning, AtOrAfter
<1>2. OverflowOK(w)'
  <2>1. \A p \in Thread \ {w} : Flagging(p, w) => Flagging(p, w)'
    BY Zenon, OwnOwes
  <2>2. ~Flagging(w, w)
    BY Zenon, <1>u DEF Flagging
  <2> QED BY Zenon, <1>u, <1>i, <1>o, <2>1, <2>2 DEF OverflowOK
<1>3. ASSUME SeesAll(w) PROVE SeesAll(w)'
  <2>1. \A p \in Thread : Owes(p, w) => Owes(p, w)'
    BY Zenon, OwnOwes
  <2>2. \A s \in Worker : s \in Thread
    BY Zenon, ThreadFacts
  <2>3. \A s \in Worker : ~Unread(w, s)
    BY Zenon, <1>t, <1>u, AllWords DEF Unread
  <2>4. \A s \in Worker, k \in Kind : ~LaneDue(w, s, k)
    BY Zenon, <1>u, <1>c, <2>3 DEF LaneDue
  <2> QED BY Zenon, <1>3, <1>u, <1>o, <2>1, <2>2, <2>4 DEF SeesAll
<1>4. parking[w] /\ bumps[w] = 0 /\ ~Found(drain'[w].n) => SeesAll(w)'
  BY Zenon, <1>3, <1>i, <1>d DEF ParkingOK
<1> QED BY ZenonT(40), <1>1, <1>2, <1>4, DrainKeeps

(* The drain before parking found nothing: what it has not seen is owed.   *)
LEMMA OwnFinishParkingDrain ==
    ASSUME LaneInv, NEW w \in Worker, OnlyActor(w), WorkerInv(w),
           FinishParkingDrain(w)
    PROVE  WorkerInv(w)'
<1>t. /\ TypeOK /\ w \in Thread
      /\ pc \in [Thread -> WorkerLocations \cup ForeignLocations]
      /\ drain \in [Worker -> DrainState] /\ parking \in [Worker -> BOOLEAN]
      /\ seq \in [Worker -> 0..(SeqMod - 1)] /\ bumps \in [Worker -> 0..(SeqMod - 1)]
  BY Zenon DEF LaneInv, TypeOK, LocationsOK, Thread
<1>u. /\ pc[w] = "return" /\ parking[w]
      /\ UNCHANGED <<ring, overflow, overflowPending, wakeSeq, cursor>>
      /\ drain'[w] = NoDrain
  BY Zenon, <1>t DEF FinishParkingDrain, laneVars, overVars
<1>n. ~Found(NoDrain.n)
  BY DEF Found, NoDrain
<1>i. DrainOK(w) /\ OverflowOK(w) /\ ParkingOK(w)
  BY Zenon DEF WorkerInv
<1>f. /\ \A p \in Thread : Owes(p, w) => Owes(p, w)'
      /\ \A p \in Thread \ {w} : Flagging(p, w) => Flagging(p, w)'
      /\ ~Flagging(w, w) /\ \A s \in Worker : s \in Thread
  BY ZenonT(40), <1>t, <1>u, OwnOwes, ThreadFacts DEF Flagging
<1>2. OverflowOK(w)'
  BY Zenon, <1>u, <1>i, <1>f DEF OverflowOK, OverflowDue, Scanning
<1>3. CASE Found(drain[w].n)
  <2>1. pc'[w] = "drain" /\ ~parking'[w]
    BY Zenon, <1>t, <1>3 DEF FinishParkingDrain, StopParking, Goto
  <2> QED BY ZenonT(40), <2>1, <1>2, <1>i, <1>u
    DEF WorkerInv, DrainOK, PostedOK, ParkingOK, SleepsSafely
<1>4. CASE ~Found(drain[w].n)
  <2>1. pc'[w] = "cas" /\ UNCHANGED <<parking, seq, bumps>>
    BY Zenon, <1>t, <1>4 DEF FinishParkingDrain, parkVars, Goto
  <2>2. DrainOK(w)' /\ PostedOK(w)' /\ SleepsSafely(w)'
    BY Zenon, <2>1, <1>n, <1>i, <1>u DEF DrainOK, PostedOK, SleepsSafely
  <2>3. ASSUME SeesAll(w) PROVE SeesAll(w)'
    <3>1. drain[w].active = {} /\ drain[w].wrapped = {}
      BY Zenon, <1>u DEF LaneInv, TakenOK, Scanning
    <3>2. \A s \in Worker, k \in Kind : ~LaneDue(w, s, k) /\ ~OverflowDue(w, k)
      BY Zenon, <1>u, <3>1 DEF LaneDue, OverflowDue, Scanning
    <3> QED BY Zenon, <1>u, <1>f, <2>3, <3>2 DEF SeesAll
  <2>4. ParkingOK(w)'
    BY Zenon, <2>1, <2>3, <1>4, <1>i, <1>u DEF ParkingOK
  <2> QED BY Zenon, <2>2, <2>4, <1>2 DEF WorkerInv
<1> QED BY SMTT(30), <1>3, <1>4

(* The CAS succeeds only if nobody has bumped wake_seq_ since the snapshot.*)
LEMMA OwnPark ==
    ASSUME LaneInv, NEW w \in Worker, OnlyActor(w), WorkerInv(w), Park(w)
    PROVE  WorkerInv(w)'
<1>t. /\ TypeOK /\ w \in Thread
      /\ pc \in [Thread -> WorkerLocations \cup ForeignLocations]
      /\ parking \in [Worker -> BOOLEAN] /\ wakeSeq \in [Worker -> 0..(SeqMod - 1)]
      /\ seq[w] \in 0..(SeqMod - 1) /\ bumps[w] \in 0..(SeqMod - 1)
  BY Zenon DEF LaneInv, TypeOK, LocationsOK, Thread
<1>u. /\ pc[w] = "cas" /\ ~parking'[w]
      /\ UNCHANGED <<ring, overflow, overflowPending, drain, cursor>>
  BY Zenon, <1>t DEF Park, StopParking, laneVars, overVars, drainVars
<1>i. DrainOK(w) /\ OverflowOK(w) /\ ParkingOK(w) /\ parking[w] /\ ~Found(drain[w].n)
  BY Zenon, <1>u DEF WorkerInv, DrainOK
<1>f. /\ \A p \in Thread : Owes(p, w) => Owes(p, w)'
      /\ \A p \in Thread \ {w} : Flagging(p, w) => Flagging(p, w)'
      /\ ~Flagging(w, w) /\ \A s \in Worker : s \in Thread
  BY Zenon, <1>t, <1>u, OwnOwes, ThreadFacts DEF Flagging
<1>1. OverflowOK(w)' /\ ParkingOK(w)'
  BY Zenon, <1>u, <1>i, <1>f DEF OverflowOK, OverflowDue, Scanning, ParkingOK
<1>2. CASE ~CasSucceeds(w)
  <2>1. pc'[w] = "drain"
    BY Zenon, <1>t, <1>2 DEF Park, Goto
  <2> QED BY ZenonT(40), <2>1, <1>1, <1>i, <1>u
    DEF WorkerInv, DrainOK, PostedOK, SleepsSafely
<1>3. CASE CasSucceeds(w)
  <2>1. pc'[w] = "wait" /\ wakeSeq'[w] = Parked
    BY Zenon, <1>t, <1>3 DEF Park, Goto
  <2>2. DrainOK(w)' /\ PostedOK(w)'
    BY Zenon, <2>1, <1>i, <1>u DEF DrainOK, PostedOK
  <2>3. wakeSeq[w] = IF seq[w] + bumps[w] < SeqMod THEN seq[w] + bumps[w]
                     ELSE seq[w] + bumps[w] - SeqMod
    BY Zenon, <1>i DEF ParkingOK
  <2>4. bumps[w] = 0
    BY <1>t, <1>3, <2>3, SizesAssumption DEF CasSucceeds
  <2>5. SeesAll(w)
    BY Zenon, <1>i, <2>4 DEF ParkingOK
  <2>6. drain[w].active = {} /\ drain[w].wrapped = {}
    BY Zenon, <1>u DEF LaneInv, TakenOK, Scanning
  <2>7. \A s \in Worker, k \in Kind : ~LaneDue(w, s, k) /\ ~OverflowDue(w, k)
    BY Zenon, <1>u, <2>6 DEF LaneDue, OverflowDue, Scanning
  <2>8. SleepsSafely(w)'
    BY ZenonT(40), <1>u, <1>f, <2>1, <2>5, <2>7 DEF SeesAll, SleepsSafely
  <2> QED BY Zenon, <2>2, <2>8, <1>1 DEF WorkerInv
<1> QED BY SMTT(30), <1>2, <1>3

LEMMA OwnTakeActiveSenders ==
    ASSUME TypeOK, NEW w \in Worker, OnlyActor(w), WorkerInv(w), TakeActiveSenders(w)
    PROVE  WorkerInv(w)'
<1> DEFINE d == drain[w]
           taken == {s \in bits[w] : WordOf(s) = WordAt(d.start, d.step)}
           late == {s \in taken : d.step = 0 /\ s < d.start}
<1>t. /\ w \in Thread /\ bits \in [Worker -> SUBSET Worker]
      /\ drain \in [Worker -> DrainState] /\ d \in DrainState
      /\ d.step \in 0..WordCount /\ WordCount \in Nat
  BY ZenonT(40), DrainType, WordType DEF TypeOK, LocationsOK, Thread
<1>u. /\ pc[w] = "scan" /\ pc' = pc /\ d.active = {}
      /\ UNCHANGED <<ring, overflow, overflowPending, wakeSeq, cursor>>
      /\ UNCHANGED <<parking, seq, bumps>>
      /\ bits'[w] = bits[w] \ taken
      /\ drain' = [drain EXCEPT ![w].active = taken \ late,
                                ![w].wrapped = @ \cup late, ![w].step = @ + 1]
  BY Zenon, <1>t DEF TakeActiveSenders, overVars, parkVars
<1>d. /\ drain'[w].overflow = d.overflow /\ drain'[w].first = d.first
      /\ drain'[w].start = d.start /\ drain'[w].step = d.step + 1
      /\ drain'[w].n = d.n
      /\ drain'[w].active = taken \ late /\ drain'[w].wrapped = d.wrapped \cup late
  <2> HIDE DEF taken, late
  <2> QED BY <1>t, <1>u DEF DrainState
<1>i. DrainOK(w) /\ OverflowOK(w) /\ ParkingOK(w)
  BY Zenon DEF WorkerInv
<1>1. Draining(w)
  BY Zenon, <1>u, <1>d, <1>i DEF Draining, DrainOK, Scanning
<1>o. \A k \in Kind : OverflowDue(w, k) => OverflowDue(w, k)'
  BY Zenon, <1>u, <1>d DEF OverflowDue, Scanning
<1>f. /\ \A p \in Thread : Owes(p, w) => Owes(p, w)'
      /\ \A p \in Thread \ {w} : Flagging(p, w) => Flagging(p, w)'
      /\ ~Flagging(w, w) /\ \A s \in Worker : s \in Thread
  BY Zenon, <1>t, <1>u, OwnOwes, ThreadFacts DEF Flagging
<1>2. OverflowOK(w)'
  BY Zenon, <1>u, <1>i, <1>o, <1>f DEF OverflowOK
<1>3. ASSUME NEW s \in Worker, NEW k \in Kind, LaneDue(w, s, k)
      PROVE  LaneDue(w, s, k)'
  <2>1. CASE s \in d.active \cup d.wrapped
    BY Zenon, <2>1, <1>u, <1>d DEF LaneDue
  <2>2. CASE s \in bits[w] /\ Unread(w, s) /\ s \in taken
    BY Zenon, <2>2, <1>d DEF LaneDue
  <2>3. CASE s \in bits[w] /\ Unread(w, s) /\ s \notin taken
    <3>1. WordAt(d.start, d.step) # WordOf(s)
      BY Zenon, <2>3
    <3>2. \A i \in 0..(d.step + 1 - 1) : i \in 0..(d.step - 1) \/ i = d.step
      BY <1>t
    <3>3. \A i \in 0..(d.step + 1 - 1) : WordAt(d.start, i) # WordOf(s)
      BY Zenon, <2>3, <3>1, <3>2 DEF Unread
    <3>4. Unread(w, s)'
      <4> SUFFICES ASSUME NEW i \in 0..(drain'[w].step - 1)
                   PROVE  WordAt(drain'[w].start, i) # WordOf(s)
        BY Zenon DEF Unread
      <4>0. drain'[w].step = d.step + 1
        BY Zenon, <1>d
      <4>1. i \in 0..(d.step + 1 - 1)
        <5>1. d.step \in Nat
          BY <1>t
        <5> QED BY <4>0, <5>1
      <4>2. WordAt(d.start, i) # WordOf(s)
        BY Zenon, <3>3, <4>1
      <4> QED BY Zenon, <4>2, <1>d
    <3> QED BY Zenon, <2>3, <3>4, <1>u DEF LaneDue, Scanning
  <2> QED BY Zenon, <1>3, <2>1, <2>2, <2>3, <1>u DEF LaneDue
<1>4. ASSUME SeesAll(w) PROVE SeesAll(w)'
  BY Zenon, <1>4, <1>3, <1>u, <1>o, <1>f DEF SeesAll
<1>5. parking[w] /\ bumps[w] = 0 /\ ~Found(drain'[w].n) => SeesAll(w)'
  BY ZenonT(40), <1>4, <1>i, <1>d DEF ParkingOK
<1> QED BY Zenon, <1>1, <1>2, <1>5, DrainKeeps

LEMMA OwnVisitSender ==
    ASSUME TypeOK, NEW w \in Worker, OnlyActor(w), WorkerInv(w), VisitSender(w)
    PROVE  WorkerInv(w)'
<1> DEFINE d == drain[w]
<1>t. /\ w \in Thread /\ pc \in [Thread -> WorkerLocations \cup ForeignLocations]
      /\ drain \in [Worker -> DrainState] /\ d \in DrainState
      /\ cursor \in [Worker -> [sender : Worker, consumed : 0..SenderQuota]]
      /\ d.n \in [Kind -> 0..BatchSize]
  BY ZenonT(40), DrainType DEF TypeOK, LocationsOK, Thread
<1>0. PICK v : /\ drain' = [drain EXCEPT ![w].active = @ \ {v},
                                         ![w].wrapped = @ \ {v},
                                         ![w].sender = v, ![w].kind = "req"]
               /\ cursor' = [cursor EXCEPT ![w] =
                                IF BatchFull(d.n) \/ @.sender = v THEN @
                                ELSE [sender |-> v, consumed |-> 0]]
  BY Zenon DEF VisitSender
<1>u. /\ pc[w] = "scan" /\ pc'[w] = (IF BatchFull(d.n) THEN "close" ELSE "dequeue")
      /\ UNCHANGED <<ring, bits, overflow, overflowPending, wakeSeq>>
      /\ UNCHANGED <<parking, seq, bumps>>
  BY Zenon, <1>t DEF VisitSender, Goto, laneVars, overVars, parkVars
<1>d. /\ drain'[w].overflow = d.overflow /\ drain'[w].first = d.first
      /\ drain'[w].start = d.start /\ drain'[w].step = d.step
      /\ drain'[w].n = d.n /\ drain'[w].sender = v /\ drain'[w].kind = "req"
      /\ drain'[w].active = d.active \ {v} /\ drain'[w].wrapped = d.wrapped \ {v}
  BY <1>t, <1>0 DEF DrainState
<1>i. DrainOK(w) /\ OverflowOK(w) /\ ParkingOK(w)
  BY Zenon DEF WorkerInv
<1>1. Draining(w)
  <2>1. cursor[w].consumed # SenderQuota
    BY Zenon, <1>u, <1>i DEF DrainOK
  <2>2. cursor'[w].consumed \in {cursor[w].consumed, 0} /\ SenderQuota # 0
    BY SMTT(30), <1>t, <1>0, SizesAssumption
  <2> QED BY Zenon, <1>u, <2>1, <2>2 DEF Draining, Scanning
<1>o. \A k \in Kind : OverflowDue(w, k) => OverflowDue(w, k)'
  BY Zenon, <1>u, <1>d DEF OverflowDue, Scanning
<1>f. /\ \A p \in Thread : Owes(p, w) => Owes(p, w)'
      /\ \A p \in Thread \ {w} : Flagging(p, w) => Flagging(p, w)'
      /\ ~Flagging(w, w) /\ \A s \in Worker : s \in Thread
  BY Zenon, <1>t, <1>u, OwnOwes, ThreadFacts DEF Flagging
<1>2. OverflowOK(w)'
  BY Zenon, <1>u, <1>i, <1>o, <1>f DEF OverflowOK
<1>3. ASSUME SeesAll(w), ~Found(d.n) PROVE SeesAll(w)'
  <2>1. ~BatchFull(d.n)
    BY <1>3, <1>t, SizesAssumption DEF BatchFull, Found
  <2>2. \A s \in Worker : Unread(w, s) => Unread(w, s)'
    BY Zenon, <1>d DEF Unread
  <2>3. \A s \in Worker, k \in Kind : LaneDue(w, s, k) => LaneDue(w, s, k)'
    BY Zenon, <1>u, <1>d, <2>1, <2>2 DEF LaneDue, Scanning, AtOrAfter
  <2> QED BY ZenonT(40), <1>3, <2>3, <1>u, <1>o, <1>f DEF SeesAll
<1>4. parking[w] /\ bumps[w] = 0 /\ ~Found(drain'[w].n) => SeesAll(w)'
  BY Zenon, <1>3, <1>i, <1>d DEF ParkingOK
<1> QED BY Zenon, <1>1, <1>2, <1>4, DrainKeeps

(* A bulk dequeue that takes nothing although it might finds the queue     *)
(* empty, and one that leaves something has taken as much as it might.     *)
LEMMA DequeueEmpties ==
    ASSUME NEW q \in Seq(Msg), NEW maximum \in Nat
    PROVE  LET count == Lesser(maximum, Len(q))
           IN  /\ count \in Nat
               /\ count = 0 /\ maximum # 0 => q = <<>> /\ Rest(q, count) = <<>>
               /\ Rest(q, count) # <<>> => count = maximum
<1> DEFINE count == Lesser(maximum, Len(q))
<1>1. Len(q) \in Nat /\ (Len(q) = 0 => q = <<>>)
  OBVIOUS
<1>2. count = IF maximum <= Len(q) THEN maximum ELSE Len(q)
  BY DEF Lesser
<1>3. count \in 0..Len(q) /\ (count = 0 /\ maximum # 0 => Len(q) = 0)
  BY <1>1, <1>2
<1>4. Rest(q, count) = <<>> <=> count = Len(q)
  BY Zenon, <1>3, RestType
<1> HIDE DEF count
<1>5. /\ count \in Nat /\ (count = 0 /\ maximum # 0 => q = <<>> /\ Rest(q, count) = <<>>)
      /\ Rest(q, count) # <<>> => count = maximum
  BY <1>1, <1>2, <1>3, <1>4
<1> QED BY Zenon, <1>5 DEF count

(* The queues due after one has been read.                                 *)
LEMMA DueAfter ==
    ASSUME NEW j \in Kind, NEW k \in Kind, AtOrAfter(j, k), k # j
    PROVE  j # "ntf" /\ AtOrAfter(After(j), k)
BY SMTT(30) DEF Kind, AtOrAfter, After

LEMMA OwnDrainOverflow ==
    ASSUME TypeOK, NEW w \in Worker, OnlyActor(w), WorkerInv(w), DrainOverflow(w)
    PROVE  WorkerInv(w)'
<1> DEFINE d == drain[w]
           k == d.kind
           q == overflow[w][k]
           maximum == BatchSize - d.n[k]
           count == Lesser(maximum, Len(q))
           n == [d.n EXCEPT ![k] = @ + count]
<1>t. /\ w \in Thread /\ pc \in [Thread -> WorkerLocations \cup ForeignLocations]
      /\ drain \in [Worker -> DrainState] /\ d \in DrainState
      /\ overflow \in [Worker -> [Kind -> Seq(Msg)]] /\ overflow[w] \in [Kind -> Seq(Msg)]
      /\ overflowPending \in [Worker -> BOOLEAN]
      /\ d.n \in [Kind -> 0..BatchSize] /\ k \in Kind
  BY ZenonT(40), DrainType DEF TypeOK, LocationsOK, Thread
<1>q. q \in Seq(Msg)
  BY SMTT(30), <1>t
<1>m. maximum \in Nat /\ (d.n[k] = 0 => maximum # 0)
  BY <1>t, SizesAssumption
<1>e. /\ count \in Nat
      /\ count = 0 /\ maximum # 0 => q = <<>> /\ Rest(q, count) = <<>>
      /\ Rest(q, count) # <<>> => count = maximum
  <2> HIDE DEF maximum, q
  <2> QED BY Zenon, <1>q, <1>m, DequeueEmpties
<1>u. /\ pc[w] = "overflow"
      /\ pc'[w] = (IF k # "ntf" THEN "overflow"
                   ELSE IF d.first /\ ~BatchFull(n) THEN "scan" ELSE "return")
      /\ UNCHANGED <<ring, bits, wakeSeq, cursor>> /\ UNCHANGED <<parking, seq, bumps>>
      /\ overflow' = [overflow EXCEPT ![w][k] = Rest(@, count)]
      /\ overflowPending'[w] = (overflowPending[w] \/ count = maximum)
      /\ drain' = [drain EXCEPT ![w].n = n, ![w].kind = After(k)]
  BY Zenon, <1>t DEF DrainOverflow, Goto, laneVars, parkVars, LeavesFlag
<1>v. /\ overflow'[w][k] = Rest(q, count)
      /\ \A j \in Kind \ {k} : overflow'[w][j] = overflow[w][j]
  <2> HIDE DEF count, k
  <2> QED BY <1>t, <1>u
<1>n. ASSUME ~Found(n)
      PROVE  /\ ~Found(d.n) /\ q = <<>> /\ overflow'[w][k] = <<>>
             /\ ~BatchFull(n)
  <2>1. /\ n[k] = d.n[k] + count /\ \A j \in Kind \ {k} : n[j] = d.n[j]
        /\ \A j \in Kind : d.n[j] \in Nat /\ ~(n[j] > 0)
    <3> HIDE DEF count, k
    <3> QED BY <1>t, <1>n, SizesAssumption DEF Found
  <2> HIDE DEF n
  <2>2. /\ count = 0 /\ d.n[k] = 0 /\ \A j \in Kind : d.n[j] = 0 /\ n[j] # BatchSize
    <3>1. d.n[k] \in Nat /\ ~(d.n[k] + count > 0)
      BY Zenon, <1>t, <2>1
    <3>2. count = 0 /\ d.n[k] = 0
      <4> HIDE DEF count, k, d
      <4> QED BY <3>1, <1>e
    <3>3. ASSUME NEW j \in Kind PROVE d.n[j] = 0 /\ n[j] = 0
      <4>1. (d.n[j] \in Nat /\ n[j] = d.n[j] /\ ~(n[j] > 0)) \/ j = k
        BY Zenon, <2>1
      <4>2. n[k] = 0
        <5> HIDE DEF count, k, d
        <5> QED BY <2>1, <3>2
      <4> HIDE DEF k, d
      <4> QED BY <3>2, <4>1, <4>2
    <3> QED BY Zenon, <3>2, <3>3, SizesAssumption
  <2>3. q = <<>> /\ Rest(q, count) = <<>>
    BY Zenon, <2>2, <1>m, <1>e
  <2>4. ~Found(d.n) /\ ~BatchFull(n)
    BY SMTT(30), <2>2 DEF Found, BatchFull
  <2> QED BY ZenonT(40), <2>3, <2>4, <1>v
<1>d. /\ drain'[w].overflow = d.overflow /\ drain'[w].first = d.first
      /\ drain'[w].start = d.start /\ drain'[w].step = d.step
      /\ drain'[w].n = n /\ drain'[w].kind = After(k)
      /\ drain'[w].active = d.active /\ drain'[w].wrapped = d.wrapped
  <2> HIDE DEF n
  <2> QED BY <1>t, <1>u DEF DrainState
<1> HIDE DEF n, count, maximum
<1>i. DrainOK(w) /\ OverflowOK(w) /\ ParkingOK(w)
  BY Zenon DEF WorkerInv
<1>1. Draining(w)
  BY Zenon, <1>u, <1>i DEF Draining, DrainOK, Scanning
<1>o. ASSUME NEW j \in Kind \ {k}, OverflowDue(w, j) PROVE OverflowDue(w, j)'
  <2>1. d.overflow /\ AtOrAfter(k, j)
    BY Zenon, <1>o, <1>u DEF OverflowDue, Scanning
  <2>2. k # "ntf" /\ AtOrAfter(After(k), j)
    BY Zenon, <2>1, <1>t, DueAfter
  <2> QED BY Zenon, <2>1, <2>2, <1>u, <1>d DEF OverflowDue
<1>f. /\ \A p \in Thread : Owes(p, w) => Owes(p, w)'
      /\ \A p \in Thread \ {w} : Flagging(p, w) => Flagging(p, w)'
      /\ ~Flagging(w, w) /\ \A s \in Worker : s \in Thread
  BY ZenonT(40), <1>t, <1>u, OwnOwes, ThreadFacts DEF Flagging
<1>2. OverflowOK(w)'
  <2> SUFFICES ASSUME NEW j \in Kind, overflow'[w][j] # <<>>
               PROVE  \/ overflowPending'[w] \/ \E p \in Thread : Flagging(p, w)'
                      \/ OverflowDue(w, j)'
    BY Zenon DEF OverflowOK
  <2>1. CASE j = k
    BY Zenon, <2>1, <1>e, <1>u, <1>v
  <2>2. CASE j # k
    BY Zenon, <2>2, <1>i, <1>u, <1>v, <1>o, <1>f DEF OverflowOK
  <2> QED BY <2>1, <2>2
<1>3. ASSUME SeesAll(w), ~Found(n) PROVE SeesAll(w)'
  <2>1. \A s \in Worker : Unread(w, s) => Unread(w, s)'
    BY Zenon, <1>d DEF Unread
  <2>2. \A s \in Worker, j \in Kind : LaneDue(w, s, j) => LaneDue(w, s, j)'
    BY Zenon, <1>u, <1>d, <1>n, <1>3, <2>1 DEF LaneDue, Scanning
  <2>3. \A j \in Kind : overflow'[w][j] # <<>> => j # k /\ overflow[w][j] # <<>>
    BY Zenon, <1>n, <1>3, <1>v
  <2> QED BY Zenon, <1>3, <2>2, <2>3, <1>u, <1>o, <1>f DEF SeesAll
<1>4. parking[w] /\ bumps[w] = 0 /\ ~Found(drain'[w].n) => SeesAll(w)'
  BY ZenonT(40), <1>3, <1>n, <1>i, <1>d DEF ParkingOK
<1> QED BY Zenon, <1>1, <1>2, <1>4, DrainKeeps

LEMMA OwnDrainQueue ==
    ASSUME TypeOK, NEW w \in Worker, OnlyActor(w), WorkerInv(w), DrainQueue(w)
    PROVE  WorkerInv(w)'
<1> DEFINE d == drain[w]
           v == d.sender
           k == d.kind
           q == ring[w][v][k]
           c == cursor[w].consumed
           maximum == Lesser(BatchSize - d.n[k], SenderQuota - c)
           count == Lesser(maximum, Len(q))
           n == [d.n EXCEPT ![k] = @ + count]
<1>t. /\ w \in Thread /\ pc \in [Thread -> WorkerLocations \cup ForeignLocations]
      /\ drain \in [Worker -> DrainState] /\ d \in DrainState
      /\ ring \in [Worker -> [Worker -> [Kind -> Seq(Msg)]]]
      /\ ring[w] \in [Worker -> [Kind -> Seq(Msg)]]
      /\ cursor \in [Worker -> [sender : Worker, consumed : 0..SenderQuota]]
      /\ d.n \in [Kind -> 0..BatchSize] /\ k \in Kind /\ v \in Worker
  BY ZenonT(40), DrainType DEF TypeOK, LocationsOK, Thread
<1>q. q \in Seq(Msg) /\ c \in 0..SenderQuota
  BY <1>t
<1>m. maximum \in Nat /\ (d.n[k] = 0 /\ c # SenderQuota => maximum # 0)
  <2>1. d.n[k] \in 0..BatchSize
    BY <1>t
  <2> HIDE DEF c, d, k
  <2> QED BY SMTT(30), <1>q, <2>1, SizesAssumption DEF Lesser
<1>e. /\ count \in Nat
      /\ count = 0 /\ maximum # 0 => q = <<>> /\ Rest(q, count) = <<>>
  <2> HIDE DEF maximum, q
  <2> QED BY Zenon, <1>q, <1>m, DequeueEmpties
<1>u. /\ pc[w] = "dequeue" /\ pc'[w] = (IF k = "ntf" THEN "close" ELSE "dequeue")
      /\ UNCHANGED <<bits, overflow, overflowPending, wakeSeq>>
      /\ UNCHANGED <<parking, seq, bumps>>
      /\ ring' = [ring EXCEPT ![w][v][k] = Rest(@, count)]
      /\ drain' = [drain EXCEPT ![w].n = n, ![w].kind = After(k)]
      /\ cursor' = [cursor EXCEPT ![w] =
                       IF k = "ntf" THEN AdvanceCursor(v, c + count, n)
                       ELSE [sender |-> v, consumed |-> c + count]]
  BY ZenonT(40), <1>t DEF DrainQueue, Goto, overVars, parkVars
<1>v. /\ ring'[w][v][k] = Rest(q, count)
      /\ \A s \in Worker, j \in Kind :
            s # v \/ j # k => ring'[w][s][j] = ring[w][s][j]
  <2> HIDE DEF count, k, v
  <2>1. ring'[w] = [ring[w] EXCEPT ![v][k] = Rest(@, count)]
    BY ZenonT(40), <1>t, <1>u
  <2> QED BY <1>t, <2>1
<1>i. DrainOK(w) /\ OverflowOK(w) /\ ParkingOK(w)
  BY Zenon DEF WorkerInv
<1>x. /\ n[k] = d.n[k] + count /\ \A j \in Kind \ {k} : n[j] = d.n[j]
      /\ \A j \in Kind : d.n[j] \in Nat
  <2> HIDE DEF count, k
  <2> QED BY SMTT(30), <1>t, SizesAssumption
<1> HIDE DEF n
<1>y. Found(d.n) \/ count # 0 => Found(n)
  <2>1. d.n[k] \in Nat
    BY Zenon, <1>t, <1>x
  <2>2. CASE count # 0
    <3> HIDE DEF count, k, d
    <3>1. n[k] > 0
      BY <2>1, <2>2, <1>x, <1>e
    <3> QED BY Zenon, <3>1, <1>t DEF Found
  <2>3. CASE Found(d.n)
    <3>1. PICK j \in Kind : d.n[j] > 0
      BY Zenon, <2>3 DEF Found
    <3>2. d.n[j] \in Nat /\ (n[j] = d.n[j] \/ j = k)
      BY Zenon, <1>x
    <3> HIDE DEF count, k, d
    <3>3. n[j] > 0
      BY <3>1, <3>2, <1>x, <1>e
    <3> QED BY Zenon, <3>3 DEF Found
  <2> QED BY <2>2, <2>3
<1>n. ASSUME ~Found(n)
      PROVE  ~Found(d.n) /\ q = <<>> /\ ring'[w][v][k] = <<>>
  <2>1. d.n[k] = 0 /\ count = 0 /\ ~Found(d.n)
    <3>1. ~Found(d.n) /\ count = 0
      BY Zenon, <1>y, <1>n
    <3>2. ~(d.n[k] > 0) /\ d.n[k] \in Nat
      BY Zenon, <3>1, <1>t, <1>x DEF Found
    <3>3. \A x \in Nat : ~(x > 0) => x = 0
      OBVIOUS
    <3> QED BY Zenon, <3>1, <3>2, <3>3
  <2>2. c # SenderQuota
    BY Zenon, <2>1, <1>i DEF DrainOK
  <2>3. q = <<>> /\ Rest(q, count) = <<>>
    BY ZenonT(40), <2>1, <2>2, <1>m, <1>e
  <2> QED BY Zenon, <2>1, <2>3, <1>v
<1>d. /\ drain'[w].overflow = d.overflow /\ drain'[w].first = d.first
      /\ drain'[w].start = d.start /\ drain'[w].step = d.step
      /\ drain'[w].n = n /\ drain'[w].kind = After(k) /\ drain'[w].sender = v
      /\ drain'[w].active = d.active /\ drain'[w].wrapped = d.wrapped
  BY <1>t, <1>u DEF DrainState
<1> HIDE DEF maximum
<1>1. Draining(w)
  <2>1. CASE k = "ntf"
    <3>1. cursor'[w] = AdvanceCursor(v, c + count, n)
      BY ZenonT(40), <2>1, <1>t, <1>u
    <3>2. cursor'[w].consumed # SenderQuota
      BY SMTT(30), <3>1, SizesAssumption DEF AdvanceCursor
    <3> QED BY Zenon, <2>1, <3>2, <1>u DEF Draining, Scanning
  <2>2. CASE k # "ntf"
    <3>1. cursor'[w] = [sender |-> v, consumed |-> c + count]
      BY ZenonT(40), <2>2, <1>t, <1>u
    <3>2. cursor'[w].consumed = c + count
      BY SMTT(30), <3>1
    <3>3. c + count = SenderQuota => count # 0 \/ c = SenderQuota
      <4> HIDE DEF c, count
      <4> QED BY <1>q, <1>e
    <3>4. c = SenderQuota => Found(d.n)
      BY Zenon, <1>i DEF DrainOK
    <3> QED BY ZenonT(40), <2>2, <3>2, <3>3, <3>4, <1>y, <1>u, <1>d DEF Draining, Scanning
  <2> QED BY <2>1, <2>2
<1> HIDE DEF count
<1>o. \A j \in Kind : OverflowDue(w, j) => OverflowDue(w, j)'
  BY Zenon, <1>u, <1>d DEF OverflowDue, Scanning
<1>f. /\ \A p \in Thread : Owes(p, w) => Owes(p, w)'
      /\ \A p \in Thread \ {w} : Flagging(p, w) => Flagging(p, w)'
      /\ ~Flagging(w, w) /\ \A s \in Worker : s \in Thread
  BY Zenon, <1>t, <1>u, OwnOwes, ThreadFacts DEF Flagging
<1>2. OverflowOK(w)'
  BY Zenon, <1>u, <1>i, <1>o, <1>f DEF OverflowOK
<1>3. ASSUME SeesAll(w), ~Found(n) PROVE SeesAll(w)'
  <2>1. \A s \in Worker : Unread(w, s) => Unread(w, s)'
    BY Zenon, <1>d DEF Unread
  <2>2. ASSUME NEW s \in Worker, NEW j \in Kind, s # v \/ j # k, LaneDue(w, s, j)
        PROVE  LaneDue(w, s, j)'
    <3>1. CASE v = s /\ AtOrAfter(k, j) /\ j # k
      <4>1. k # "ntf" /\ AtOrAfter(After(k), j)
        BY Zenon, <3>1, <1>t, DueAfter
      <4> QED BY Zenon, <3>1, <4>1, <1>u, <1>d DEF LaneDue
    <3> QED BY ZenonT(40), <2>1, <2>2, <3>1, <1>u, <1>d DEF LaneDue, Scanning
  <2>3. \A s \in Worker, j \in Kind :
           ring'[w][s][j] # <<>> => (s # v \/ j # k) /\ ring[w][s][j] # <<>>
    BY Zenon, <1>n, <1>3, <1>v
  <2> QED BY ZenonT(40), <1>3, <2>2, <2>3, <1>u, <1>o, <1>f DEF SeesAll
<1>4. parking[w] /\ bumps[w] = 0 /\ ~Found(drain'[w].n) => SeesAll(w)'
  BY Zenon, <1>3, <1>n, <1>i, <1>d DEF ParkingOK
<1> QED BY Zenon, <1>1, <1>2, <1>4, DrainKeeps

(* A worker that goes to set its bit has put its target in wake_list_.     *)
LEMMA PostedSteps ==
    ASSUME LaneInv, NEW w \in Worker,
           \/ TryEnqueue(w) \/ EnqueueOverflow(w) \/ FlagOverflow(w)
           \/ MarkWake(w) \/ ActivateSender(w) \/ FinishDrain(w)
           \/ PublishLane(w) \/ PublishSender(w) \/ BumpTarget(w)
           \/ Submit(w) \/ SubmitUnavailable(w) \/ BusyPoll(w)
           \/ Wake(w) \/ WakeOther(w) \/ Unpark(w)
    PROVE  PostedOK(w)'
<1>t. /\ pc \in [Thread -> WorkerLocations \cup ForeignLocations]
      /\ w \in Thread /\ post \in [Thread -> [target : Worker, msg : Msg, queued : BOOLEAN]]
  BY ZenonT(40), ThreadFacts DEF LaneInv, TypeOK, LocationsOK
<1>1. CASE MarkWake(w)
  <2> SUFFICES ASSUME pc'[w] = "setbit", post'[w].target # w
               PROVE  \E i \in 1..Len(wakeList'[w]) : wakeList'[w][i] = post'[w].target
    BY Zenon DEF PostedOK, InList
  <2>1. post' = post
    BY Zenon, <1>1, <1>t DEF MarkWake, Return, Goto
  <2>2. post[w].target \in Worker
    BY Zenon, <1>t, PostType DEF LaneInv
  <2> QED BY Zenon, <1>1, <2>1, <2>2, MarkWakeLists DEF InList
<1>2. CASE ~MarkWake(w)
  <2>1. pc'[w] # "setbit"
    BY ZenonT(60), <1>t, <1>2 DEF TryEnqueue, EnqueueOverflow, FlagOverflow,
       ActivateSender, FinishDrain, PublishLane, PublishSender, BumpTarget, Submit,
       SubmitUnavailable, BusyPoll, Wake, WakeOther, Unpark, EndFlush, Return, Goto
  <2> QED BY Zenon, <2>1 DEF PostedOK
<1> QED BY SMTT(30), <1>1, <1>2

(* What a worker's own step does to itself.                                *)
LEMMA OwnCalm ==
    ASSUME LaneInv, NEW w \in Worker, OnlyActor(w), WorkerInv(w),
           \/ TryEnqueue(w) \/ EnqueueOverflow(w) \/ FlagOverflow(w)
           \/ MarkWake(w) \/ ActivateSender(w) \/ FinishDrain(w)
           \/ PublishLane(w) \/ PublishSender(w) \/ BumpTarget(w)
           \/ Submit(w) \/ SubmitUnavailable(w) \/ BusyPoll(w)
           \/ Wake(w) \/ WakeOther(w) \/ Unpark(w)
    PROVE  WorkerInv(w)'
<1>1. TypeOK
  BY Zenon DEF LaneInv
<1>2. Calm(w)
  BY Zenon, <1>1, CalmSteps
<1>3. PostedOK(w)'
  BY Zenon, PostedSteps
<1> QED BY Zenon, <1>1, <1>2, <1>3, CalmKeeps DEF WorkerInv

LEMMA OwnStep ==
    ASSUME LaneInv, NEW w \in Worker, \A r \in Worker : WorkerInv(r),
           Step(w) \/ SubmitUnavailable(w) \/ WakeOther(w)
    PROVE  WorkerInv(w)'
<1>1. TypeOK /\ WorkerInv(w)
  BY Zenon DEF LaneInv
<1>2. OnlyActor(w)
  BY Zenon, <1>1, ActorSteps
<1>3. CASE PostStep(w) \/ SubmitUnavailable(w) \/ WakeOther(w)
  BY Zenon, <1>1, <1>2, <1>3, OwnCalm DEF PostStep
<1>4. CASE DrainStep(w)
  BY ZenonT(40), <1>1, <1>2, <1>4, OwnCalm, OwnStartDrain, OwnDrainOverflow,
     OwnTakeActiveSenders, OwnVisitSender, OwnDrainQueue, OwnHandshake, OwnEndScan,
     OwnFinishParkingDrain DEF DrainStep
<1>5. CASE RoundStep(w)
  BY ZenonT(40), <1>1, <1>2, <1>5, OwnCalm, OwnSnapshot, OwnPark DEF RoundStep
<1> QED BY <1>3, <1>4, <1>5 DEF Step

LEMMA OwnPost ==
    ASSUME LaneInv, NEW w \in Worker, WorkerInv(w), NEW m \in Msg, NEW t \in Worker,
           Post(w, m, t)
    PROVE  WorkerInv(w)'
<1>1. TypeOK /\ w \in Thread /\ pc \in [Thread -> WorkerLocations \cup ForeignLocations]
  BY ZenonT(40) DEF LaneInv, TypeOK, LocationsOK, Thread
<1>2. OnlyActor(w)
  BY Zenon, <1>1, ActorPost
<1>3. PostedOK(w)'
  BY Zenon, <1>1 DEF PostedOK, Post, Goto
<1> QED BY ZenonT(40), <1>1, <1>2, <1>3, CalmPost, CalmKeeps DEF WorkerInv

(* What a step of worker w may do to the others.                           *)
LEMMA ReachesStep ==
    ASSUME LaneInv, NEW w \in Worker, NEW r \in Worker \ {w}, OnlyActor(w),
           Step(w) \/ SubmitUnavailable(w) \/ WakeOther(w)
    PROVE  Reaches(w, r)
<1>1. TypeOK
  BY Zenon DEF LaneInv
<1>2. CASE PostStep(w)
  BY Zenon, <1>1, <1>2, ReachesTryEnqueue, ReachesEnqueueOverflow,
     ReachesFlagOverflow, ReachesMarkWake, ReachesBits DEF PostStep
<1>3. CASE DrainStep(w)
  BY Zenon, <1>1, <1>3, LocalSteps, ReachesLocal DEF DrainStep
<1>4. CASE RoundStep(w)
  BY Zenon, <1>1, <1>4, LocalSteps, ReachesLocal, ReachesBits, ReachesBumpTarget,
     ReachesSubmit DEF RoundStep
<1>5. CASE SubmitUnavailable(w) \/ WakeOther(w)
  BY Zenon, <1>1, <1>5, LocalSteps, ReachesLocal
<1> QED BY SMTT(30), <1>2, <1>3, <1>4, <1>5 DEF Step

LEMMA WakeInit == Init => IInv
<1> SUFFICES ASSUME Init PROVE IInv
  OBVIOUS
<1>1. LaneInv
  BY Zenon, LaneInit
<1>2. ASSUME NEW r \in Worker PROVE WorkerInv(r)
  <2>1. /\ pc[r] = "drain" /\ ~parking[r] /\ cursor[r].consumed = 0
        /\ \A k \in Kind : overflow[r][k] = <<>>
    BY DEF Init, Thread, Kind
  <2>2. SenderQuota # 0
    BY SizesAssumption
  <2> QED BY ZenonT(40), <2>1, <2>2
    DEF WorkerInv, DrainOK, PostedOK, OverflowOK, ParkingOK, SleepsSafely
<1> QED BY Zenon, <1>1, <1>2 DEF IInv

LEMMA WakeNext == IInv /\ [Next]_vars => IInv'
<1> SUFFICES ASSUME IInv, [Next]_vars PROVE IInv'
  OBVIOUS
<1>0. LaneInv /\ TypeOK /\ \A r \in Worker : WorkerInv(r)
  BY Zenon DEF IInv, LaneInv
<1>1. LaneInv'
  BY Zenon, <1>0, LaneNext
<1>2. ASSUME NEW r \in Worker PROVE WorkerInv(r)'
  <2>t. \A w \in Worker : w \in Thread
    BY Zenon, <1>0, ThreadFacts
  <2>1. ASSUME NEW w \in Worker, Step(w) \/ SubmitUnavailable(w) \/ WakeOther(w)
        PROVE  WorkerInv(r)'
    <3>1. OnlyActor(w)
      BY Zenon, <1>0, <2>1, ActorSteps
    <3>2. CASE r = w
      BY Zenon, <1>0, <2>1, <3>2, OwnStep
    <3>3. CASE r # w
      <4>1. Reaches(w, r)
        BY Zenon, <1>0, <2>1, <3>1, <3>3, ReachesStep
      <4> QED BY Zenon, <1>0, <2>t, <3>1, <3>3, <4>1, RemoteKeeps
    <3> QED BY <3>2, <3>3
  <2>2. ASSUME NEW w \in Worker, NEW m \in Msg, NEW t \in Worker, Post(w, m, t)
        PROVE  WorkerInv(r)'
    <3>1. OnlyActor(w)
      BY Zenon, <1>0, <2>2, ActorPost
    <3>2. CASE r = w
      BY Zenon, <1>0, <2>2, <3>2, OwnPost
    <3>3. CASE r # w
      <4>1. Reaches(w, r)
        BY ZenonT(40), <1>0, <2>2, <3>1, <3>3, LocalPost, ReachesLocal
      <4> QED BY ZenonT(40), <1>0, <2>t, <3>1, <3>3, <4>1, RemoteKeeps
    <3> QED BY <3>2, <3>3
  <2>3. ASSUME NEW f \in Foreign,
               \/ ForeignStep(f)
               \/ \E m \in Ntf, t \in Worker : ForeignPost(f, m, t)
        PROVE  WorkerInv(r)'
    <3>1. OnlyActor(f)
      BY Zenon, <1>0, <2>3, ActorForeign
    <3>2. Reaches(f, r)
      BY Zenon, <1>0, <2>3, <3>1, ReachesForeign
    <3>3. f \in Thread /\ f # r
      BY Zenon, <1>0, ThreadFacts
    <3> QED BY Zenon, <1>0, <3>1, <3>2, <3>3, RemoteKeeps
  <2>4. CASE UNCHANGED vars
    <3>1. /\ UNCHANGED <<pc, post, ring, bits, overflow, overflowPending, wakeSeq>>
          /\ UNCHANGED <<wakeList, outbox, wakeCqe, drain, cursor, parking, seq, bumps>>
      BY Zenon, <2>4 DEF vars, postVars, laneVars, overVars, wakeVars, drainVars, parkVars
    <3>2. DrainOK(r)' /\ PostedOK(r)'
      BY ZenonT(40), <1>0, <3>1 DEF WorkerInv, DrainOK, PostedOK, InList
    <3>3. \A k \in Kind : OverflowDue(r, k) <=> OverflowDue(r, k)'
      BY Zenon, <3>1 DEF OverflowDue
    <3>4. \A p \in Thread : /\ Flagging(p, r) <=> Flagging(p, r)'
                            /\ Owes(p, r) <=> Owes(p, r)'
      BY Zenon, <3>1 DEF Flagging, Owes
    <3>5. OverflowOK(r)'
      BY ZenonT(40), <1>0, <3>1, <3>3, <3>4 DEF WorkerInv, OverflowOK
    <3>6. \A s \in Worker, k \in Kind : LaneDue(r, s, k) <=> LaneDue(r, s, k)'
      BY Zenon, <3>1 DEF LaneDue, Unread
    <3>7. SeesAll(r) => SeesAll(r)'
      BY ZenonT(40), <2>t, <3>1, <3>3, <3>4, <3>6 DEF SeesAll
    <3>8. ParkingOK(r)'
      BY ZenonT(40), <1>0, <3>1, <3>7 DEF WorkerInv, ParkingOK
    <3>9. WakeComing(r) <=> WakeComing(r)'
      BY Zenon, <3>1 DEF WakeComing
    <3>10. SleepsSafely(r)'
      BY ZenonT(40), <1>0, <2>t, <3>1, <3>4, <3>9 DEF WorkerInv, SleepsSafely
    <3> QED BY ZenonT(40), <3>2, <3>5, <3>8, <3>10 DEF WorkerInv
  <2> QED BY Zenon, <2>1, <2>2, <2>3, <2>4 DEF Next
<1> QED BY Zenon, <1>1, <1>2 DEF IInv

(* The handshakes of lanes, overflow flags, drains and wake_seq_, whatever *)
(* the interleaving of workers and foreign threads.                        *)
THEOREM HandshakesHold == Spec => []IInv
BY WakeInit, WakeNext, PTL DEF Spec

(* No lost wakeup, for any number of workers and foreign threads, any ring *)
(* and batch sizes and any width of wake_seq_: a worker that RunOnce parks *)
(* sleeps only while everybody who posted to it has yet to bump wake_seq_, *)
(* or while a wake is on its way.                                          *)
THEOREM WakeupsArrive == Spec => []NoLostWakeup
<1>1. IInv => NoLostWakeup
  BY Zenon DEF IInv, WorkerInv, NoLostWakeup
<1> QED BY <1>1, HandshakesHold, PTL
=============================================================================
