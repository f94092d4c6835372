---------------------------- MODULE EndingProofs ----------------------------
(***************************************************************************)
(* LifecycleInOrder and CallsAreSafe for any number of workers, coroutines *)
(* and foreign threads.                                                    *)
(***************************************************************************)
EXTENDS Ending, FiniteSetTheorems, TLAPS

-----------------------------------------------------------------------------
(* Lifecycle: where a thread is when it has arrived at the latch, at the   *)
(* first barrier and at the second.                                        *)
EndedAt == {"exit", "leave", "last", "notify", "done"}
ReclaimedAt == {"barrier2", "finalize"} \cup EndedAt
DrainedAt == {"barrier1", "destroyed"} \cup ReclaimedAt
ArrivedAt == {"latch", "init", "run", "loop", "drained"} \cup DrainedAt
LaunchedAt == {"start"} \cup ArrivedAt

In(at) == {w \in Worker : pc[w] \in at}

ServerType ==
    /\ pc \in [Worker -> {"none"} \cup LaunchedAt]
    /\ main \in {"launch", "count", "failed", "wait", "joined"}
    /\ arrived \in Nat /\ affinityFailed \in BOOLEAN
    /\ todo \in [Caller -> SUBSET Worker]
    /\ frames \in [Worker -> {"none", "live", "destroyed"}]
    /\ drained \in Nat /\ reclaimed \in Nat
    /\ code \in [Worker -> {0, 1}] /\ exitCode \in {0, 1}

(* The latch and the barriers count threads; the main thread arrives for   *)
(* itself and for those it could not launch.                               *)
CountsOK ==
    /\ arrived = Cardinality(In(ArrivedAt))
                 + (IF main \in {"launch", "count"} THEN 0
                    ELSE N - Cardinality(In(LaunchedAt)) + 1)
    /\ ~affinityFailed => /\ drained = Cardinality(In(DrainedAt))
                          /\ reclaimed = Cardinality(In(ReclaimedAt))

(* A thread passes the latch when the launch is over and all have arrived. *)
LatchOK ==
    /\ main = "count" => In(LaunchedAt) = Worker
    /\ In(LaunchedAt \ {"start", "latch"}) # {} =>
           main \notin {"launch", "count"} /\ In({"start"}) = {}

(* Where a thread is tells which frames it has.                            *)
FramesOK ==
    \A w \in Worker :
        /\ frames[w] = "live" => pc[w] \in {"run", "loop", "drained", "barrier1"}
        /\ frames[w] = "destroyed" => In(DrainedAt) = Worker
        /\ pc[w] = "finalize" => In(ReclaimedAt) = Worker

(* A failure is reported when its thread leaves, which it does after its   *)
(* RequestStop.                                                            *)
CodesOK ==
    /\ \A w \in Worker :
          /\ code[w] # 0 => pc[w] \in {"drained"} \cup DrainedAt
          /\ code[w] # 0 /\ pc[w] \in EndedAt \ {"exit"} => exitCode # 0
          /\ todo[w] # {} => pc[w] \in {"drained", "exit", "leave"}
    /\ exitCode # 0 => \E w \in Worker : code[w] # 0
    /\ main = "joined" => In({"none", "done"}) = Worker

ServerInv ==
    ServerType /\ CountsOK /\ LatchOK /\ FramesOK /\ StartIsAllOrNothing /\ CodesOK

-----------------------------------------------------------------------------
(* RemoteCalls: the places from which one coroutine's work is answered.    *)
Place == {"request", "scheduled", "running", "task", "reply", "ready"}
Work == [kind : {"fn", "task"}, reply_deferred : BOOLEAN, result : BOOLEAN]

Has(w, p, c) ==
    \/ p = "request" /\ c \in requests[w]
    \/ p = "scheduled" /\ c \in scheduled[w]
    \/ p = "running" /\ running[w] = c /\ ~Calls!Deferred(c)
    \/ p = "task" /\ task[c] = w
    \/ p = "reply" /\ c \in replies[w]
    \/ p = "ready" /\ w = Home[c] /\ c \in ready

CallsType ==
    /\ work \in [Coroutine -> Work \cup {None}]
    /\ requests \in [Member -> SUBSET Coroutine]
    /\ scheduled \in [Member -> SUBSET Coroutine]
    /\ replies \in [Member -> SUBSET Coroutine]
    /\ running \in [Member -> Coroutine \cup {None}]
    /\ task \in [Coroutine -> Member \cup {None}]
    /\ ready \subseteq Coroutine /\ stop \subseteq Member /\ left \subseteq Member

(* A worker leaves its loop between two calls, after a stop.               *)
LeftOK == \A w \in left : running[w] = None /\ w \in stop

(* Nobody knows a coroutine that does not wait.                            *)
UnknownOK(c) ==
    ~Calls!Live(c) /\ left # Member =>
        \A w \in Member : /\ \A p \in Place : ~Has(w, p, c)
                          /\ running[w] # c

(* The answer is in one place at most...                                   *)
OnceOK(c) ==
    Calls!Live(c) =>
        \A w, v \in Member, p, q \in Place : Has(w, p, c) /\ Has(v, q, c) => w = v /\ p = q

(* ... and in one, unless a stopping worker has dropped the task...        *)
SomewhereOK(c) ==
    Calls!Live(c) => \/ \E w \in Member, p \in Place : Has(w, p, c)
                     \/ Calls!Deferred(c) /\ stop # {}

(* ... which exists only from Start on.  RunRemoteWork is over before the  *)
(* task can answer: both run on one worker.                                *)
DeferredOK(c) ==
    Calls!Live(c) =>
        /\ \A w \in Member : c \in requests[w] \/ c \in scheduled[w] => ~Calls!Deferred(c)
        /\ task[c] # None => Calls!Deferred(c)
        /\ \A w \in Member : running[w] = c /\ Calls!Deferred(c) =>
              \A v \in Member, p \in Place : Has(v, p, c) => v = w /\ p = "task"

(* The result is stored before the reply.                                  *)
ResultOK(c) ==
    Calls!Live(c) =>
        \A w \in Member : Has(w, "running", c) \/ Has(w, "reply", c) \/ c \in ready =>
            work[c].result

CallInv(c) == UnknownOK(c) /\ OnceOK(c) /\ SomewhereOK(c) /\ DeferredOK(c) /\ ResultOK(c)
CallsInv == CallsType /\ LeftOK /\ \A c \in Coroutine : CallInv(c)

-----------------------------------------------------------------------------
(* ForeignExecutor.                                                        *)
ForeignType ==
    /\ pending \in Int
    /\ prod \in [Producer -> {"idle", "checked", "counted", "undo", "notify"}]
    /\ posts \in [Producer -> Nat]
    /\ box \subseteq Producer \X Nat /\ IsFiniteSet(box)
    /\ worker \in [item : (Producer \X Nat) \cup {None},
                   at : {"none", "run", "done", "notify"}]
    /\ adapter \in {"posting", "load", "wait", "blocked", "idle", "stopped", "joined",
                    "destroyed"}

(* pending_ counts.  Producers are stopped before the wait, which ends     *)
(* with nothing pending, and the worker is joined when it is idle.         *)
PostsOK ==
    /\ pending = Cardinality(Foreign!Counted) + Cardinality(box)
                 + (IF worker.at \in {"run", "done"} THEN 1 ELSE 0)
    /\ \A b \in box : b[2] > posts[b[1]]
    /\ \A p \in Producer :
          /\ prod[p] \in {"checked", "counted"} => posts[p] > 0
          /\ adapter # "posting" => prod[p] = "idle" /\ posts[p] = 0
    /\ worker.at = "none" => worker = Foreign!Idle
    /\ adapter \in {"idle", "stopped", "joined", "destroyed"} => pending = 0
    /\ adapter \in {"joined", "destroyed"} => worker = Foreign!Idle

ForeignInv == ForeignType /\ PostsOK

EndingInv == /\ part = "server" => ServerInv
             /\ part = "calls" => CallsInv
             /\ part = "foreign" => ForeignInv

-----------------------------------------------------------------------------
(* Counting: the set of workers at some labels, when one of them moves.    *)
LEMMA InFinite ==
    ASSUME NEW at
    PROVE /\ IsFiniteSet(In(at)) /\ Cardinality(In(at)) \in Nat
          /\ Cardinality(In(at)) <= N /\ N \in Nat
          /\ Cardinality(In(at)) = N => In(at) = Worker
<1>1. In(at) \subseteq Worker BY Zenon DEF In
<1>. QED BY Zenon, <1>1, FS_Subset, FS_CardinalityType, WorkersFinite DEF N

LEMMA InLarger ==
    ASSUME NEW at, NEW more, at \subseteq more
    PROVE /\ In(at) \subseteq In(more) /\ Cardinality(In(at)) <= Cardinality(In(more))
          /\ Cardinality(In(at)) = Cardinality(In(more)) => In(at) = In(more)
<1>1. In(at) \subseteq In(more) BY Zenon DEF In
<1>. QED BY Zenon, <1>1, InFinite, FS_Subset

LEMMA InStays ==
    ASSUME pc \in [Worker -> {"none"} \cup LaunchedAt], NEW w \in Worker, NEW l, NEW at,
           Goto(w, l), pc[w] \in at <=> l \in at
    PROVE In(at)' = In(at)
BY Zenon DEF In, Goto

LEMMA InGrows ==
    ASSUME pc \in [Worker -> {"none"} \cup LaunchedAt], NEW w \in Worker, NEW l, NEW at,
           Goto(w, l), pc[w] \notin at, l \in at
    PROVE /\ In(at)' = In(at) \cup {w}
          /\ Cardinality(In(at)') = Cardinality(In(at)) + 1
<1>1. In(at)' = In(at) \cup {w} BY Zenon DEF In, Goto
<1>2. w \notin In(at) BY Zenon DEF In
<1>. QED BY Zenon, <1>1, <1>2, InFinite, FS_AddElement

LEMMA InSame ==
    ASSUME UNCHANGED pc, NEW at
    PROVE In(at)' = In(at)
BY Zenon DEF In

-----------------------------------------------------------------------------
(* A thread that has passed the latch goes on.                             *)
One(b) == IF b THEN 1 ELSE 0

PastLatch == LaunchedAt \ {"start", "latch"}

Counting(w, l) ==
    /\ pc[w] \in PastLatch /\ l \in PastLatch
    /\ pc[w] \in DrainedAt => l \in DrainedAt
    /\ pc[w] \in ReclaimedAt => l \in ReclaimedAt
    /\ drained' = drained + One(pc[w] \notin DrainedAt /\ l \in DrainedAt)
    /\ reclaimed' = reclaimed + One(pc[w] \notin ReclaimedAt /\ l \in ReclaimedAt)
    /\ affinityFailed => l \in EndedAt

Kept(at) == In(at) = Worker => In(at)' = Worker

LEMMA GoesOn ==
    ASSUME ServerInv, NEW w \in Worker, NEW l, Goto(w, l), UNCHANGED startVars,
           Counting(w, l)
    PROVE /\ pc' \in [Worker -> {"none"} \cup LaunchedAt]
          /\ drained' \in Nat /\ reclaimed' \in Nat
          /\ CountsOK' /\ LatchOK' /\ StartIsAllOrNothing'
          /\ Kept(DrainedAt) /\ Kept(ReclaimedAt)
          /\ main \notin {"launch", "count"}
<1>. USE DEF ServerInv, ServerType
<1>. DEFINE Type == pc \in [Worker -> {"none"} \cup LaunchedAt]
<1>0. Type BY Zenon DEF Type
<1>1. /\ pc[w] \in LaunchedAt /\ pc[w] \in ArrivedAt /\ l \in ArrivedAt /\ l \in LaunchedAt
      /\ pc[w] \notin {"none", "start", "latch"} /\ l \notin {"none", "start", "latch"}
      /\ w \in In(PastLatch)
  BY Zenon DEF Counting, PastLatch, LaunchedAt, ArrivedAt, DrainedAt, ReclaimedAt, EndedAt, In
<1>2. pc' \in [Worker -> {"none"} \cup LaunchedAt] BY Zenon, <1>1 DEF Goto
<1>3. In(ArrivedAt)' = In(ArrivedAt) /\ In(LaunchedAt)' = In(LaunchedAt)
      /\ In(PastLatch)' = In(PastLatch) /\ In({"start"})' = In({"start"})
  <2>1. In(ArrivedAt)' = In(ArrivedAt) BY Zenon, <1>0, <1>1, InStays
  <2>2. In(LaunchedAt)' = In(LaunchedAt) BY Zenon, <1>0, <1>1, InStays
  <2>3. In(PastLatch)' = In(PastLatch)
    BY Zenon, <1>0, InStays DEF Counting
  <2>4. In({"start"})' = In({"start"})
    <3>1. pc[w] \in {"start"} <=> l \in {"start"} BY Zenon, <1>1
    <3>. QED BY Zenon, <1>0, <3>1, InStays
  <2>. QED BY Zenon, <2>1, <2>2, <2>3, <2>4
<1>4. ASSUME NEW at \in {DrainedAt, ReclaimedAt}
      PROVE /\ Cardinality(In(at)') = Cardinality(In(at)) + One(pc[w] \notin at /\ l \in at)
            /\ Kept(at)
  <2>1. CASE pc[w] \in at <=> l \in at
    <3>1. In(at)' = In(at) BY Zenon, <1>0, <2>1, InStays
    <3>. QED BY <2>1, <3>1, InFinite DEF One, Kept
  <2>2. CASE pc[w] \notin at /\ l \in at
    <3>1. /\ In(at)' = In(at) \cup {w}
          /\ Cardinality(In(at)') = Cardinality(In(at)) + 1
      BY Zenon, <1>0, <2>2, InGrows
    <3>. QED BY Zenon, <2>2, <3>1 DEF One, Kept
  <2>. QED BY Zenon, <2>1, <2>2 DEF Counting
<1>5. CountsOK'
  <2>1. arrived' = Cardinality(In(ArrivedAt)') + (IF main' \in {"launch", "count"} THEN 0
                    ELSE N - Cardinality(In(LaunchedAt)') + 1)
    BY Zenon, <1>3 DEF CountsOK, startVars
  <2>2. ASSUME ~affinityFailed' PROVE /\ drained' = Cardinality(In(DrainedAt)')
                                      /\ reclaimed' = Cardinality(In(ReclaimedAt)')
    BY Zenon, <1>4, <2>2 DEF CountsOK, startVars, Counting
  <2>. QED BY Zenon, <2>1, <2>2 DEF CountsOK
<1>6. LatchOK'
  BY Zenon, <1>3 DEF LatchOK, startVars, PastLatch
<1>7. StartIsAllOrNothing'
  BY Zenon DEF StartIsAllOrNothing, startVars, Counting, Goto, EndedAt
<1>8. drained' \in Nat /\ reclaimed' \in Nat BY DEF Counting, One
<1>9. main \notin {"launch", "count"}
  BY Zenon, <1>1 DEF LatchOK, PastLatch
<1>. QED BY Zenon, <1>2, <1>4, <1>5, <1>6, <1>7, <1>8, <1>9

(* The frames of a worker, when a thread moves and leaves them alone.      *)
LEMMA FramesStay ==
    ASSUME ServerInv, NEW w \in Worker, NEW l, Goto(w, l), UNCHANGED frames,
           Kept(DrainedAt), Kept(ReclaimedAt),
           frames[w] = "live" => l \in {"run", "loop", "drained", "barrier1"},
           l # "finalize"
    PROVE FramesOK'
BY Zenon DEF ServerInv, ServerType, FramesOK, Goto, Kept

(* What a thread has to report, when it moves and reports nothing.         *)
LEMMA CodesStay ==
    ASSUME ServerInv, NEW w \in Worker, NEW l, Goto(w, l), UNCHANGED <<code, exitCode, todo>>,
           UNCHANGED main, pc[w] \notin {"none", "done"},
           pc[w] \in {"drained"} \cup DrainedAt => l \in {"drained"} \cup DrainedAt,
           code[w] # 0 /\ l \in EndedAt \ {"exit"} => pc[w] \in EndedAt \ {"exit"},
           todo[w] = {}
    PROVE CodesOK'
<1>. USE DEF ServerInv, ServerType
<1>1. main # "joined" BY Zenon DEF CodesOK, In
<1>2. \A v \in Worker : v # w => pc'[v] = pc[v] BY Zenon DEF Goto
<1>3. pc'[w] = l BY Zenon DEF Goto
<1>4. \A v \in Worker : /\ code'[v] # 0 => pc'[v] \in {"drained"} \cup DrainedAt
                        /\ code'[v] # 0 /\ pc'[v] \in EndedAt \ {"exit"} => exitCode' # 0
                        /\ todo'[v] # {} => pc'[v] \in {"drained", "exit", "leave"}
  BY Zenon, <1>2, <1>3 DEF CodesOK
<1>5. exitCode' # 0 => \E v \in Worker : code'[v] # 0 BY Zenon DEF CodesOK
<1>. QED BY Zenon, <1>1, <1>4, <1>5 DEF CodesOK

LEMMA ServerInit == Init => ServerInv
<1>. SUFFICES ASSUME Init PROVE ServerInv BY Zenon
<1>1. ServerType BY Zenon DEF Init, ServerType
<1>2. ASSUME NEW at, "none" \notin at PROVE In(at) = {}
  BY Zenon, <1>2 DEF Init, In
<1>3. "none" \notin LaunchedAt /\ "none" \notin ArrivedAt /\ "none" \notin DrainedAt
      /\ "none" \notin ReclaimedAt /\ "none" \notin PastLatch
  BY Zenon DEF LaunchedAt, ArrivedAt, DrainedAt, ReclaimedAt, EndedAt, PastLatch
<1>4. In(ArrivedAt) = {} /\ In(DrainedAt) = {} /\ In(ReclaimedAt) = {} /\ In(PastLatch) = {}
  BY Zenon, <1>2, <1>3
<1>5. CountsOK BY <1>4, FS_EmptySet DEF CountsOK, Init
<1>6. LatchOK BY Zenon, <1>4 DEF LatchOK, Init, PastLatch
<1>7. FramesOK BY Zenon DEF FramesOK, Init
<1>8. StartIsAllOrNothing BY Zenon DEF StartIsAllOrNothing, Init
<1>9. CodesOK BY Zenon DEF CodesOK, Init, Caller
<1>. QED BY Zenon, <1>1, <1>5, <1>6, <1>7, <1>8, <1>9 DEF ServerInv

(* Threads between the latch and the end of their event loops.             *)
LEMMA InitWorkerStep ==
    ASSUME ServerInv, NEW w \in Worker, InitWorker(w)
    PROVE ServerInv'
<1>. USE DEF ServerInv, InitWorker, At
<1>1. Goto(w, "run") /\ UNCHANGED startVars BY Zenon
<1>2. Counting(w, "run")
  BY DEF Counting, One, PastLatch, LaunchedAt, ArrivedAt, DrainedAt, ReclaimedAt, EndedAt, StartIsAllOrNothing,
     ServerType
<1>3. /\ pc' \in [Worker -> {"none"} \cup LaunchedAt] /\ drained' \in Nat /\ reclaimed' \in Nat
      /\ CountsOK' /\ LatchOK' /\ StartIsAllOrNothing' /\ Kept(DrainedAt) /\ Kept(ReclaimedAt)
  BY Zenon, <1>1, <1>2, GoesOn
<1>4. ServerType'
  BY Zenon, <1>3 DEF ServerType, startVars, stopVars, endVars
<1>5. FramesOK'
  BY Zenon, <1>3 DEF FramesOK, ServerType, Goto, Kept
<1>6. CodesOK'
  <2>1. pc[w] \notin {"none", "done"} /\ UNCHANGED <<code, exitCode, todo>> /\ UNCHANGED main
    BY Zenon DEF startVars, stopVars, endVars
  <2>. QED BY Zenon, <2>1, CodesStay DEF DrainedAt, ReclaimedAt, EndedAt
<1>. QED BY Zenon, <1>3, <1>4, <1>5, <1>6

(* A thread that only counts.                                              *)
LEMMA QuietStep ==
    ASSUME ServerInv, NEW w \in Worker, NEW l, Goto(w, l), Counting(w, l), todo[w] = {},
           UNCHANGED <<frames, todo, code, exitCode>>, UNCHANGED startVars,
           pc[w] \notin {"none", "done"}, l # "finalize",
           frames[w] = "live" => l \in {"run", "loop", "drained", "barrier1"},
           pc[w] \in {"drained"} \cup DrainedAt => l \in {"drained"} \cup DrainedAt,
           l \in EndedAt \ {"exit"} => pc[w] \in EndedAt \ {"exit"}
    PROVE ServerInv'
<1>1. /\ pc' \in [Worker -> {"none"} \cup LaunchedAt] /\ drained' \in Nat /\ reclaimed' \in Nat
      /\ CountsOK' /\ LatchOK' /\ StartIsAllOrNothing' /\ Kept(DrainedAt) /\ Kept(ReclaimedAt)
  BY Zenon, GoesOn
<1>2. ServerType' BY Zenon, <1>1 DEF ServerInv, ServerType, startVars
<1>3. FramesOK' BY Zenon, <1>1, FramesStay
<1>4. CodesOK' BY Zenon, CodesStay DEF startVars
<1>. QED BY Zenon, <1>1, <1>2, <1>3, <1>4 DEF ServerInv

LEMMA LoopSteps ==
    ASSUME ServerInv, NEW w \in Worker,
           Run(w) \/ LeaveLoop(w) \/ Drain(w) \/ Reclaim(w) \/ Leave(w) \/ Notify(w)
    PROVE ServerInv'
<1>. USE DEF At, PastLatch, LaunchedAt, ArrivedAt, DrainedAt, ReclaimedAt, EndedAt, One
<1>0. /\ drained \in Nat /\ reclaimed \in Nat
      /\ affinityFailed => pc[w] \in {"none", "start", "latch"} \cup EndedAt
      /\ frames[w] = "live" => pc[w] \in {"run", "loop", "drained", "barrier1"}
  BY Zenon DEF ServerInv, ServerType, StartIsAllOrNothing, FramesOK
<1>1. CASE Run(w)
  <2>1. Goto(w, "loop") /\ Counting(w, "loop") /\ UNCHANGED <<frames, todo, code, exitCode>> /\ UNCHANGED startVars
    BY <1>0, <1>1 DEF Run, Counting, barrierVars, stopVars, endVars
  <2>. QED BY Zenon, <1>1, <2>1, QuietStep DEF Run
<1>2. CASE LeaveLoop(w)
  <2>1. Goto(w, "drained") /\ Counting(w, "drained") /\ UNCHANGED <<frames, todo, code, exitCode>> /\ UNCHANGED startVars
    BY <1>0, <1>2 DEF LeaveLoop, Counting, barrierVars, stopVars, endVars
  <2>. QED BY Zenon, <1>2, <2>1, QuietStep DEF LeaveLoop
<1>3. CASE Drain(w)
  <2>1. Goto(w, "barrier1") /\ Counting(w, "barrier1") /\ UNCHANGED <<frames, todo, code, exitCode>> /\ UNCHANGED startVars
    BY <1>0, <1>3 DEF Drain, Counting, stopVars, endVars
  <2>. QED BY Zenon, <1>3, <2>1, QuietStep DEF Drain
<1>4. CASE Reclaim(w)
  <2>1. Goto(w, "barrier2") /\ Counting(w, "barrier2") /\ UNCHANGED <<frames, todo, code, exitCode>> /\ UNCHANGED startVars
    BY <1>0, <1>4 DEF Reclaim, Counting, stopVars, endVars
  <2>. QED BY Zenon, <1>0, <1>4, <2>1, QuietStep DEF Reclaim
<1>5. CASE Leave(w)
  <2>1. PICK l \in {"last", "notify"} : Goto(w, l)
    BY Zenon, <1>5 DEF Leave
  <2>2. Counting(w, l) /\ UNCHANGED <<frames, todo, code, exitCode>> /\ UNCHANGED startVars
    BY <1>0, <1>5 DEF Leave, Counting, barrierVars, stopVars, endVars
  <2>. QED BY Zenon, <1>0, <1>5, <2>1, <2>2, QuietStep DEF Leave
<1>6. CASE Notify(w)
  <2>1. Goto(w, "done") /\ Counting(w, "done") /\ UNCHANGED <<frames, todo, code, exitCode>> /\ UNCHANGED startVars
    BY <1>0, <1>6 DEF Notify, Counting, barrierVars, stopVars, endVars
  <2>. QED BY Zenon, <1>0, <1>6, <2>1, QuietStep DEF Notify
<1>. QED BY Zenon, <1>1, <1>2, <1>3, <1>4, <1>5, <1>6

(* The two barriers: all threads have counted.                             *)
LEMMA BarrierSteps ==
    ASSUME ServerInv, NEW w \in Worker, DestroyFrames(w) \/ Finalize(w)
    PROVE ServerInv'
<1>. USE DEF At
<1>0. /\ ~affinityFailed
      /\ drained = Cardinality(In(DrainedAt)) /\ reclaimed = Cardinality(In(ReclaimedAt))
      /\ drained \in Nat /\ reclaimed \in Nat
  BY Zenon DEF ServerInv, ServerType, StartIsAllOrNothing, CountsOK, DestroyFrames, Finalize
<1>1. CASE DestroyFrames(w)
  <2>. USE <1>1 DEF DestroyFrames
  <2>1. Goto(w, "destroyed") /\ UNCHANGED startVars BY Zenon
  <2>2. Counting(w, "destroyed")
    BY <1>0 DEF Counting, One, PastLatch, LaunchedAt, ArrivedAt, DrainedAt, ReclaimedAt, EndedAt
  <2>3. /\ pc' \in [Worker -> {"none"} \cup LaunchedAt] /\ drained' \in Nat /\ reclaimed' \in Nat
        /\ CountsOK' /\ LatchOK' /\ StartIsAllOrNothing' /\ Kept(DrainedAt) /\ Kept(ReclaimedAt)
    BY Zenon, <2>1, <2>2, GoesOn
  <2>4. ServerType' BY Zenon, <2>3 DEF ServerInv, ServerType, startVars, stopVars, endVars
  <2>5. In(DrainedAt) = Worker
    <3>1. drained >= N /\ Cardinality(In(DrainedAt)) <= N /\ N \in Nat
      BY Zenon, InFinite DEF AllDrained
    <3>2. Cardinality(In(DrainedAt)) = N BY <1>0, <3>1
    <3>. QED BY Zenon, <3>2, InFinite
  <2>6. FramesOK' BY Zenon, <2>3, <2>5 DEF ServerInv, ServerType, FramesOK, Goto, Kept
  <2>7. CodesOK'
    <3>1. pc[w] \notin {"none", "done"} /\ UNCHANGED <<code, exitCode, todo>> /\ UNCHANGED main
      BY Zenon DEF startVars, stopVars, endVars
    <3>. QED BY Zenon, <3>1, CodesStay DEF DrainedAt, ReclaimedAt, EndedAt
  <2>. QED BY Zenon, <2>3, <2>4, <2>6, <2>7 DEF ServerInv
<1>2. CASE Finalize(w)
  <2>. USE <1>2 DEF Finalize
  <2>1. Goto(w, "finalize") /\ UNCHANGED startVars BY Zenon
  <2>2. Counting(w, "finalize")
    BY <1>0 DEF Counting, One, PastLatch, LaunchedAt, ArrivedAt, DrainedAt, ReclaimedAt, EndedAt,
       barrierVars
  <2>3. /\ pc' \in [Worker -> {"none"} \cup LaunchedAt] /\ drained' \in Nat /\ reclaimed' \in Nat
        /\ CountsOK' /\ LatchOK' /\ StartIsAllOrNothing' /\ Kept(DrainedAt) /\ Kept(ReclaimedAt)
    BY Zenon, <2>1, <2>2, GoesOn
  <2>4. ServerType' BY Zenon, <2>3 DEF ServerInv, ServerType, startVars, stopVars, endVars, barrierVars
  <2>5. In(ReclaimedAt) = Worker
    <3>1. reclaimed >= N /\ Cardinality(In(ReclaimedAt)) <= N /\ N \in Nat
      BY Zenon, InFinite DEF AllReclaimed
    <3>2. Cardinality(In(ReclaimedAt)) = N BY <1>0, <3>1
    <3>. QED BY Zenon, <3>2, InFinite
  <2>6. FramesOK' BY Zenon, <2>3, <2>5 DEF ServerInv, ServerType, FramesOK, Goto, Kept, barrierVars
  <2>7. CodesOK'
    <3>1. pc[w] \notin {"none", "done"} /\ UNCHANGED <<code, exitCode, todo>> /\ UNCHANGED main
      BY Zenon DEF startVars, stopVars, endVars
    <3>. QED BY Zenon, <3>1, CodesStay DEF DrainedAt, ReclaimedAt, EndedAt
  <2>. QED BY Zenon, <2>3, <2>4, <2>6, <2>7 DEF ServerInv
<1>. QED BY Zenon, <1>1, <1>2

-----------------------------------------------------------------------------
(* Threads that fail, and those that report it: RequestStop gives them     *)
(* others to stop.                                                         *)
LEMMA Stopping ==
    ASSUME ServerType, NEW p \in Caller, RequestStop(p)
    PROVE /\ todo' \in [Caller -> SUBSET Worker]
          /\ \A q \in Caller : q # p => todo'[q] = todo[q]
BY Zenon DEF ServerType, RequestStop

LEMMA FailSteps ==
    ASSUME ServerInv, NEW w \in Worker, InitFails(w) \/ LoopFails(w) \/ Exit(w)
    PROVE ServerInv'
<1>. USE DEF At, PastLatch, LaunchedAt, ArrivedAt, DrainedAt, ReclaimedAt, EndedAt, One
<1>0. /\ drained \in Nat /\ reclaimed \in Nat /\ w \in Caller
      /\ affinityFailed => pc[w] \in {"none", "start", "latch"} \cup EndedAt
      /\ frames[w] = "live" => pc[w] \in {"run", "loop", "drained", "barrier1"}
  BY Zenon DEF ServerInv, ServerType, StartIsAllOrNothing, FramesOK, Caller
<1>1. PICK l \in {"exit", "drained", "leave"} :
         /\ Goto(w, l) /\ Counting(w, l) /\ UNCHANGED frames /\ UNCHANGED startVars
         /\ \/ l = "exit" /\ InitFails(w)
            \/ l = "drained" /\ LoopFails(w)
            \/ l = "leave" /\ Exit(w)
  <2>1. CASE InitFails(w)
    <3>1. Counting(w, "exit") BY Zenon, <1>0, <2>1 DEF InitFails, Counting
    <3>2. Goto(w, "exit") /\ UNCHANGED frames /\ UNCHANGED startVars BY Zenon, <2>1 DEF InitFails
    <3>3. "exit" \in {"exit", "drained", "leave"} BY Zenon
    <3>. QED BY <2>1, <3>1, <3>2, <3>3, Zenon
  <2>2. CASE LoopFails(w)
    <3>1. Counting(w, "drained") BY <1>0, <2>2 DEF LoopFails, Counting, barrierVars
    <3>2. Goto(w, "drained") /\ UNCHANGED frames /\ UNCHANGED startVars BY Zenon, <2>2 DEF LoopFails, barrierVars
    <3>3. "drained" \in {"exit", "drained", "leave"} BY Zenon
    <3>. QED BY <2>2, <3>1, <3>2, <3>3, Zenon
  <2>3. CASE Exit(w)
    <3>1. Counting(w, "leave") BY <1>0, <2>3 DEF Exit, Counting, barrierVars
    <3>2. Goto(w, "leave") /\ UNCHANGED frames /\ UNCHANGED startVars BY Zenon, <2>3 DEF Exit, barrierVars
    <3>3. "leave" \in {"exit", "drained", "leave"} BY Zenon
    <3>. QED BY <2>3, <3>1, <3>2, <3>3, Zenon
  <2>. QED BY Zenon, <2>1, <2>2, <2>3
<1>2. /\ pc' \in [Worker -> {"none"} \cup LaunchedAt] /\ drained' \in Nat /\ reclaimed' \in Nat
      /\ CountsOK' /\ LatchOK' /\ StartIsAllOrNothing' /\ Kept(DrainedAt) /\ Kept(ReclaimedAt)
  BY Zenon, <1>1, GoesOn
<1>3. todo' \in [Caller -> SUBSET Worker] /\ \A q \in Caller : q # w => todo'[q] = todo[q]
  BY Zenon, <1>0, Stopping DEF ServerInv, ServerType, InitFails, LoopFails, Exit, stopVars
<1>4. /\ code' \in [Worker -> {0, 1}] /\ exitCode' \in {0, 1}
      /\ \A v \in Worker : v # w => code'[v] = code[v]
      /\ code[w] # 0 => code'[w] # 0
      /\ exitCode # 0 => exitCode' # 0
      /\ exitCode' # 0 => exitCode # 0 \/ code'[w] # 0
      /\ l = "leave" /\ code'[w] # 0 => exitCode' # 0
  BY Zenon, <1>1 DEF ServerInv, ServerType, InitFails, LoopFails, Exit
<1>5. ServerType' BY Zenon, <1>1, <1>2, <1>3, <1>4 DEF ServerInv, ServerType, startVars
<1>6. FramesOK'
  <2>1. frames[w] = "live" => l \in {"run", "loop", "drained", "barrier1"}
    BY Zenon, <1>0, <1>1 DEF InitFails, Exit
  <2>. QED BY Zenon, <1>1, <1>2, <2>1, FramesStay
<1>7. CodesOK'
  <2>1. main' = main /\ main # "joined" /\ pc[w] \notin {"none", "done"}
    <3>1. pc[w] \notin {"none", "done"} BY Zenon, <1>1 DEF InitFails, LoopFails, Exit
    <3>. QED BY Zenon, <1>1, <3>1 DEF ServerInv, CodesOK, In, startVars
  <2>2. pc'[w] = l /\ \A v \in Worker : v # w => pc'[v] = pc[v]
    BY Zenon, <1>1 DEF ServerInv, ServerType, Goto
  <2>3. \A v \in Worker :
          /\ code'[v] # 0 => pc'[v] \in {"drained"} \cup DrainedAt
          /\ code'[v] # 0 /\ pc'[v] \in EndedAt \ {"exit"} => exitCode' # 0
          /\ todo'[v] # {} => pc'[v] \in {"drained", "exit", "leave"}
    <3>. SUFFICES ASSUME NEW v \in Worker
                  PROVE /\ code'[v] # 0 => pc'[v] \in {"drained"} \cup DrainedAt
                        /\ code'[v] # 0 /\ pc'[v] \in EndedAt \ {"exit"} => exitCode' # 0
                        /\ todo'[v] # {} => pc'[v] \in {"drained", "exit", "leave"}
      BY Zenon
    <3>0. v \in Caller BY Zenon DEF Caller
    <3>1. CASE v = w BY Zenon, <1>1, <1>4, <2>2, <3>1
    <3>2. CASE v # w BY ZenonT(40), <1>3, <1>4, <2>2, <3>0, <3>2 DEF ServerInv, CodesOK
    <3>. QED BY Zenon, <3>1, <3>2
  <2>4. ASSUME exitCode' # 0 PROVE \E v \in Worker : code'[v] # 0
    <3>1. CASE code'[w] # 0 BY Zenon, <3>1
    <3>2. CASE code'[w] = 0
      <4>1. PICK v \in Worker : code[v] # 0 BY Zenon, <1>4, <2>4, <3>2 DEF ServerInv, CodesOK
      <4>. QED BY SMTT(30), <1>4, <3>2, <4>1
    <3>. QED BY Zenon, <3>1, <3>2
  <2>. QED BY Zenon, <2>1, <2>3, <2>4 DEF CodesOK
<1>. QED BY Zenon, <1>2, <1>5, <1>6, <1>7 DEF ServerInv

-----------------------------------------------------------------------------
(* The launch.                                                             *)
LEMMA LaunchedIs == ServerType => Launched = In(LaunchedAt)
BY Zenon DEF ServerType, Launched, In, LaunchedAt, ArrivedAt, DrainedAt, ReclaimedAt, EndedAt

LEMMA LaunchStep ==
    ASSUME ServerInv, Launch
    PROVE ServerInv'
<1>. USE DEF ServerInv
<1>0. PICK w \in Worker \ Launched :
        /\ Goto(w, "start")
        /\ main' = IF Cardinality(Launched) + 1 = N THEN "count" ELSE main
  BY Zenon DEF Launch
<1>1. w \in Worker /\ pc[w] = "none" /\ main = "launch" BY Zenon, <1>0 DEF Launched, Launch
<1>2. /\ UNCHANGED <<arrived, affinityFailed, todo, frames, drained, reclaimed, code, exitCode>>
  BY Zenon DEF Launch, stopVars, barrierVars, endVars
<1>3. pc \in [Worker -> {"none"} \cup LaunchedAt] BY Zenon DEF ServerType
<1>4. /\ In(ArrivedAt)' = In(ArrivedAt) /\ In(DrainedAt)' = In(DrainedAt)
      /\ In(ReclaimedAt)' = In(ReclaimedAt) /\ In(PastLatch)' = In(PastLatch)
  BY Zenon, <1>0, <1>1, <1>3, InStays DEF PastLatch, LaunchedAt, ArrivedAt, DrainedAt, ReclaimedAt, EndedAt
<1>5. /\ In(LaunchedAt)' = In(LaunchedAt) \cup {w}
      /\ Cardinality(In(LaunchedAt)') = Cardinality(In(LaunchedAt)) + 1
  <2>1. "none" \notin LaunchedAt /\ "start" \in LaunchedAt
    BY Zenon DEF LaunchedAt, ArrivedAt, DrainedAt, ReclaimedAt, EndedAt
  <2>. QED BY ZenonT(40), <1>0, <1>1, <1>3, <2>1, InGrows
<1>6. ServerType'
  BY Zenon, <1>0, <1>1, <1>2 DEF ServerType, Goto, LaunchedAt
<1>7. CountsOK'
  BY Zenon, <1>0, <1>1, <1>2, <1>4 DEF CountsOK
<1>8. LatchOK'
  <2>1. In(PastLatch) = {} BY Zenon, <1>1 DEF LatchOK, PastLatch
  <2>2. ASSUME main' = "count" PROVE In(LaunchedAt)' = Worker
    <3>1. Cardinality(In(LaunchedAt)') = N BY ZenonT(40), <1>0, <1>1, <1>5, <2>2, LaunchedIs
    <3>2. In(LaunchedAt)' \subseteq Worker BY Zenon DEF In
    <3>. QED BY Zenon, <3>1, <3>2, FS_Subset, WorkersFinite DEF N
  <2>3. main' \in {"launch", "count"} BY Zenon, <1>0, <1>1
  <2>. QED BY Zenon, <1>4, <2>1, <2>2, <2>3 DEF LatchOK, PastLatch
<1>9. FramesOK'
  <2>1. Kept(DrainedAt) /\ Kept(ReclaimedAt) BY Zenon, <1>4 DEF Kept
  <2>2. frames[w] # "live" BY Zenon, <1>1 DEF FramesOK
  <2>. QED BY ZenonT(40), <1>0, <1>1, <1>2, <2>1, <2>2, FramesStay
<1>10. StartIsAllOrNothing'
  BY Zenon, <1>0, <1>1, <1>2, <1>3 DEF StartIsAllOrNothing, Goto
<1>11. CodesOK'
  <2>1. code[w] = 0 /\ todo[w] = {}
    BY Zenon, <1>1 DEF CodesOK, DrainedAt, ReclaimedAt, EndedAt
  <2>2. pc'[w] = "start" /\ \A v \in Worker : v # w => pc'[v] = pc[v]
    BY Zenon, <1>0, <1>1, <1>3 DEF Goto
  <2>3. main' # "joined" BY Zenon, <1>0, <1>1
  <2>. QED BY Zenon, <1>2, <2>1, <2>2, <2>3 DEF CodesOK
<1>. QED BY ZenonT(40), <1>6, <1>7, <1>8, <1>9, <1>10, <1>11

(* Steps that leave the threads where they are.                            *)
LEMMA NobodyMoves ==
    ASSUME ServerInv, UNCHANGED <<pc, frames, drained, reclaimed, code, exitCode>>
    PROVE /\ \A at : In(at)' = In(at)
          /\ FramesOK'
          /\ affinityFailed' = affinityFailed => StartIsAllOrNothing'
          /\ todo' = todo /\ main' # "joined" => CodesOK'
<1>1. \A at : In(at)' = In(at) BY Zenon DEF In
<1>. QED BY Zenon, <1>1 DEF ServerInv, FramesOK, StartIsAllOrNothing, CodesOK

LEMMA LaunchEnds ==
    ASSUME ServerInv, LaunchFails \/ LaunchDone
    PROVE ServerInv'
<1>. USE DEF ServerInv
<1>0. /\ UNCHANGED <<pc, frames, drained, reclaimed, code, exitCode>> /\ UNCHANGED todo
      /\ main' \in {"failed", "wait"} /\ main \in {"launch", "count"}
      /\ main = "launch" => affinityFailed' = TRUE /\ main' = "failed"
      /\ main = "count" => affinityFailed' = affinityFailed /\ main' = "wait"
  BY Zenon DEF LaunchFails, LaunchDone, stopVars, barrierVars, endVars
<1>1. (\A at : In(at)' = In(at)) /\ FramesOK' /\ CodesOK'
  BY Zenon, <1>0, NobodyMoves
<1>2. In(PastLatch) = {} BY Zenon, <1>0 DEF LatchOK, PastLatch
<1>3. Cardinality(In(LaunchedAt)) \in Nat /\ N \in Nat /\ Cardinality(In(LaunchedAt)) <= N
      /\ Cardinality(In(ArrivedAt)) \in Nat
  BY Zenon, InFinite
<1>5. Cardinality(In(LaunchedAt)) = Cardinality(Launched) BY Zenon, LaunchedIs
<1>6. main = "count" => Cardinality(In(LaunchedAt)) = N
  BY Zenon DEF LatchOK, N
<1>7. arrived' = arrived + (N - Cardinality(In(LaunchedAt))) + 1
  BY SMTT(30), <1>3, <1>5, <1>6 DEF LaunchFails, LaunchDone, ServerType
<1>8. CountsOK'
  <2>1. arrived' = Cardinality(In(ArrivedAt)') + (N - Cardinality(In(LaunchedAt)') + 1)
    BY SMTT(30), <1>0, <1>1, <1>3, <1>7 DEF CountsOK
  <2>2. ~affinityFailed' => ~affinityFailed BY Zenon, <1>0
  <2>3. main' \notin {"launch", "count"} BY Zenon, <1>0
  <2>. QED BY ZenonT(40), <1>0, <1>1, <2>1, <2>2, <2>3 DEF CountsOK
<1>9. ServerType'
  <2>1. arrived' \in Nat BY <1>3, <1>7 DEF ServerType
  <2>2. affinityFailed' \in BOOLEAN BY Zenon, <1>0 DEF ServerType
  <2>. QED BY Zenon, <1>0, <2>1, <2>2 DEF ServerType
<1>10. LatchOK'
  BY Zenon, <1>0, <1>1, <1>2 DEF LatchOK, PastLatch
<1>11. StartIsAllOrNothing'
  <2>1. \A w \in Worker : pc[w] \in {"none", "start", "latch"}
    BY Zenon, <1>2 DEF In, PastLatch, ServerType
  <2>. QED BY Zenon, <1>0, <2>1 DEF StartIsAllOrNothing
<1>. QED BY ZenonT(40), <1>1, <1>8, <1>9, <1>10, <1>11

(* Stop requests and the wait of the main thread.                          *)
LEMMA StopSteps ==
    ASSUME ServerInv,
           StartFails \/ ControlStop \/ Join \/ (\E p \in Caller : StopOne(p))
           \/ (\E w \in Worker : HandleWakePoll(w))
    PROVE ServerInv'
<1>. USE DEF ServerInv
<1>0. /\ UNCHANGED <<pc, frames, drained, reclaimed, code, exitCode>>
      /\ UNCHANGED <<arrived, affinityFailed>>
      /\ main' = main \/ (main \in {"failed", "wait"} /\ main' \in {"wait", "joined"})
  BY Zenon DEF StartFails, ControlStop, Join, StopOne, HandleWakePoll, startVars, barrierVars, endVars
<1>1. /\ todo' \in [Caller -> SUBSET Worker]
      /\ \A w \in Worker : todo'[w] # {} => todo[w] # {}
  <2>0. "main" \in Caller /\ "ctl" \in Caller /\ "main" \notin Worker /\ "ctl" \notin Worker
        /\ Worker \subseteq Caller
    BY Zenon, OtherCallers DEF Caller
  <2>1. CASE StartFails BY Zenon, <2>0, <2>1, Stopping DEF StartFails
  <2>2. CASE ControlStop BY Zenon, <2>0, <2>2, Stopping DEF ControlStop
  <2>3. CASE Join BY Zenon, <2>3 DEF Join, stopVars, ServerType
  <2>4. CASE \E p \in Caller : StopOne(p) BY <2>0, <2>4 DEF StopOne, ServerType
  <2>5. CASE \E w \in Worker : HandleWakePoll(w) BY Zenon, <2>5 DEF HandleWakePoll, ServerType
  <2>. QED BY ZenonT(40), <2>1, <2>2, <2>3, <2>4, <2>5
<1>2. (\A at : In(at)' = In(at)) /\ FramesOK' /\ StartIsAllOrNothing'
  BY Zenon, <1>0, NobodyMoves
<1>3. main \in {"launch", "count"} <=> main' \in {"launch", "count"} BY Zenon, <1>0
<1>4. ServerType' BY Zenon, <1>0, <1>1 DEF ServerType
<1>5. CountsOK' BY Zenon, <1>0, <1>2, <1>3 DEF CountsOK
<1>6. LatchOK' BY Zenon, <1>0, <1>2, <1>3 DEF LatchOK
<1>7. CodesOK'
  <2>1. ASSUME main' = "joined" PROVE In({"none", "done"}) = Worker
    <3>1. CASE main = "joined" BY Zenon, <3>1 DEF CodesOK
    <3>2. CASE Join BY Zenon, <3>2 DEF Join, Joined, Launched, In, ServerType
    <3>. QED
      BY Zenon, <2>1, <3>1, <3>2 DEF StartFails, ControlStop, StopOne, HandleWakePoll, startVars
  <2>. QED BY Zenon, <1>0, <1>1, <1>2, <2>1 DEF CodesOK
<1>. QED BY ZenonT(40), <1>2, <1>4, <1>5, <1>6, <1>7

LEMMA ArriveStep ==
    ASSUME ServerInv, NEW w \in Worker, Arrive(w)
    PROVE ServerInv'
<1>. USE DEF ServerInv, Arrive, At
<1>1. /\ pc[w] = "start" /\ todo[w] = {} /\ Goto(w, "latch") /\ arrived' = arrived + 1
      /\ UNCHANGED <<main, todo, frames, drained, reclaimed, code, exitCode>>
      /\ affinityFailed' \in BOOLEAN /\ (affinityFailed => affinityFailed')
  BY Zenon DEF stopVars, barrierVars, endVars, ServerType
<1>2. pc \in [Worker -> {"none"} \cup LaunchedAt] BY Zenon DEF ServerType
<1>3. /\ In(LaunchedAt)' = In(LaunchedAt) /\ In(DrainedAt)' = In(DrainedAt)
      /\ In(ReclaimedAt)' = In(ReclaimedAt) /\ In(PastLatch)' = In(PastLatch)
  BY Zenon, <1>1, <1>2, InStays DEF PastLatch, LaunchedAt, ArrivedAt, DrainedAt, ReclaimedAt, EndedAt
<1>4. Cardinality(In(ArrivedAt)') = Cardinality(In(ArrivedAt)) + 1
  <2>1. "start" \notin ArrivedAt /\ "latch" \in ArrivedAt
    BY Zenon DEF ArrivedAt, DrainedAt, ReclaimedAt, EndedAt
  <2>. QED BY SMTT(30), <1>1, <1>2, <2>1, InGrows
<1>5. In(PastLatch) = {} BY Zenon, <1>1 DEF LatchOK, PastLatch, In
<1>6. ServerType' BY <1>1, <1>2 DEF ServerType, Goto, LaunchedAt, ArrivedAt
<1>7. CountsOK'
  <2>1. Cardinality(In(ArrivedAt)) \in Nat /\ Cardinality(In(LaunchedAt)) \in Nat /\ N \in Nat
    BY Zenon, InFinite
  <2>2. arrived' = Cardinality(In(ArrivedAt)') + (IF main' \in {"launch", "count"} THEN 0
                    ELSE N - Cardinality(In(LaunchedAt)') + 1)
    BY SMTT(30), <1>1, <1>3, <1>4, <2>1 DEF CountsOK
  <2>. QED BY Zenon, <1>1, <1>3, <2>2 DEF CountsOK
<1>8. LatchOK' BY Zenon, <1>1, <1>3, <1>5 DEF LatchOK, PastLatch
<1>9. FramesOK'
  <2>1. Kept(DrainedAt) /\ Kept(ReclaimedAt) BY Zenon, <1>3 DEF Kept
  <2>2. frames[w] # "live" BY Zenon, <1>1 DEF FramesOK
  <2>. QED BY Zenon, <1>1, <2>1, <2>2, FramesStay
<1>10. StartIsAllOrNothing'
  <2>1. \A v \in Worker : pc[v] \in {"none", "start", "latch"}
    BY Zenon, <1>5 DEF In, PastLatch, ServerType
  <2>. QED BY ZenonT(40), <1>1, <2>1 DEF StartIsAllOrNothing, Goto, ServerType
<1>11. CodesOK'
  <2>1. pc[w] \notin {"none", "done"} /\ pc[w] \notin {"drained"} \cup DrainedAt
        /\ "latch" \notin EndedAt
    BY Zenon, <1>1 DEF DrainedAt, ReclaimedAt, EndedAt
  <2>. QED BY Zenon, <1>1, <2>1, CodesStay
<1>. QED BY ZenonT(40), <1>6, <1>7, <1>8, <1>9, <1>10, <1>11

(* Who passes the latch knows that all have arrived.                       *)
LEMMA LatchCounts ==
    ASSUME ServerInv, LatchOpen(arrived)
    PROVE main \notin {"launch", "count"} /\ In({"start"}) = {}
<1>1. /\ Cardinality(In(ArrivedAt)) \in Nat /\ Cardinality(In(LaunchedAt)) \in Nat
      /\ N \in Nat /\ Cardinality(In(ArrivedAt)) <= N
  BY Zenon, InFinite
<1>2. /\ main \notin {"launch", "count"}
      /\ Cardinality(In(ArrivedAt)) = Cardinality(In(LaunchedAt))
  BY <1>1 DEF ServerInv, CountsOK, LatchOpen
<1>3. In(ArrivedAt) = In(LaunchedAt)
  <2>1. ArrivedAt \subseteq LaunchedAt BY Zenon DEF LaunchedAt
  <2>. QED BY Zenon, <1>2, <2>1, InLarger
<1>4. "start" \notin ArrivedAt /\ "start" \in LaunchedAt
  BY Zenon DEF LaunchedAt, ArrivedAt, DrainedAt, ReclaimedAt, EndedAt
<1>. QED BY Zenon, <1>2, <1>3, <1>4 DEF In

LEMMA PassLatchStep ==
    ASSUME ServerInv, NEW w \in Worker, PassLatch(w)
    PROVE ServerInv'
<1>. USE DEF ServerInv, PassLatch, At
<1>0. PICK l \in {"exit", "init"} :
        /\ Goto(w, l) /\ (l = "exit" <=> affinityFailed)
        /\ code' = [code EXCEPT ![w] = IF l = "exit" THEN 1 ELSE 0]
  <2>1. affinityFailed \in BOOLEAN BY Zenon DEF ServerType
  <2>. QED BY Zenon, <2>1
<1>1. /\ pc[w] = "latch" /\ todo[w] = {} /\ UNCHANGED startVars
      /\ UNCHANGED <<todo, frames, drained, reclaimed, exitCode>>
  BY Zenon DEF stopVars, barrierVars
<1>2. pc \in [Worker -> {"none"} \cup LaunchedAt] BY Zenon DEF ServerType
<1>3. main \notin {"launch", "count"} /\ In({"start"}) = {} BY Zenon, LatchCounts
<1>4. /\ In(LaunchedAt)' = In(LaunchedAt) /\ In(ArrivedAt)' = In(ArrivedAt)
      /\ In({"start"})' = In({"start"})
  <2>1. /\ pc[w] \in LaunchedAt /\ l \in LaunchedAt /\ pc[w] \in ArrivedAt /\ l \in ArrivedAt
        /\ (pc[w] \in {"start"} <=> l \in {"start"})
    BY Zenon, <1>0, <1>1 DEF LaunchedAt, ArrivedAt, DrainedAt, ReclaimedAt, EndedAt
  <2>. QED BY Zenon, <1>0, <1>2, <2>1, InStays
<1>5. ~affinityFailed => /\ In(DrainedAt)' = In(DrainedAt)
                         /\ In(ReclaimedAt)' = In(ReclaimedAt)
  <2>. SUFFICES ASSUME ~affinityFailed
                PROVE In(DrainedAt)' = In(DrainedAt) /\ In(ReclaimedAt)' = In(ReclaimedAt)
    BY Zenon
  <2>1. /\ pc[w] \notin DrainedAt /\ l \notin DrainedAt
        /\ pc[w] \notin ReclaimedAt /\ l \notin ReclaimedAt
    BY Zenon, <1>0, <1>1 DEF DrainedAt, ReclaimedAt, EndedAt
  <2>. QED BY ZenonT(40), <1>0, <1>2, <2>1, InStays
<1>6. ServerType'
  BY ZenonT(40), <1>0, <1>1, <1>2 DEF ServerType, Goto, startVars, LaunchedAt, ArrivedAt, DrainedAt, ReclaimedAt, EndedAt
<1>7. CountsOK' BY SMTT(30), <1>1, <1>4, <1>5 DEF CountsOK, startVars
<1>8. LatchOK' BY Zenon, <1>1, <1>3, <1>4 DEF LatchOK, startVars
<1>9. FramesOK'
  <2>1. w \notin In(DrainedAt) /\ w \notin In(ReclaimedAt)
    BY Zenon, <1>1 DEF In, DrainedAt, ReclaimedAt, EndedAt
  <2>2. Kept(DrainedAt) /\ Kept(ReclaimedAt) BY Zenon, <2>1 DEF Kept
  <2>3. frames[w] # "live" BY Zenon, <1>1 DEF FramesOK
  <2>. QED BY ZenonT(40), <1>0, <1>1, <2>2, <2>3, FramesStay
<1>10. StartIsAllOrNothing'
  BY ZenonT(40), <1>0, <1>1, <1>2 DEF StartIsAllOrNothing, Goto, startVars
<1>11. CodesOK'
  <2>1. code[w] = 0 /\ main # "joined"
    BY Zenon, <1>1 DEF CodesOK, DrainedAt, ReclaimedAt, EndedAt, In
  <2>2. pc'[w] = l /\ \A v \in Worker : v # w => pc'[v] = pc[v]
    BY Zenon, <1>0, <1>2 DEF Goto
  <2>3. /\ code'[w] # 0 => l = "exit"
        /\ \A v \in Worker : v # w => code'[v] = code[v]
    BY Zenon, <1>0 DEF ServerType
  <2>4. \A v \in Worker :
          /\ code'[v] # 0 => pc'[v] \in {"drained"} \cup DrainedAt
          /\ code'[v] # 0 /\ pc'[v] \in EndedAt \ {"exit"} => exitCode' # 0
          /\ todo'[v] # {} => pc'[v] \in {"drained", "exit", "leave"}
    BY Zenon, <1>1, <2>2, <2>3 DEF CodesOK, DrainedAt, ReclaimedAt, EndedAt
  <2>5. exitCode' # 0 => \E v \in Worker : code'[v] # 0
    BY Zenon, <1>1, <2>1, <2>3 DEF CodesOK
  <2>. QED BY ZenonT(40), <1>1, <2>1, <2>4, <2>5 DEF CodesOK, startVars
<1>. QED BY ZenonT(40), <1>6, <1>7, <1>8, <1>9, <1>10, <1>11

LEMMA ServerSame == ServerInv /\ UNCHANGED vars => ServerInv'
<1>. SUFFICES ASSUME ServerInv, UNCHANGED vars PROVE ServerInv' BY Zenon
<1>1. /\ UNCHANGED <<pc, main, arrived, affinityFailed, todo, frames, drained, reclaimed>>
      /\ UNCHANGED <<code, exitCode>>
  BY Zenon DEF vars
<1>2. (\A at : In(at)' = In(at)) /\ FramesOK' /\ StartIsAllOrNothing'
  BY Zenon, <1>1, NobodyMoves
<1>3. ServerType' /\ CountsOK' /\ LatchOK' /\ CodesOK'
  BY Zenon, <1>1, <1>2 DEF ServerInv, ServerType, CountsOK, LatchOK, CodesOK
<1>. QED BY Zenon, <1>2, <1>3 DEF ServerInv

LEMMA ServerNext == ServerInv /\ [Next]_vars => ServerInv'
<1>. SUFFICES ASSUME ServerInv, [Next]_vars PROVE ServerInv' BY Zenon
<1>1. CASE Launch BY Zenon, <1>1, LaunchStep
<1>2. CASE LaunchFails \/ LaunchDone BY Zenon, <1>2, LaunchEnds
<1>3. CASE \/ StartFails \/ ControlStop \/ Join \/ (\E p \in Caller : StopOne(p))
           \/ (\E w \in Worker : HandleWakePoll(w))
  BY Zenon, <1>3, StopSteps
<1>4. ASSUME NEW w \in Worker, WorkerStep(w) \/ InitFails(w) \/ LoopFails(w),
             ~HandleWakePoll(w)
      PROVE ServerInv'
  BY ZenonT(40), <1>4, ArriveStep, PassLatchStep, InitWorkerStep, LoopSteps, BarrierSteps, FailSteps
     DEF WorkerStep
<1>5. CASE UNCHANGED vars BY Zenon, <1>5, ServerSame
<1>. QED BY ZenonT(40), <1>1, <1>2, <1>3, <1>4, <1>5 DEF Next, MainStep

(* What the properties say.                                                *)
LEMMA ServerSafe == ServerInv => TeardownInOrder /\ StartIsAllOrNothing /\ ExitCodeTells
<1>. SUFFICES ASSUME ServerInv PROVE TeardownInOrder /\ StartIsAllOrNothing /\ ExitCodeTells
  BY Zenon
<1>. USE DEF ServerInv
<1>1. TeardownInOrder
  <2>1. ASSUME NEW w \in Worker, frames[w] = "destroyed", NEW v \in Worker
        PROVE pc[v] \notin {"start", "latch", "init", "run", "loop", "drained"}
    BY Zenon, <2>1 DEF FramesOK, In, DrainedAt, ReclaimedAt, EndedAt
  <2>2. ASSUME NEW w \in Worker, pc[w] = "finalize", NEW v \in Worker
        PROVE frames[v] # "live"
    BY Zenon, <2>2 DEF FramesOK, In, ReclaimedAt, EndedAt
  <2>. QED BY Zenon, <2>1, <2>2 DEF TeardownInOrder
<1>2. ExitCodeTells
  <2>. SUFFICES ASSUME main = "joined"
                PROVE /\ exitCode # 0 <=> \E w \in Worker : code[w] # 0
                      /\ \A w \in Worker : pc[w] \in {"none", "done"} /\ todo[w] = {}
    BY Zenon DEF ExitCodeTells
  <2>1. \A w \in Worker : pc[w] \in {"none", "done"} BY Zenon DEF CodesOK, In
  <2>. QED BY Zenon, <2>1 DEF CodesOK, DrainedAt, ReclaimedAt, EndedAt
<1>. QED BY Zenon, <1>1, <1>2

-----------------------------------------------------------------------------
(* ForeignExecutor: who has counted, when a producer moves.                *)
CountedAt == {"counted", "undo"}
ProducerAt == {"idle", "checked", "counted", "undo", "notify"}

LEMMA CountedFinite == IsFiniteSet(Foreign!Counted) /\ Cardinality(Foreign!Counted) \in Nat
<1>1. Foreign!Counted \subseteq Producer BY Zenon DEF Foreign!Counted
<1>. QED BY Zenon, <1>1, PostsAssumption, FS_Subset, FS_CardinalityType

LEMMA CountedMoves ==
    ASSUME prod \in [Producer -> ProducerAt], NEW p \in Producer, NEW l, Foreign!Goto(p, l)
    PROVE /\ (prod[p] \in CountedAt <=> l \in CountedAt) => Foreign!Counted' = Foreign!Counted
          /\ prod[p] \notin CountedAt /\ l \in CountedAt =>
                Cardinality(Foreign!Counted') = Cardinality(Foreign!Counted) + 1
          /\ prod[p] \in CountedAt /\ l \notin CountedAt =>
                Cardinality(Foreign!Counted') = Cardinality(Foreign!Counted) - 1
<1>. USE DEF Foreign!Counted, CountedAt, Foreign!Goto
<1>1. (prod[p] \in CountedAt <=> l \in CountedAt) => Foreign!Counted' = Foreign!Counted
  BY Zenon
<1>2. ASSUME prod[p] \notin CountedAt, l \in CountedAt
      PROVE Cardinality(Foreign!Counted') = Cardinality(Foreign!Counted) + 1
  <2>1. Foreign!Counted' = Foreign!Counted \cup {p} /\ p \notin Foreign!Counted BY Zenon, <1>2
  <2>. HIDE DEF Foreign!Counted
  <2>. QED BY Zenon, <2>1, CountedFinite, FS_AddElement
<1>3. ASSUME prod[p] \in CountedAt, l \notin CountedAt
      PROVE Cardinality(Foreign!Counted') = Cardinality(Foreign!Counted) - 1
  <2>1. Foreign!Counted' = Foreign!Counted \ {p} /\ p \in Foreign!Counted BY Zenon, <1>3
  <2>. HIDE DEF Foreign!Counted
  <2>2. \A S, x : IsFiniteSet(S) /\ x \in S => Cardinality(S \ {x}) = Cardinality(S) - 1
    BY FS_RemoveElement, Zenon
  <2>3. Cardinality(Foreign!Counted \ {p}) = Cardinality(Foreign!Counted) - 1
    BY Zenon, <2>1, <2>2, CountedFinite
  <2>. QED BY Zenon, <2>1, <2>3
<1>. QED BY Zenon, <1>1, <1>2, <1>3

LEMMA ForeignInit == Foreign!Init => ForeignInv
<1>. SUFFICES ASSUME Foreign!Init PROVE ForeignInv BY Zenon
<1>1. Foreign!Counted = {} BY Zenon DEF Foreign!Init, Foreign!Counted
<1>2. ForeignType
  BY SMTT(30), PostsAssumption, FS_EmptySet DEF Foreign!Init, Foreign!Idle, ForeignType
<1>3. PostsOK
  BY <1>1, FS_EmptySet DEF Foreign!Init, Foreign!Idle, PostsOK
<1>. QED BY Zenon, <1>2, <1>3 DEF ForeignInv

(* The producers.                                                          *)
LEMMA ProducerSteps ==
    ASSUME ForeignInv, NEW p \in Producer, Foreign!ProducerStep(p)
    PROVE ForeignInv'
<1>. USE DEF ForeignInv
<1>0. prod \in [Producer -> ProducerAt] /\ Cardinality(Foreign!Counted) \in Nat
      /\ Cardinality(box) \in Nat
  BY Zenon, CountedFinite, FS_CardinalityType DEF ForeignType, ProducerAt
<1>1. CASE Foreign!Check(p)
  <2>. USE <1>1 DEF Foreign!Check, Foreign!At
  <2>1. Foreign!Counted' = Foreign!Counted BY SMTT(30), <1>0, CountedMoves DEF CountedAt
  <2>2. adapter = "posting" BY DEF PostsOK, ForeignType
  <2>3. ForeignType' BY Zenon DEF ForeignType, Foreign!Goto
  <2>4. PostsOK' BY Zenon, <2>1, <2>2 DEF PostsOK, ForeignType, Foreign!Goto
  <2>. QED BY Zenon, <2>3, <2>4
<1>2. CASE Foreign!Count(p)
  <2>. USE <1>2 DEF Foreign!Count, Foreign!At
  <2>1. Cardinality(Foreign!Counted') = Cardinality(Foreign!Counted) + 1
    BY Zenon, <1>0, CountedMoves DEF CountedAt
  <2>2. adapter = "posting" /\ pending' = pending + 1
        /\ UNCHANGED <<posts, box, worker, adapter>>
    BY Zenon DEF PostsOK
  <2>3. ForeignType' BY DEF ForeignType, Foreign!Goto
  <2>4. \A q \in Producer : prod'[q] \in {"checked", "counted"} => posts'[q] > 0
    BY Zenon DEF PostsOK, ForeignType, Foreign!Goto
  <2>5. pending' = Cardinality(Foreign!Counted') + Cardinality(box')
                 + (IF worker'.at \in {"run", "done"} THEN 1 ELSE 0)
    BY SMTT(30), <1>0, <2>1, <2>2 DEF PostsOK
  <2>. QED BY ZenonT(40), <2>2, <2>3, <2>4, <2>5 DEF PostsOK
<1>3. CASE Foreign!PostForeignNotification(p)
  <2>. USE <1>3 DEF Foreign!PostForeignNotification, Foreign!At
  <2>1. /\ adapter = "posting" /\ prod[p] = "counted" /\ posts[p] \in Nat /\ posts[p] > 0
        /\ posts' = [posts EXCEPT ![p] = @ - 1] /\ posts'[p] = posts[p] - 1
        /\ \A q \in Producer : posts'[q] <= posts[q] /\ posts[q] \in Nat /\ posts'[q] \in Nat
        /\ UNCHANGED <<pending, accepting, worker, adapter>>
    BY DEF PostsOK, ForeignType
  <2>2. PICK l \in {"idle", "undo"} :
          /\ Foreign!Goto(p, l)
          /\ l = "idle" => box' = box \cup {<<p, posts[p]>>}
          /\ l = "undo" => box' = box
    BY Zenon
  <2>3. \A q \in Producer : /\ prod'[q] \in ProducerAt
                            /\ prod'[q] \in {"checked", "counted"} => q # p /\ prod'[q] = prod[q]
    BY Zenon, <1>0, <2>2 DEF Foreign!Goto, ProducerAt
  <2>4. Cardinality(box') + Cardinality(Foreign!Counted')
           = Cardinality(box) + Cardinality(Foreign!Counted)
        /\ IsFiniteSet(box') /\ Cardinality(box') \in Nat /\ Cardinality(Foreign!Counted') \in Nat
    <3>0. IsFiniteSet(box) BY Zenon DEF ForeignType
    <3>1. CASE l = "idle"
      <4>1. Cardinality(Foreign!Counted') = Cardinality(Foreign!Counted) - 1
        <5>1. prod[p] \in CountedAt /\ l \notin CountedAt BY ZenonT(40), <2>1, <3>1 DEF CountedAt
        <5>. QED BY Zenon, <1>0, <2>2, <5>1, CountedMoves
      <4>2. <<p, posts[p]>> \notin box BY <2>1 DEF PostsOK
      <4>3. Cardinality(box') = Cardinality(box) + 1 /\ IsFiniteSet(box')
        BY Zenon, <2>2, <3>0, <3>1, <4>2, FS_AddElement
      <4>4. Cardinality(Foreign!Counted') \in Nat
        <5>1. Foreign!Counted' \subseteq Producer BY Zenon DEF Foreign!Counted
        <5>. QED BY Zenon, <5>1, PostsAssumption, FS_Subset, FS_CardinalityType
      <4>. QED BY SMTT(30), <1>0, <4>1, <4>3, <4>4
    <3>2. CASE l = "undo"
      <4>1. Foreign!Counted' = Foreign!Counted
        <5>1. prod[p] \in CountedAt /\ l \in CountedAt BY Zenon, <2>1, <3>2 DEF CountedAt
        <5>. QED BY Zenon, <1>0, <2>2, <5>1, CountedMoves
      <4>. QED BY ZenonT(40), <1>0, <2>2, <3>0, <3>2, <4>1
    <3>. QED BY Zenon, <2>2, <3>1, <3>2
  <2>5. ForeignType'
    <3>1. box' \subseteq Producer \X Nat BY <2>1, <2>2 DEF ForeignType
    <3>2. prod' \in [Producer -> ProducerAt] BY Zenon, <1>0, <2>2 DEF Foreign!Goto, ProducerAt
    <3>3. posts' \in [Producer -> Nat] BY Zenon, <2>1 DEF ForeignType
    <3>. QED BY ZenonT(40), <2>1, <2>4, <3>1, <3>2, <3>3 DEF ForeignType, ProducerAt
  <2>6. \A b \in box' : b[2] > posts'[b[1]]
    <3>1. ASSUME NEW b \in box PROVE b[2] > posts'[b[1]]
      <4>1. b[1] \in Producer /\ b[2] \in Nat /\ b[2] > posts[b[1]] BY Zenon DEF ForeignType, PostsOK
      <4>. QED BY <2>1, <4>1
    <3>. QED BY SMTT(30), <2>1, <2>2, <3>1
  <2>7. pending' = Cardinality(Foreign!Counted') + Cardinality(box')
                 + (IF worker'.at \in {"run", "done"} THEN 1 ELSE 0)
    BY <1>0, <2>1, <2>4 DEF PostsOK
  <2>8. \A q \in Producer : prod'[q] \in {"checked", "counted"} => posts'[q] > 0
    BY Zenon, <2>1, <2>3 DEF PostsOK, ForeignType
  <2>. QED BY ZenonT(40), <2>1, <2>5, <2>6, <2>7, <2>8 DEF PostsOK
<1>4. CASE Foreign!Undo(p)
  <2>. USE <1>4 DEF Foreign!Undo, Foreign!At
  <2>0. PICK l \in {"notify", "idle"} : Foreign!Goto(p, l) BY Zenon
  <2>1. Cardinality(Foreign!Counted') = Cardinality(Foreign!Counted) - 1
    <3>1. prod[p] \in CountedAt /\ l \notin CountedAt BY Zenon DEF CountedAt
    <3>. QED BY Zenon, <1>0, <2>0, <3>1, CountedMoves
  <2>2. adapter = "posting" /\ pending' = pending - 1
        /\ UNCHANGED <<posts, box, worker, adapter, accepting>>
    BY Zenon DEF PostsOK
  <2>3. ForeignType' BY <2>0, <2>2 DEF ForeignType, Foreign!Goto
  <2>4. \A q \in Producer : prod'[q] \in {"checked", "counted"} => posts'[q] > 0
    BY Zenon, <2>0, <2>2 DEF PostsOK, ForeignType, Foreign!Goto
  <2>5. pending' = Cardinality(Foreign!Counted') + Cardinality(box')
                 + (IF worker'.at \in {"run", "done"} THEN 1 ELSE 0)
    BY SMTT(30), <1>0, <2>1, <2>2 DEF PostsOK
  <2>. QED BY ZenonT(40), <2>2, <2>3, <2>4, <2>5 DEF PostsOK
<1>5. CASE Foreign!NotifyAfterUndo(p)
  <2>. USE <1>5 DEF Foreign!NotifyAfterUndo, Foreign!At, Foreign!notify_all
  <2>1. Foreign!Counted' = Foreign!Counted BY <1>0, CountedMoves DEF CountedAt
  <2>2. adapter = "posting" /\ adapter' = adapter BY Zenon DEF PostsOK
  <2>3. ForeignType' BY Zenon, <2>2 DEF ForeignType, Foreign!Goto
  <2>4. PostsOK' BY Zenon, <2>1, <2>2 DEF PostsOK, ForeignType, Foreign!Goto
  <2>. QED BY ZenonT(40), <2>3, <2>4
<1>. QED BY ZenonT(40), <1>1, <1>2, <1>3, <1>4, <1>5 DEF Foreign!ProducerStep

(* The worker and the adapter.                                             *)
LEMMA ExecutorSteps ==
    ASSUME ForeignInv, Foreign!WorkerStep
    PROVE ForeignInv'
<1>. USE DEF ForeignInv
<1>0. Cardinality(Foreign!Counted) \in Nat /\ Cardinality(box) \in Nat /\ IsFiniteSet(box)
  BY Zenon, CountedFinite, FS_CardinalityType DEF ForeignType
<1>1. ASSUME UNCHANGED prod PROVE Foreign!Counted' = Foreign!Counted
  BY Zenon, <1>1 DEF Foreign!Counted
<1>2. ASSUME NEW n \in box, Foreign!Take(n) PROVE ForeignInv'
  <2>. USE <1>2 DEF Foreign!Take
  <2>1. /\ worker = Foreign!Idle /\ worker.at = "none" /\ worker'.at = "run"
        /\ adapter \notin {"joined", "destroyed"}
        /\ UNCHANGED <<pending, accepting, prod, posts, adapter>> /\ box' = box \ {n}
    BY Zenon DEF Foreign!Idle
  <2>2. Cardinality(box') = Cardinality(box) - 1 /\ IsFiniteSet(box')
    <3>1. \A S, x : IsFiniteSet(S) /\ x \in S => Cardinality(S \ {x}) = Cardinality(S) - 1
                                                 /\ IsFiniteSet(S \ {x})
      BY FS_RemoveElement, Zenon
    <3>. QED BY Zenon, <1>0, <2>1, <3>1
  <2>3. ForeignType' BY Zenon, <2>1, <2>2 DEF ForeignType
  <2>4. pending' = Cardinality(Foreign!Counted') + Cardinality(box')
                 + (IF worker'.at \in {"run", "done"} THEN 1 ELSE 0)
    BY SMTT(30), <1>0, <1>1, <2>1, <2>2 DEF PostsOK
  <2>. QED BY Zenon, <2>1, <2>3, <2>4 DEF PostsOK
<1>3. CASE Foreign!Invoke
  <2>. USE <1>3 DEF Foreign!Invoke
  <2>1. worker.at = "run" /\ worker'.at = "done" /\ worker # Foreign!Idle
        /\ UNCHANGED <<pending, accepting, prod, posts, box, adapter>>
    BY DEF Foreign!Idle, ForeignType
  <2>2. ForeignType' BY Zenon, <2>1 DEF ForeignType
  <2>. QED BY ZenonT(40), <1>1, <2>1, <2>2 DEF PostsOK
<1>4. CASE Foreign!Complete
  <2>. USE <1>4 DEF Foreign!Complete
  <2>1. /\ worker.at = "done" /\ worker'.at \in {"notify", "none"}
        /\ worker'.at = "none" => worker' = Foreign!Idle
        /\ worker' \in [item : (Producer \X Nat) \cup {None},
                        at : {"none", "run", "done", "notify"}]
        /\ pending' = pending - 1 /\ UNCHANGED <<accepting, prod, posts, box, adapter>>
    BY Zenon DEF Foreign!Idle, ForeignType
  <2>2. adapter \notin {"idle", "stopped", "joined", "destroyed"}
    BY <1>0, <2>1 DEF PostsOK
  <2>3. ForeignType' BY <2>1 DEF ForeignType
  <2>4. pending' = Cardinality(Foreign!Counted') + Cardinality(box')
                 + (IF worker'.at \in {"run", "done"} THEN 1 ELSE 0)
    BY SMTT(30), <1>0, <1>1, <2>1 DEF PostsOK
  <2>. QED BY ZenonT(40), <2>1, <2>2, <2>3, <2>4 DEF PostsOK
<1>5. CASE Foreign!NotifyAll
  <2>. USE <1>5 DEF Foreign!NotifyAll, Foreign!notify_all
  <2>1. /\ worker.at = "notify" /\ worker' = Foreign!Idle /\ worker'.at = "none"
        /\ UNCHANGED <<pending, accepting, prod, posts, box>>
        /\ adapter' = adapter \/ (adapter = "blocked" /\ adapter' = "load")
    BY Zenon DEF Foreign!Idle
  <2>2. ForeignType' BY <2>1 DEF ForeignType, Foreign!Idle
  <2>. QED BY Zenon, <1>1, <2>1, <2>2 DEF PostsOK
<1>. QED BY ZenonT(40), <1>2, <1>3, <1>4, <1>5 DEF Foreign!WorkerStep

LEMMA AdapterSteps ==
    ASSUME ForeignInv, Foreign!AdapterStep \/ Foreign!StopProducers \/ UNCHANGED foreignVars
    PROVE ForeignInv'
<1>. USE DEF ForeignInv
<1>1. UNCHANGED <<pending, prod, box, worker>>
  BY Zenon DEF Foreign!AdapterStep, Foreign!StopProducers, Foreign!Load, Foreign!Wait,
         Foreign!RequestStop, Foreign!Join, Foreign!Destroy, foreignVars
<1>2. Foreign!Counted' = Foreign!Counted BY Zenon, <1>1 DEF Foreign!Counted
<1>4. CASE Foreign!StopProducers
  <2>. USE <1>4 DEF Foreign!StopProducers
  <2>1. posts' \in [Producer -> Nat] /\ (\A p \in Producer : posts'[p] = 0)
        /\ adapter' = "load" /\ \A p \in Producer : prod[p] = "idle"
    BY Zenon
  <2>2. ForeignType' BY Zenon, <1>1, <2>1 DEF ForeignType
  <2>3. \A b \in box' : b[2] > posts'[b[1]]
    <3>. SUFFICES ASSUME NEW b \in box PROVE b[2] > posts'[b[1]] BY Zenon, <1>1
    <3>1. b[1] \in Producer /\ b[2] \in Nat /\ b[2] > posts[b[1]] /\ posts[b[1]] \in Nat
      BY Zenon DEF ForeignType, PostsOK
    <3>. QED BY <2>1, <3>1
  <2>. QED BY ZenonT(40), <1>1, <1>2, <2>1, <2>2, <2>3 DEF PostsOK
<1>5. CASE Foreign!AdapterStep \/ UNCHANGED foreignVars
  <2>1. /\ UNCHANGED posts /\ (adapter # "posting" \/ adapter' = adapter)
        /\ adapter' \in {"posting", "load", "wait", "blocked", "idle", "stopped", "joined", "destroyed"}
        /\ adapter' = "posting" => adapter = "posting"
        /\ adapter' \in {"idle", "stopped", "joined", "destroyed"} => pending = 0
        /\ adapter' \in {"joined", "destroyed"} => worker = Foreign!Idle
    BY Zenon, <1>5 DEF Foreign!AdapterStep, Foreign!Load, Foreign!Wait, Foreign!RequestStop,
         Foreign!Join, Foreign!Destroy, foreignVars, ForeignType, PostsOK
  <2>2. ForeignType' BY Zenon, <1>1, <2>1 DEF ForeignType
  <2>. QED BY ZenonT(40), <1>1, <1>2, <2>1, <2>2 DEF PostsOK
<1>. QED BY Zenon, <1>4, <1>5

LEMMA ForeignNext == ForeignInv /\ [Foreign!Next]_foreignVars => ForeignInv'
BY Zenon, ProducerSteps, ExecutorSteps, AdapterSteps DEF Foreign!Next

(* The instance has its own name for the cardinality.                      *)
LEMMA SameCardinality ==
    ASSUME NEW S
    PROVE Foreign!Cardinality(S) = Cardinality(S)
BY Zenon DEF Foreign!Cardinality, Cardinality

LEMMA ForeignSafe == ForeignInv => Foreign!IdleIsIdle
<1>. SUFFICES ASSUME ForeignInv PROVE Foreign!IdleIsIdle BY Zenon
<1>1. Cardinality(Foreign!Counted) \in Nat /\ Cardinality(box) \in Nat
      /\ (Cardinality(box) = 0 => box = {})
  BY Zenon, CountedFinite, FS_CardinalityType, FS_EmptySet DEF ForeignInv, ForeignType
<1>2. ASSUME pending = 0 PROVE box = {} /\ worker.at \notin {"run", "done"}
  BY <1>1, <1>2 DEF ForeignInv, PostsOK
<1>3. adapter \in {"idle", "stopped", "joined", "destroyed"} =>
         box = {} /\ worker.at \notin {"run", "done"}
  BY Zenon, <1>2 DEF ForeignInv, PostsOK
<1>4. adapter = "destroyed" => worker = Foreign!Idle /\ \A p \in Producer : prod[p] = "idle"
  BY Zenon DEF ForeignInv, PostsOK
<1>5. pending = Cardinality(Foreign!Counted) + Cardinality(box)
                 + (IF worker.at \in {"run", "done"} THEN 1 ELSE 0)
  BY Zenon DEF ForeignInv, PostsOK
<1>. QED BY ZenonT(40), <1>3, <1>4, <1>5, SameCardinality DEF Foreign!IdleIsIdle

-----------------------------------------------------------------------------
(* RemoteCalls: nothing happens to a coroutine d.                          *)
Untouched(d) ==
    /\ work'[d] = work[d] /\ task'[d] = task[d] /\ (d \in ready' <=> d \in ready)
    /\ \A w \in Member : /\ d \in requests'[w] <=> d \in requests[w]
                         /\ d \in scheduled'[w] <=> d \in scheduled[w]
                         /\ d \in replies'[w] <=> d \in replies[w]
                         /\ running'[w] = d <=> running[w] = d

Onwards == stop \subseteq stop' /\ (left' # Member => left # Member)

LEMMA CallStays ==
    ASSUME NEW d \in Coroutine, CallInv(d), Untouched(d), Onwards
    PROVE CallInv(d)'
<1>. USE DEF CallInv
<1>1. /\ Calls!Live(d)' <=> Calls!Live(d)
      /\ Calls!Deferred(d)' <=> Calls!Deferred(d)
  BY Zenon DEF Untouched, Calls!Live, Calls!Deferred
<1>2. \A w \in Member, p \in Place : Has(w, p, d)' <=> Has(w, p, d)
  BY <1>1 DEF Untouched, Has
<1>3. UnknownOK(d)' BY Zenon, <1>1, <1>2 DEF UnknownOK, Untouched, Onwards
<1>4. OnceOK(d)' BY Zenon, <1>1, <1>2 DEF OnceOK
<1>5. SomewhereOK(d)' BY Zenon, <1>1, <1>2 DEF SomewhereOK, Onwards
<1>6. DeferredOK(d)' BY Zenon, <1>1, <1>2 DEF DeferredOK, Untouched
<1>7. ResultOK(d)' BY Zenon, <1>1, <1>2 DEF ResultOK, Untouched, Place
<1>. QED BY Zenon, <1>3, <1>4, <1>5, <1>6, <1>7

(* An answer that is in one place only.                                    *)
OnlyAt(v, q, c) ==
    /\ Has(v, q, c)
    /\ \A w \in Member, p \in Place : Has(w, p, c) => w = v /\ p = q

LEMMA OneAnswer ==
    ASSUME NEW c \in Coroutine, NEW w \in Member, NEW p \in Place, CallInv(c), Has(w, p, c),
           left # Member
    PROVE Calls!Live(c) /\ OnlyAt(w, p, c)
BY Zenon DEF CallInv, UnknownOK, OnceOK, OnlyAt

(* One that is on the way, and RunRemoteWork no longer with it.            *)
LEMMA Answered ==
    ASSUME NEW c \in Coroutine, NEW v \in Member, NEW q \in Place,
           Calls!Live(c)', OnlyAt(v, q, c)',
           Calls!Deferred(c)' => q \notin {"request", "scheduled"},
           q = "task" => Calls!Deferred(c)',
           Calls!Deferred(c)' => \A w \in Member : running'[w] = c => w = v /\ q = "task",
           q \in {"running", "reply", "ready"} => work'[c].result,
           CallsType'
    PROVE CallInv(c)'
<1>. USE DEF OnlyAt
<1>1. UnknownOK(c)' BY Zenon DEF UnknownOK
<1>2. OnceOK(c)' BY Zenon DEF OnceOK
<1>3. SomewhereOK(c)' BY Zenon DEF SomewhereOK
<1>4. DeferredOK(c)'
  <2>1. \A w \in Member : (c \in requests[w] \/ c \in scheduled[w])' => ~Calls!Deferred(c)'
    BY Zenon DEF Has, Place
  <2>2. task'[c] # None => Calls!Deferred(c)'
    BY Zenon DEF Has, Place, CallsType
  <2>. QED BY Zenon, <2>1, <2>2 DEF DeferredOK
<1>5. ResultOK(c)'
  <2>1. \A w \in Member : Has(w, "running", c)' \/ Has(w, "reply", c)' => work'[c].result
    BY Zenon DEF Place
  <2>2. c \in ready' => work'[c].result
    <3>1. Home[c] \in Member BY Zenon, CallsAssumption
    <3>2. c \in ready' => Has(Home[c], "ready", c)' BY Zenon DEF Has
    <3>. QED BY Zenon, <3>1, <3>2 DEF Place
  <2>. QED BY Zenon, <2>1, <2>2 DEF ResultOK
<1>. QED BY ZenonT(40), <1>1, <1>2, <1>3, <1>4, <1>5 DEF CallInv

LEMMA CallsInit == Calls!Init => CallsInv
<1>. SUFFICES ASSUME Calls!Init PROVE CallsInv BY Zenon
<1>. USE DEF Calls!Init, Calls!Nothing
<1>1. CallsType BY Zenon DEF CallsType
<1>2. LeftOK BY Zenon DEF LeftOK
<1>3. ASSUME NEW c \in Coroutine PROVE CallInv(c)
  <2>1. ~Calls!Live(c) BY Zenon DEF Calls!Live
  <2>2. UnknownOK(c)
    <3>1. c # None BY Zenon, CallsAssumption
    <3>2. \A w \in Member : c \notin requests[w] /\ c \notin scheduled[w] /\ c \notin replies[w]
                            /\ running[w] # c /\ task[c] # w /\ c \notin ready
      BY Zenon, <3>1, CallsAssumption
    <3>. QED BY Zenon, <3>2 DEF UnknownOK, Has
  <2>. QED BY Zenon, <2>1, <2>2 DEF CallInv, OnceOK, SomewhereOK, DeferredOK, ResultOK
<1>. QED BY ZenonT(40), <1>1, <1>2, <1>3 DEF CallsInv

LEMMA OneMoves ==
    ASSUME CallsInv, CallsType', LeftOK', Onwards, NEW c \in Coroutine, CallInv(c)',
           \A d \in Coroutine : d # c => Untouched(d)
    PROVE CallsInv'
BY Zenon, CallStays DEF CallsInv

(* What Start and run_fn_ store in the caller's frame.                     *)
Marked(r) == [r EXCEPT !.reply_deferred = TRUE]
Resulted(r) == [r EXCEPT !.result = TRUE]

LEMMA RecordStores ==
    ASSUME NEW r \in Work
    PROVE /\ Marked(r) \in Work /\ Marked(r).reply_deferred
          /\ Resulted(r) \in Work /\ Resulted(r).result
          /\ Resulted(r).reply_deferred = r.reply_deferred
<1>1. Marked(r) \in Work BY Zenon DEF Work, Marked
<1>2. Marked(r).reply_deferred = TRUE BY Zenon DEF Work, Marked
<1>3. Resulted(r) \in Work BY Zenon DEF Work, Resulted
<1>4. Resulted(r).result = TRUE BY Zenon DEF Work, Resulted
<1>5. Resulted(r).reply_deferred = r.reply_deferred BY Zenon DEF Work, Resulted
<1>. QED BY ZenonT(40), <1>1, <1>2, <1>3, <1>4, <1>5

LEMMA StartStores ==
    ASSUME NEW wk \in [Coroutine -> Work \cup {None}], NEW c \in Coroutine, NEW w \in Member,
           wk[c] \in Work, Calls!Start(wk, c, w)
    PROVE /\ work' \in [Coroutine -> Work \cup {None}]
          /\ work'[c] \in Work /\ work'[c].reply_deferred
          /\ \A d \in Coroutine : d # c => work'[d] = wk[d]
<1>1. work' = [wk EXCEPT ![c] = Marked(wk[c])] BY Zenon DEF Calls!Start, Marked
<1>2. Marked(wk[c]) \in Work /\ Marked(wk[c]).reply_deferred BY Zenon, RecordStores
<1>. QED BY Zenon, <1>1, <1>2

LEMMA ResultStored ==
    ASSUME CallsType, NEW c \in Coroutine, work[c] \in Work, work' = Calls!Stored(c)
    PROVE /\ work' \in [Coroutine -> Work \cup {None}]
          /\ work'[c] \in Work /\ work'[c].result
          /\ work'[c].reply_deferred = work[c].reply_deferred
          /\ \A d \in Coroutine : d # c => work'[d] = work[d]
<1>0. Calls!Live(c) BY Zenon, CallsAssumption DEF Calls!Live, Work
<1>1. work' = [work EXCEPT ![c] = Resulted(work[c])] BY Zenon, <1>0 DEF Calls!Stored, Resulted
<1>2. /\ Resulted(work[c]) \in Work /\ Resulted(work[c]).result
      /\ Resulted(work[c]).reply_deferred = work[c].reply_deferred
  BY Zenon, RecordStores
<1>. QED BY ZenonT(40), <1>1, <1>2 DEF CallsType

(* await_suspend: nobody knows the coroutine before.                       *)
LEMMA SubmitStep ==
    ASSUME CallsInv, NEW c \in Coroutine, NEW kind \in {"fn", "task"}, NEW w \in Member,
           Calls!Submit(c, kind, w)
    PROVE CallsInv'
<1>. USE DEF CallsInv
<1>0. /\ UNCHANGED <<scheduled, running, ready, stop, left, replies>>
      /\ ~Calls!Live(c) /\ left # Member /\ c # None
  BY Zenon, CallsAssumption DEF Calls!Submit, Calls!Free, Calls!InLoop, Calls!Start
<1>1. \A v \in Member : c \notin requests[v] /\ c \notin scheduled[v] /\ c \notin replies[v]
                        /\ running[v] # c /\ task[c] # v /\ c \notin ready
  <2>1. \A v \in Member : running[v] # c /\ \A p \in Place : ~Has(v, p, c)
    BY Zenon, <1>0 DEF CallInv, UnknownOK
  <2>2. Home[c] \in Member BY Zenon, CallsAssumption
  <2>3. c \notin ready BY Zenon, <2>1, <2>2 DEF Has, Place
  <2>. QED BY Zenon, <2>1, <2>3 DEF Has, Place
<1>2. CASE w # Home[c]
  <2>1. /\ work' = [work EXCEPT ![c] = Calls!Awaited(kind)]
        /\ requests' = [requests EXCEPT ![w] = @ \cup {c}] /\ UNCHANGED task
    BY Zenon, <1>2 DEF Calls!Submit, Calls!Add
  <2>2. CallsType' BY Zenon, <1>0, <2>1 DEF CallsType, Calls!Awaited, Work
  <2>3. \A d \in Coroutine : d # c => Untouched(d)
    BY Zenon, <1>0, <2>1 DEF Untouched, CallsType
  <2>4. /\ work'[c] = Calls!Awaited(kind) /\ Calls!Awaited(kind) \in Work
        /\ Calls!Awaited(kind).reply_deferred = FALSE
    BY Zenon, <2>1 DEF CallsType, Calls!Awaited, Work
  <2>5. Calls!Live(c)' /\ ~Calls!Deferred(c)'
    BY Zenon, <2>4, CallsAssumption DEF Calls!Live, Calls!Deferred, Work
  <2>6. OnlyAt(w, "request", c)'
    BY ZenonT(40), <1>0, <1>1, <2>1 DEF OnlyAt, Has, CallsType
  <2>7. CallInv(c)' BY ZenonT(40), <2>2, <2>5, <2>6, Answered DEF Place
  <2>. QED BY ZenonT(40), <1>0, <2>2, <2>3, <2>7, OneMoves DEF LeftOK, Onwards
<1>3. CASE w = Home[c]
  <2>0. PICK wk : wk = [work EXCEPT ![c] = Calls!Awaited(kind)] /\ Calls!Start(wk, c, w)
                  /\ kind = "task" /\ UNCHANGED requests
    BY Zenon, <1>3 DEF Calls!Submit
  <2>1. /\ wk \in [Coroutine -> Work \cup {None}]
        /\ wk[c] = Calls!Awaited(kind) /\ wk[c] \in Work
        /\ \A d \in Coroutine : d # c => wk[d] = work[d]
    BY Zenon, <2>0 DEF CallsType, Calls!Awaited, Work
  <2>2. /\ work' \in [Coroutine -> Work \cup {None}]
        /\ work'[c] \in Work /\ work'[c].reply_deferred
        /\ \A d \in Coroutine : d # c => work'[d] = work[d]
    <3>1. Calls!Start(wk, c, w) BY Zenon, <2>0
    <3>. QED BY ZenonT(40), <2>1, <3>1, StartStores
  <2>3. task' = IF w \in stop THEN task ELSE [task EXCEPT ![c] = w]
    BY Zenon, <2>0 DEF Calls!Start
  <2>4. CallsType'
    <3>1. task' \in [Coroutine -> Member \cup {None}] BY Zenon, <2>3 DEF CallsType
    <3>2. UNCHANGED requests BY Zenon, <2>0
    <3>. QED BY ZenonT(40), <1>0, <2>2, <3>1, <3>2 DEF CallsType
  <2>5. \A d \in Coroutine : d # c => Untouched(d)
    BY ZenonT(40), <1>0, <2>0, <2>2, <2>3 DEF Untouched, CallsType
  <2>6. Calls!Live(c)' /\ Calls!Deferred(c)'
    BY Zenon, <2>2, CallsAssumption DEF Calls!Live, Calls!Deferred, Work
  <2>7. CallInv(c)'
    <3>1. CASE w \notin stop
      <4>1. OnlyAt(w, "task", c)'
        BY ZenonT(40), <1>0, <1>1, <2>0, <2>3, <3>1 DEF OnlyAt, Has, CallsType
      <4>. QED BY ZenonT(40), <1>0, <1>1, <2>4, <2>6, <4>1, Answered DEF Place
    <3>2. CASE w \in stop
      <4>1. \A v \in Member, p \in Place : ~Has(v, p, c)'
        BY ZenonT(40), <1>0, <1>1, <2>0, <2>3, <3>2 DEF Has, CallsType
      <4>2. stop' # {} BY Zenon, <1>0, <3>2
      <4>3. UnknownOK(c)' /\ OnceOK(c)' /\ SomewhereOK(c)'
        BY ZenonT(40), <2>6, <4>1, <4>2 DEF UnknownOK, OnceOK, SomewhereOK
      <4>4. DeferredOK(c)' BY ZenonT(40), <1>0, <1>1, <2>0, <2>6, <4>1 DEF DeferredOK
      <4>5. ResultOK(c)' BY ZenonT(40), <1>0, <1>1, <4>1 DEF ResultOK, Place
      <4>. QED BY Zenon, <4>3, <4>4, <4>5 DEF CallInv
    <3>. QED BY Zenon, <3>1, <3>2
  <2>. QED BY Zenon, <1>0, <2>4, <2>5, <2>7, OneMoves DEF LeftOK, Onwards
<1>. QED BY Zenon, <1>2, <1>3

(* The answer moves on: what holds of a coroutine that a running worker    *)
(* finds somewhere.                                                        *)
LEMMA Found ==
    ASSUME CallsInv, NEW c \in Coroutine, NEW w \in Member, NEW p \in Place, Has(w, p, c),
           left # Member
    PROVE /\ Calls!Live(c) /\ OnlyAt(w, p, c) /\ work[c] \in Work
          /\ p \in {"request", "scheduled"} => ~Calls!Deferred(c)
          /\ p = "task" => Calls!Deferred(c)
          /\ p # "task" => ~(Calls!Deferred(c) /\ \E v \in Member : running[v] = c)
          /\ \A v \in Member : running[v] = c /\ Calls!Deferred(c) => v = w
          /\ p \in {"running", "reply", "ready"} => work[c].result
<1>. USE DEF CallsInv
<1>0. CallInv(c) BY Zenon
<1>1. Calls!Live(c) /\ OnlyAt(w, p, c) BY Zenon, <1>0, OneAnswer
<1>2. work[c] \in Work BY Zenon, <1>1 DEF CallsType, Calls!Live
<1>3. /\ p \in {"request", "scheduled"} => ~Calls!Deferred(c)
      /\ p = "task" => Calls!Deferred(c)
  BY ZenonT(40), <1>0, <1>1, CallsAssumption DEF CallInv, DeferredOK, Has
<1>4. \A v \in Member : running[v] = c /\ Calls!Deferred(c) => v = w /\ p = "task"
  BY Zenon, <1>0, <1>1 DEF CallInv, DeferredOK
<1>5. p \in {"running", "reply", "ready"} => work[c].result
  <2>1. p = "ready" => c \in ready BY Zenon DEF Has
  <2>. QED BY ZenonT(40), <1>0, <1>1, <2>1 DEF CallInv, ResultOK
<1>. QED BY ZenonT(40), <1>1, <1>2, <1>3, <1>4, <1>5

(* The request and the reply are drained.                                  *)
LEMMA DrainSteps ==
    ASSUME CallsInv, NEW w \in Member, NEW c \in Coroutine,
           Calls!ScheduleRequest(w, c) \/ Calls!ScheduleReply(w, c)
    PROVE CallsInv'
<1>. USE DEF CallsInv
<1>0. /\ UNCHANGED <<work, running, task, stop, left>> /\ left # Member
  BY Zenon DEF Calls!ScheduleRequest, Calls!ScheduleReply, Calls!Free, Calls!InLoop
<1>1. (Calls!Live(c)' <=> Calls!Live(c)) /\ (Calls!Deferred(c)' <=> Calls!Deferred(c))
  BY Zenon, <1>0 DEF Calls!Live, Calls!Deferred
<1>2. CASE Calls!ScheduleRequest(w, c)
  <2>1. /\ Has(w, "request", c) /\ UNCHANGED <<replies, ready>>
        /\ requests' = [requests EXCEPT ![w] = @ \ {c}]
        /\ scheduled' = [scheduled EXCEPT ![w] = @ \cup {c}]
    BY Zenon, <1>2 DEF Calls!ScheduleRequest, Calls!Remove, Calls!Add, Has
  <2>2. /\ Calls!Live(c) /\ OnlyAt(w, "request", c) /\ ~Calls!Deferred(c)
    BY ZenonT(40), <1>0, <2>1, Found DEF Place
  <2>3. CallsType' BY Zenon, <1>0, <2>1 DEF CallsType
  <2>4. OnlyAt(w, "scheduled", c)'
    BY ZenonT(40), <1>0, <1>1, <2>1, <2>2 DEF OnlyAt, Has, CallsType, Place
  <2>5. \A d \in Coroutine : d # c => Untouched(d)
    BY Zenon, <1>0, <2>1 DEF Untouched, CallsType
  <2>6. Calls!Live(c)' /\ ~Calls!Deferred(c)' BY Zenon, <1>1, <2>2
  <2>7. CallInv(c)' BY ZenonT(40), <2>3, <2>4, <2>6, Answered DEF Place
  <2>. QED BY ZenonT(40), <1>0, <2>3, <2>5, <2>7, OneMoves DEF LeftOK, Onwards
<1>3. CASE Calls!ScheduleReply(w, c)
  <2>1. /\ Has(w, "reply", c) /\ UNCHANGED <<requests, scheduled>>
        /\ replies' = [replies EXCEPT ![w] = @ \ {c}] /\ ready' = ready \cup {c}
    BY Zenon, <1>3 DEF Calls!ScheduleReply, Calls!Remove, Has
  <2>2. /\ Calls!Live(c) /\ OnlyAt(w, "reply", c) /\ work[c].result
        /\ ~(Calls!Deferred(c) /\ \E v \in Member : running[v] = c)
    BY ZenonT(40), <1>0, <2>1, Found DEF Place
  <2>3. CallsType' BY Zenon, <1>0, <2>1 DEF CallsType
  <2>4. Home[c] \in Member BY Zenon, CallsAssumption
  <2>5. OnlyAt(Home[c], "ready", c)'
    BY ZenonT(40), <1>0, <1>1, <2>1, <2>2, <2>4 DEF OnlyAt, Has, CallsType, Place
  <2>6. \A d \in Coroutine : d # c => Untouched(d)
    BY Zenon, <1>0, <2>1 DEF Untouched, CallsType
  <2>7. /\ Calls!Live(c)' /\ work'[c].result
        /\ Calls!Deferred(c)' => \A v \in Member : running'[v] # c
    BY ZenonT(40), <1>0, <1>1, <2>2
  <2>8. CallInv(c)' BY ZenonT(40), <2>3, <2>4, <2>5, <2>7, Answered DEF Place
  <2>. QED BY Zenon, <1>0, <2>3, <2>6, <2>8, OneMoves DEF LeftOK, Onwards
<1>. QED BY Zenon, <1>2, <1>3

(* RunRemoteWork runs the function, or starts the task...                  *)
LEMMA RunFnStep ==
    ASSUME CallsInv, NEW w \in Member, NEW c \in Coroutine, Calls!RunFn(w, c)
    PROVE CallsInv'
<1>. USE DEF CallsInv
<1>0. /\ UNCHANGED <<requests, ready, stop, left, replies>> /\ left # Member /\ w \notin left
      /\ Has(w, "scheduled", c)
      /\ scheduled' = [scheduled EXCEPT ![w] = @ \ {c}]
      /\ running' = [running EXCEPT ![w] = c] /\ running[w] = None
  BY Zenon DEF Calls!RunFn, Calls!Free, Calls!InLoop, Calls!Remove, Calls!Start, Has
<1>1. /\ Calls!Live(c) /\ OnlyAt(w, "scheduled", c) /\ ~Calls!Deferred(c) /\ work[c] \in Work
  BY Zenon, <1>0, Found DEF Place
<1>2. c # None /\ None \notin Work /\ None \notin Coroutine /\ None \notin Member
  BY Zenon, CallsAssumption DEF Work
<1>3. /\ \A v \in Member : c \notin requests[v] /\ c \notin replies[v] /\ running[v] # c
                           /\ task[c] # v /\ (c \in scheduled[v] => v = w)
      /\ c \notin ready
  <2>1. Home[c] \in Member BY Zenon, CallsAssumption
  <2>. QED BY Zenon, <1>1, <2>1 DEF OnlyAt, Has, Place
<1>4. LeftOK' BY Zenon, <1>0 DEF LeftOK, CallsType
<1>5. CASE work[c].kind = "fn"
  <2>1. work' = Calls!Stored(c) /\ UNCHANGED task BY Zenon, <1>5 DEF Calls!RunFn
  <2>2. /\ work' \in [Coroutine -> Work \cup {None}] /\ work'[c] \in Work /\ work'[c].result
        /\ work'[c].reply_deferred = work[c].reply_deferred
        /\ \A d \in Coroutine : d # c => work'[d] = work[d]
    BY Zenon, <1>1, <2>1, ResultStored
  <2>3. CallsType' BY Zenon, <1>0, <2>1, <2>2 DEF CallsType
  <2>4. Calls!Live(c)' /\ ~Calls!Deferred(c)'
    BY Zenon, <1>1, <1>2, <2>2 DEF Calls!Live, Calls!Deferred
  <2>5. OnlyAt(w, "running", c)'
    BY ZenonT(40), <1>0, <1>3, <2>1, <2>4 DEF OnlyAt, Has, CallsType
  <2>6. \A d \in Coroutine : d # c => Untouched(d)
    BY ZenonT(40), <1>0, <1>2, <2>1, <2>2 DEF Untouched, CallsType
  <2>7. CallInv(c)' BY ZenonT(40), <2>2, <2>3, <2>4, <2>5, Answered DEF Place
  <2>. QED BY ZenonT(40), <1>0, <1>4, <2>3, <2>6, <2>7, OneMoves DEF Onwards
<1>6. CASE work[c].kind # "fn"
  <2>1. Calls!Start(work, c, w) BY Zenon, <1>6 DEF Calls!RunFn
  <2>2. /\ work' \in [Coroutine -> Work \cup {None}]
        /\ work'[c] \in Work /\ work'[c].reply_deferred
        /\ \A d \in Coroutine : d # c => work'[d] = work[d]
    BY ZenonT(40), <1>1, <2>1, StartStores DEF CallsType
  <2>3. task' = IF w \in stop THEN task ELSE [task EXCEPT ![c] = w]
    BY Zenon, <2>1 DEF Calls!Start
  <2>4. CallsType'
    <3>1. task' \in [Coroutine -> Member \cup {None}] BY Zenon, <2>3 DEF CallsType
    <3>. QED BY ZenonT(40), <1>0, <2>2, <3>1 DEF CallsType
  <2>5. \A d \in Coroutine : d # c => Untouched(d)
    BY ZenonT(40), <1>0, <1>2, <2>2, <2>3 DEF Untouched, CallsType
  <2>6. Calls!Live(c)' /\ Calls!Deferred(c)'
    BY ZenonT(40), <1>2, <2>2 DEF Calls!Live, Calls!Deferred
  <2>7. \A v \in Member : running'[v] = c => v = w
    BY Zenon, <1>0, <1>3 DEF CallsType
  <2>8. CallInv(c)'
    <3>1. CASE w \notin stop
      <4>1. OnlyAt(w, "task", c)'
        BY ZenonT(40), <1>0, <1>3, <2>3, <2>6, <3>1 DEF OnlyAt, Has, CallsType
      <4>. QED BY ZenonT(40), <2>4, <2>6, <2>7, <4>1, Answered DEF Place
    <3>2. CASE w \in stop
      <4>1. \A v \in Member, p \in Place : ~Has(v, p, c)'
        BY ZenonT(40), <1>0, <1>3, <2>3, <2>6, <3>2 DEF Has, CallsType
      <4>2. stop' # {} BY Zenon, <1>0, <3>2
      <4>3. UnknownOK(c)' /\ OnceOK(c)' /\ SomewhereOK(c)'
        BY ZenonT(40), <2>6, <4>1, <4>2 DEF UnknownOK, OnceOK, SomewhereOK
      <4>4. DeferredOK(c)'
        BY ZenonT(40), <1>0, <1>3, <2>6, <4>1 DEF DeferredOK, CallsType
      <4>5. ResultOK(c)' BY ZenonT(40), <1>0, <1>3, <4>1 DEF ResultOK, Place
      <4>. QED BY ZenonT(40), <4>3, <4>4, <4>5 DEF CallInv
    <3>. QED BY Zenon, <3>1, <3>2
  <2>. QED BY Zenon, <1>0, <1>4, <2>4, <2>5, <2>8, OneMoves DEF Onwards
<1>. QED BY Zenon, <1>5, <1>6

(* ... and looks again whether the reply is deferred.                      *)
LEMMA ReplyStep ==
    ASSUME CallsInv, NEW w \in Member, Calls!Reply(w)
    PROVE CallsInv'
<1>. USE DEF CallsInv
<1>0. PICK c \in Coroutine : running[w] = c BY Zenon DEF Calls!Reply, CallsType
<1>1. /\ UNCHANGED <<work, requests, scheduled, task, ready, stop, left>>
      /\ running' = [running EXCEPT ![w] = None] /\ w \notin left /\ left # Member
  BY Zenon DEF Calls!Reply, LeftOK
<1>2. None # c /\ None \notin Coroutine BY Zenon, CallsAssumption
<1>3. LeftOK' BY Zenon, <1>1 DEF LeftOK, CallsType
<1>4. /\ Calls!Live(c)' <=> Calls!Live(c)
      /\ Calls!Deferred(c)' <=> Calls!Deferred(c)
  BY Zenon, <1>1 DEF Calls!Live, Calls!Deferred
<1>5. Calls!Live(c) BY Zenon, <1>0, <1>1 DEF CallInv, UnknownOK
<1>6. /\ \A v \in Member : v # w => running'[v] = running[v]
      /\ running'[w] = None
  BY Zenon, <1>1 DEF CallsType
<1>7. CASE Calls!Deferred(c)
  <2>1. UNCHANGED replies BY Zenon, <1>0, <1>7 DEF Calls!Reply
  <2>2. CallsType' BY ZenonT(40), <1>1, <2>1 DEF CallsType
  <2>3. \A v \in Member, p \in Place : Has(v, p, c)' <=> Has(v, p, c)
    BY SMTT(30), <1>1, <1>4, <1>7, <2>1 DEF Has
  <2>4. UnknownOK(c)' /\ OnceOK(c)' /\ SomewhereOK(c)'
    BY SMTT(30), <1>1, <1>4, <1>5, <2>3 DEF CallInv, UnknownOK, OnceOK, SomewhereOK
  <2>5. DeferredOK(c)'
    BY ZenonT(40), <1>1, <1>2, <1>4, <1>5, <1>6, <2>3 DEF CallInv, DeferredOK
  <2>6. ResultOK(c)' BY ZenonT(40), <1>1, <1>5, <2>3 DEF CallInv, ResultOK, Place
  <2>7. CallInv(c)' BY Zenon, <2>4, <2>5, <2>6 DEF CallInv
  <2>8. \A d \in Coroutine : d # c => Untouched(d)
    BY ZenonT(40), <1>0, <1>1, <1>2, <1>6, <2>1 DEF Untouched
  <2>. QED BY ZenonT(40), <1>1, <1>3, <2>2, <2>7, <2>8, OneMoves DEF Onwards
<1>8. CASE ~Calls!Deferred(c)
  <2>0. Home[c] \in Member BY Zenon, CallsAssumption
  <2>1. replies' = [replies EXCEPT ![Home[c]] = @ \cup {c}]
    BY Zenon, <1>0, <1>8 DEF Calls!Reply, Calls!Add
  <2>2. CallsType' BY ZenonT(40), <1>1, <2>0, <2>1 DEF CallsType
  <2>3. Has(w, "running", c) BY Zenon, <1>0, <1>8 DEF Has
  <2>4. OnlyAt(w, "running", c) /\ work[c].result BY Zenon, <1>1, <2>3, Found DEF Place
  <2>5. \A v \in Member : /\ c \notin requests[v] /\ c \notin scheduled[v] /\ c \notin replies[v]
                          /\ task[c] # v /\ (running[v] = c => v = w) /\ c \notin ready
    BY Zenon, <1>8, <2>0, <2>4 DEF OnlyAt, Has, Place
  <2>6. OnlyAt(Home[c], "reply", c)'
    BY ZenonT(40), <1>1, <1>2, <1>6, <2>0, <2>1, <2>5 DEF OnlyAt, Has, CallsType
  <2>7. Calls!Live(c)' /\ ~Calls!Deferred(c)' /\ work'[c].result
    BY ZenonT(40), <1>1, <1>4, <1>5, <1>8, <2>4
  <2>8. CallInv(c)' BY ZenonT(40), <2>0, <2>2, <2>6, <2>7, Answered DEF Place
  <2>9. \A d \in Coroutine : d # c => Untouched(d)
    BY ZenonT(40), <1>0, <1>1, <1>2, <1>6, <2>0, <2>1 DEF Untouched, CallsType
  <2>. QED BY Zenon, <1>1, <1>3, <2>2, <2>8, <2>9, OneMoves DEF Onwards
<1>. QED BY Zenon, <1>7, <1>8

(* The task ends, the caller takes its result.                             *)
LEMMA RunStep ==
    ASSUME CallsInv, NEW w \in Member, NEW c \in Coroutine, Calls!Run(w, c)
    PROVE CallsInv'
<1>. USE DEF CallsInv
<1>0. /\ UNCHANGED <<requests, scheduled, running, ready, stop, left>> /\ left # Member
      /\ Has(w, "task", c) /\ running[w] = None
      /\ task' = [task EXCEPT ![c] = None] /\ work' = Calls!Stored(c)
      /\ replies' = [replies EXCEPT ![Home[c]] = @ \cup {c}]
  BY Zenon DEF Calls!Run, Calls!Free, Calls!InLoop, Calls!Add, Has
<1>1. /\ Calls!Live(c) /\ OnlyAt(w, "task", c) /\ Calls!Deferred(c) /\ work[c] \in Work
      /\ \A v \in Member : running[v] = c => v = w
  BY Zenon, <1>0, Found DEF Place
<1>2. Home[c] \in Member /\ None # c /\ None \notin Member /\ None \notin Work
  BY Zenon, CallsAssumption DEF Work
<1>3. \A v \in Member : /\ c \notin requests[v] /\ c \notin scheduled[v] /\ c \notin replies[v]
                        /\ running[v] # c /\ c \notin ready
  BY ZenonT(40), <1>0, <1>1, <1>2 DEF OnlyAt, Has, Place
<1>4. /\ work' \in [Coroutine -> Work \cup {None}] /\ work'[c] \in Work /\ work'[c].result
      /\ work'[c].reply_deferred = work[c].reply_deferred
      /\ \A d \in Coroutine : d # c => work'[d] = work[d]
  BY ZenonT(40), <1>0, <1>1, ResultStored
<1>5. CallsType'
  <2>1. task' \in [Coroutine -> Member \cup {None}] BY Zenon, <1>0 DEF CallsType
  <2>2. replies' \in [Member -> SUBSET Coroutine] BY Zenon, <1>0, <1>2 DEF CallsType
  <2>. QED BY ZenonT(40), <1>0, <1>4, <2>1, <2>2 DEF CallsType
<1>6. Calls!Live(c)' BY Zenon, <1>2, <1>4 DEF Calls!Live
<1>7. OnlyAt(Home[c], "reply", c)'
  BY ZenonT(40), <1>0, <1>2, <1>3 DEF OnlyAt, Has, CallsType
<1>8. \A d \in Coroutine : d # c => Untouched(d)
  BY ZenonT(40), <1>0, <1>2, <1>4 DEF Untouched, CallsType
<1>9. CallInv(c)' BY ZenonT(40), <1>0, <1>2, <1>3, <1>4, <1>5, <1>6, <1>7, Answered DEF Place
<1>. QED BY ZenonT(40), <1>0, <1>5, <1>8, <1>9, OneMoves DEF LeftOK, Onwards

LEMMA ResumeStep ==
    ASSUME CallsInv, NEW c \in Coroutine, Calls!Resume(c)
    PROVE CallsInv'
<1>. USE DEF CallsInv
<1>0. /\ UNCHANGED <<requests, scheduled, running, task, replies, stop, left>>
      /\ ready' = ready \ {c} /\ work' = [work EXCEPT ![c] = None]
      /\ Has(Home[c], "ready", c) /\ left # Member /\ Home[c] \in Member
  BY Zenon, CallsAssumption DEF Calls!Resume, Calls!Free, Calls!InLoop, Has
<1>1. /\ OnlyAt(Home[c], "ready", c)
      /\ ~(Calls!Deferred(c) /\ \E v \in Member : running[v] = c)
  BY Zenon, <1>0, Found DEF Place
<1>2. \A v \in Member : /\ c \notin requests[v] /\ c \notin scheduled[v] /\ c \notin replies[v]
                        /\ task[c] # v /\ running[v] # c
  BY Zenon, <1>1 DEF OnlyAt, Has, Place
<1>3. CallsType' BY Zenon, <1>0 DEF CallsType
<1>4. \A d \in Coroutine : d # c => Untouched(d) BY Zenon, <1>0 DEF Untouched, CallsType
<1>5. ~Calls!Live(c)' BY Zenon, <1>0 DEF Calls!Live, CallsType
<1>6. UnknownOK(c)' BY Zenon, <1>0, <1>2 DEF UnknownOK, Has
<1>7. CallInv(c)' BY Zenon, <1>5, <1>6 DEF CallInv, OnceOK, SomewhereOK, DeferredOK, ResultOK
<1>. QED BY ZenonT(40), <1>0, <1>3, <1>4, <1>7, OneMoves DEF LeftOK, Onwards

(* The shutdown.                                                           *)
LEMMA StopWorkerSteps ==
    ASSUME CallsInv,
           \/ UNCHANGED callVars
           \/ \E w \in Member : Calls!StopWorker(w) \/ Calls!Leave(w)
    PROVE CallsInv'
<1>. USE DEF CallsInv
<1>1. /\ UNCHANGED <<work, requests, scheduled, running, task, replies, ready>>
      /\ stop \subseteq stop' /\ stop' \subseteq Member
      /\ left \subseteq left' /\ left' \subseteq Member
      /\ \A v \in left' : v \in left \/ (running[v] = None /\ v \in stop)
  BY Zenon DEF Calls!StopWorker, Calls!Leave, Calls!Free, Calls!InLoop, callVars, CallsType
<1>2. CallsType' BY Zenon, <1>1 DEF CallsType
<1>3. LeftOK' BY Zenon, <1>1 DEF LeftOK
<1>4. Onwards BY Zenon, <1>1 DEF Onwards
<1>5. \A c \in Coroutine : Untouched(c) BY Zenon, <1>1 DEF Untouched
<1>. QED BY ZenonT(40), <1>2, <1>3, <1>4, <1>5, CallStays

LEMMA DestroySteps ==
    ASSUME CallsInv, NEW w \in Member, Calls!DestroyFrames(w)
    PROVE CallsInv'
<1>. USE DEF CallsInv
<1>0. /\ UNCHANGED <<requests, scheduled, running, replies, ready, stop, left>> /\ left = Member
      /\ work' = [c \in Coroutine |-> IF Home[c] = w THEN None ELSE work[c]]
      /\ task' = [c \in Coroutine |-> IF task[c] = w THEN None ELSE task[c]]
  BY Zenon DEF Calls!DestroyFrames
<1>1. CallsType' BY Zenon, <1>0 DEF CallsType
<1>2. LeftOK' BY Zenon, <1>0 DEF LeftOK
<1>3. ASSUME NEW c \in Coroutine PROVE CallInv(c)'
  <2>1. UnknownOK(c)' BY Zenon, <1>0 DEF UnknownOK
  <2>2. CASE ~Calls!Live(c)'
    BY Zenon, <2>1, <2>2 DEF CallInv, OnceOK, SomewhereOK, DeferredOK, ResultOK
  <2>3. CASE Calls!Live(c)'
    <3>1. /\ work'[c] = work[c] /\ Calls!Live(c)
          /\ Calls!Deferred(c)' <=> Calls!Deferred(c)
      BY Zenon, <1>0, <2>3 DEF Calls!Live, Calls!Deferred
    <3>2. None \notin Member BY Zenon, CallsAssumption
    <3>3. task'[c] = IF task[c] = w THEN None ELSE task[c] BY Zenon, <1>0
    <3>4. \A v \in Member, p \in Place : Has(v, p, c)' => Has(v, p, c)
      BY ZenonT(40), <1>0, <3>1, <3>2, <3>3 DEF Has
    <3>5. \A v \in Member, p \in Place : Has(v, p, c) => Has(v, p, c)' \/ task[c] = w
      BY ZenonT(40), <1>0, <3>1, <3>3 DEF Has
    <3>6. OnceOK(c)' BY Zenon, <3>1, <3>4 DEF CallInv, OnceOK
    <3>7. SomewhereOK(c)'
      <4>1. task[c] = w => Calls!Deferred(c) BY Zenon, <3>1, <3>2 DEF CallInv, DeferredOK
      <4>2. stop' # {} BY Zenon, <1>0 DEF LeftOK
      <4>. QED BY ZenonT(40), <3>1, <3>5, <4>1, <4>2 DEF CallInv, SomewhereOK
    <3>8. DeferredOK(c)'
      BY ZenonT(40), <1>0, <3>1, <3>3, <3>4 DEF CallInv, DeferredOK
    <3>9. ResultOK(c)' BY ZenonT(40), <1>0, <3>1, <3>4 DEF CallInv, ResultOK, Place
    <3>. QED BY ZenonT(40), <2>1, <3>6, <3>7, <3>8, <3>9 DEF CallInv
  <2>. QED BY Zenon, <2>2, <2>3
<1>. QED BY Zenon, <1>1, <1>2, <1>3

LEMMA CallsNext == CallsInv /\ [Calls!Next]_callVars => CallsInv'
<1>. SUFFICES ASSUME CallsInv, [Calls!Next]_callVars PROVE CallsInv' BY Zenon
<1>1. CASE UNCHANGED callVars BY Zenon, <1>1, StopWorkerSteps
<1>2. CASE \E c \in Coroutine : Calls!Resume(c) BY Zenon, <1>2, ResumeStep
<1>3. CASE \E c \in Coroutine, kind \in {"fn", "task"}, w \in Member : Calls!Submit(c, kind, w)
  BY Zenon, <1>3, SubmitStep
<1>4. ASSUME NEW w \in Member, NEW c \in Coroutine,
             \/ Calls!ScheduleRequest(w, c) \/ Calls!ScheduleReply(w, c)
             \/ Calls!RunFn(w, c) \/ Calls!Run(w, c)
      PROVE CallsInv'
  BY ZenonT(40), <1>4, DrainSteps, RunFnStep, RunStep
<1>5. ASSUME NEW w \in Member,
             Calls!Reply(w) \/ Calls!StopWorker(w) \/ Calls!Leave(w) \/ Calls!DestroyFrames(w)
      PROVE CallsInv'
  BY ZenonT(40), <1>5, ReplyStep, StopWorkerSteps, DestroySteps
<1>. QED BY ZenonT(40), <1>1, <1>2, <1>3, <1>4, <1>5 DEF Calls!Next

LEMMA AnswersAre ==
    ASSUME NEW c, NEW w \in Member, NEW p \in Place
    PROVE <<w, p>> \in Calls!Answers(c) <=> Has(w, p, c)
BY Zenon DEF Calls!Answers, Calls!Uses, Has, Place

LEMMA CallsSafe == CallsInv => Calls!WorkOutlivesUse
<1>. SUFFICES ASSUME CallsInv PROVE Calls!WorkOutlivesUse BY Zenon
<1>. USE DEF CallsInv
<1>1. ASSUME NEW w \in Member \ left, NEW c \in Coroutine, Calls!Uses(w, c) # {}
      PROVE Calls!Live(c)
  <2>1. left # Member BY Zenon
  <2>2. running[w] = c \/ \E p \in Place : Has(w, p, c)
    BY Zenon, <1>1 DEF Calls!Uses, Has, Place
  <2>. QED BY Zenon, <2>1, <2>2 DEF CallInv, UnknownOK
<1>2. ASSUME NEW c \in Coroutine, Calls!Live(c)
      PROVE \/ Calls!Cardinality(Calls!Answers(c)) = 1
            \/ Calls!Deferred(c) /\ Calls!Answers(c) = {} /\ stop # {}
  <2>0. Calls!Answers(c) \subseteq Member \X Place BY Zenon DEF Calls!Answers, Place
  <2>1. CASE \E w \in Member, p \in Place : Has(w, p, c)
    <3>1. PICK w \in Member, p \in Place : Has(w, p, c) BY Zenon, <2>1
    <3>2. \A v \in Member, q \in Place : Has(v, q, c) => v = w /\ q = p
      BY ZenonT(40), <1>2, <3>1 DEF CallInv, OnceOK
    <3>3. <<w, p>> \in Calls!Answers(c) BY Zenon, <3>1, AnswersAre
    <3>4. ASSUME NEW a \in Calls!Answers(c) PROVE a = <<w, p>>
      <4>1. PICK v \in Member, q \in Place : a = <<v, q>> BY <2>0
      <4>. QED BY ZenonT(40), <3>2, <4>1, AnswersAre
    <3>5. Calls!Answers(c) = {<<w, p>>} BY ZenonT(40), <3>3, <3>4
    <3>6. Calls!Cardinality(Calls!Answers(c)) = Cardinality(Calls!Answers(c))
      BY Zenon DEF Calls!Cardinality, Cardinality
    <3>7. \A x : Cardinality({x}) = 1 BY Zenon, FS_Singleton
    <3>8. Cardinality(Calls!Answers(c)) = 1 BY ZenonT(40), <3>5, <3>7
    <3>. QED BY ZenonT(40), <3>6, <3>8
  <2>2. CASE ~\E w \in Member, p \in Place : Has(w, p, c)
    <3>1. Calls!Answers(c) = {}
      <4>. SUFFICES ASSUME NEW a \in Calls!Answers(c) PROVE FALSE BY Zenon
      <4>1. PICK v \in Member, q \in Place : a = <<v, q>> BY <2>0
      <4>. QED BY ZenonT(40), <2>2, <4>1, AnswersAre
    <3>. QED BY ZenonT(40), <1>2, <2>2, <3>1 DEF CallInv, SomewhereOK
  <2>. QED BY Zenon, <2>1, <2>2
<1>3. ASSUME NEW c \in ready, Calls!Live(c) PROVE work[c].result
  <2>1. c \in Coroutine BY Zenon DEF CallsType
  <2>2. Home[c] \in Member BY Zenon, <2>1, CallsAssumption
  <2>. QED BY Zenon, <1>3, <2>1, <2>2 DEF CallInv, ResultOK
<1>. QED BY ZenonT(40), <1>1, <1>2, <1>3 DEF Calls!WorkOutlivesUse

-----------------------------------------------------------------------------
LEMMA EndingInductive == MCSpec => []EndingInv
<1>1. MCInit => EndingInv
  BY ZenonT(40), ServerInit, CallsInit, ForeignInit DEF MCInit, EndingInv
<1>2. EndingInv /\ [MCNext]_allVars => EndingInv'
  <2>. SUFFICES ASSUME EndingInv, [MCNext]_allVars PROVE EndingInv' BY Zenon
  <2>1. /\ part' = part
        /\ part = "server" => [Next]_vars
        /\ part = "calls" => [Calls!Next]_callVars
        /\ part = "foreign" => [Foreign!Next]_foreignVars
    BY Zenon DEF MCNext, allVars
  <2>. QED BY ZenonT(40), <2>1, ServerNext, CallsNext, ForeignNext DEF EndingInv
<1>. QED BY <1>1, <1>2, PTL DEF MCSpec

(* Whenever and wherever a start fails or a stop comes, the threads of the *)
(* Runtime pass the launch latch and the two barriers of Server::RunWorker *)
(* in order, and WaitUntilStopped returns the exit code, with any number   *)
(* of workers.                                                             *)
THEOREM ShutdownInOrder == MCSpec => []LifecycleInOrder
<1>1. EndingInv => LifecycleInOrder
  BY ZenonT(40), ServerSafe DEF EndingInv, LifecycleInOrder
<1>. QED BY <1>1, EndingInductive, PTL

(* SubmitTo and SubmitTaskTo never use the frame of a caller that is gone  *)
(* and answer it once; ForeignExecutor::WaitUntilIdle returns when all has *)
(* run, and nobody uses the executor later.  With any number of workers,   *)
(* coroutines and foreign threads.                                         *)
THEOREM CallsOutlivedByFrames == MCSpec => []CallsAreSafe
<1>1. EndingInv => CallsAreSafe
  BY Zenon, CallsSafe, ForeignSafe DEF EndingInv, CallsAreSafe
<1>. QED BY <1>1, EndingInductive, PTL
=============================================================================
