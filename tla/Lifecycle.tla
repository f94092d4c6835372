----------------------------- MODULE Lifecycle ------------------------------
(***************************************************************************)
(* Start and stop of a Server and the Runtime below it (src/net/server.cpp,*)
(* src/runtime/runtime.cpp): the launch latch, the event loops, stop       *)
(* requests from a control thread or from a worker that failed, the two    *)
(* barriers of the shutdown, and the join.                                 *)
(*                                                                         *)
(* RequestStop stops one worker per step; its caller, which may be a       *)
(* worker, goes on when the last one is stopped.                           *)
(***************************************************************************)
EXTENDS Naturals, FiniteSets

CONSTANTS Worker

ASSUME WorkersFinite == IsFiniteSet(Worker) /\ Worker # {}
ASSUME OtherCallers == {"main", "ctl"} \cap Worker = {}

VARIABLES
    pc,               \* of the worker threads; "none" before the launch
    main,             \* the thread in Server::Start and WaitUntilStopped
    arrived,          \* at the launch latch, the main thread included
    affinityFailed,
    active,           \* active_workers_
    stopRequested,    \* of the Runtime
    todo,             \* per caller of RequestStop: workers still to stop
    workerStop,       \* Worker::stop_requested_
    wake,             \* the wake eventfd of a worker is readable
    stopping,         \* Worker::stopping_
    frames,           \* the detached coroutine frames of a worker
    drained, reclaimed,   \* the barriers of Server::RunWorker
    code,             \* what a worker's main function returned
    exitCode,
    stopped

vars == <<pc, main, arrived, affinityFailed, active, stopRequested, todo,
          workerStop, wake, stopping, frames, drained, reclaimed, code,
          exitCode, stopped>>
stopVars == <<stopRequested, todo, workerStop, wake>>
barrierVars == <<drained, reclaimed, frames>>
startVars == <<main, arrived, affinityFailed>>
endVars == <<active, code, exitCode, stopped>>

N == Cardinality(Worker)
Caller == Worker \cup {"main", "ctl"}
Launched == {w \in Worker : pc[w] # "none"}

Init ==
    /\ pc = [w \in Worker |-> "none"] /\ main = "launch"
    /\ arrived = 0 /\ affinityFailed = FALSE /\ active = N
    /\ stopRequested = FALSE /\ todo = [p \in Caller |-> {}]
    /\ workerStop = [w \in Worker |-> FALSE]
    /\ wake = [w \in Worker |-> FALSE]
    /\ stopping = [w \in Worker |-> FALSE]
    /\ frames = [w \in Worker |-> "none"]
    /\ drained = 0 /\ reclaimed = 0
    /\ code = [w \in Worker |-> 0] /\ exitCode = 0 /\ stopped = FALSE

(* Runtime::RequestStop: only the first caller stops the workers.          *)
RequestStop(p) ==
    /\ stopRequested' = TRUE
    /\ todo' = [todo EXCEPT ![p] = IF stopRequested THEN {} ELSE Worker]
    /\ UNCHANGED <<workerStop, wake>>

(* Worker::RequestStop.                                                    *)
StopOne(p) ==
    \E w \in todo[p] :
        /\ workerStop' = [workerStop EXCEPT ![w] = TRUE]
        /\ wake' = [wake EXCEPT ![w] = TRUE]
        /\ todo' = [todo EXCEPT ![p] = @ \ {w}]
        /\ UNCHANGED <<pc, stopping, stopRequested, barrierVars, startVars,
                       endVars>>

At(w, l) == pc[w] = l /\ todo[w] = {}
Goto(w, l) == pc' = [pc EXCEPT ![w] = l]

-----------------------------------------------------------------------------
(* Runtime::Impl::Start launches the threads one after another...          *)
Launch ==
    /\ main = "launch"
    /\ \E w \in Worker \ Launched :
          /\ Goto(w, "start")
          /\ main' = IF Cardinality(Launched) + 1 = N THEN "count" ELSE main
    /\ UNCHANGED <<arrived, affinityFailed, stopVars, stopping, barrierVars,
                   endVars>>

(* ... one cannot be created: those that exist must end ...                *)
LaunchFails ==
    /\ main = "launch"
    /\ affinityFailed' = TRUE
    /\ active' = active - (N - Cardinality(Launched))
    /\ arrived' = arrived + (N - Cardinality(Launched)) + 1
    /\ main' = "failed"
    /\ UNCHANGED <<pc, stopVars, stopping, barrierVars, code, exitCode, stopped>>

(* ... so Server::Start stops them and waits for them ...                  *)
StartFails ==
    /\ main = "failed"
    /\ main' = "wait"
    /\ RequestStop("main")
    /\ UNCHANGED <<pc, arrived, affinityFailed, stopping, barrierVars, endVars>>

(* ... or all were.                                                        *)
LaunchDone ==
    /\ main = "count"
    /\ arrived' = arrived + 1
    /\ main' = "wait"
    /\ UNCHANGED <<pc, affinityFailed, stopVars, stopping, barrierVars,
                   endVars>>

(* A thread sets its affinity and arrives at the latch.                    *)
Arrive(w) ==
    /\ At(w, "start")
    /\ \E failed \in BOOLEAN : affinityFailed' = (affinityFailed \/ failed)
    /\ arrived' = arrived + 1
    /\ Goto(w, "latch")
    /\ UNCHANGED <<main, stopVars, stopping, barrierVars, endVars>>

(* Mutant: a thread does not wait for the others.                          *)
LatchOpens(n) == TRUE

LatchOpen(n) == n = N + 1

PassLatch(w) ==
    /\ At(w, "latch") /\ LatchOpen(arrived)
    /\ Goto(w, IF affinityFailed THEN "exit" ELSE "init")
    /\ code' = [code EXCEPT ![w] = IF affinityFailed THEN 1 ELSE 0]
    /\ UNCHANGED <<startVars, stopVars, stopping, barrierVars, active,
                   exitCode, stopped>>

-----------------------------------------------------------------------------
(* Server::RunWorker.  SpawnRoot drops the roots if a stop came first.     *)
InitWorker(w) ==
    /\ At(w, "init")
    /\ frames' = [frames EXCEPT ![w] = IF workerStop[w] THEN "none"
                                       ELSE "live"]
    /\ Goto(w, "run")
    /\ UNCHANGED <<startVars, stopVars, stopping, drained, reclaimed, endVars>>

InitFails(w) ==
    /\ At(w, "init")
    /\ drained' = drained + 1 /\ reclaimed' = reclaimed + 1
    /\ code' = [code EXCEPT ![w] = 1]
    /\ Goto(w, "exit")
    /\ RequestStop(w)
    /\ UNCHANGED <<startVars, stopping, frames, active, exitCode, stopped>>

(* Mutant: the event loop forgets a stop that came before it.              *)
RunForgets(w) ==
    /\ At(w, "run")
    /\ stopping' = [stopping EXCEPT ![w] = FALSE]
    /\ workerStop' = [workerStop EXCEPT ![w] = FALSE]
    /\ wake' = [wake EXCEPT ![w] = FALSE]
    /\ Goto(w, "loop")
    /\ UNCHANGED <<startVars, stopRequested, todo, barrierVars, endVars>>

(* Worker::Run looks for a stop that came before it...                     *)
Run(w) ==
    /\ At(w, "run")
    /\ stopping' = [stopping EXCEPT ![w] = workerStop[w]]
    /\ Goto(w, "loop")
    /\ UNCHANGED <<startVars, stopVars, barrierVars, endVars>>

(* ... and the wake poll for one that comes later.                         *)
HandleWakePoll(w) ==
    /\ At(w, "loop") /\ wake[w]
    /\ wake' = [wake EXCEPT ![w] = FALSE]
    /\ stopping' = [stopping EXCEPT ![w] = @ \/ workerStop[w]]
    /\ UNCHANGED <<pc, startVars, stopRequested, todo, workerStop, barrierVars,
                   endVars>>

LeaveLoop(w) ==
    /\ At(w, "loop") /\ stopping[w]
    /\ Goto(w, "drained")
    /\ UNCHANGED <<startVars, stopVars, stopping, barrierVars, endVars>>

(* RunOnce returned false: the worker failed, unless it was to stop.       *)
LoopFails(w) ==
    /\ At(w, "loop")
    /\ IF workerStop[w] THEN UNCHANGED <<code, stopVars>>
       ELSE code' = [code EXCEPT ![w] = 1] /\ RequestStop(w)
    /\ Goto(w, "drained")
    /\ UNCHANGED <<startVars, stopping, barrierVars, active, exitCode, stopped>>

Drain(w) ==
    /\ At(w, "drained")
    /\ drained' = drained + 1
    /\ Goto(w, "barrier1")
    /\ UNCHANGED <<startVars, stopVars, stopping, reclaimed, frames, endVars>>

AllDrained == drained >= N

(* Worker::Shutdown and DestroyDetachedTasks.                              *)
DestroyFrames(w) ==
    /\ At(w, "barrier1") /\ AllDrained
    /\ frames' = [frames EXCEPT ![w] = "destroyed"]
    /\ Goto(w, "destroyed")
    /\ UNCHANGED <<startVars, stopVars, stopping, drained, reclaimed, endVars>>

Reclaim(w) ==
    /\ At(w, "destroyed")
    /\ reclaimed' = reclaimed + 1
    /\ Goto(w, "barrier2")
    /\ UNCHANGED <<startVars, stopVars, stopping, drained, frames, endVars>>

(* Mutant: one barrier serves for both.                                    *)
DrainedAgain == drained >= N

AllReclaimed == reclaimed >= N

(* FinalizeWorker of the services.                                         *)
Finalize(w) ==
    /\ At(w, "barrier2") /\ AllReclaimed
    /\ Goto(w, "finalize")
    /\ UNCHANGED <<startVars, stopVars, stopping, barrierVars, endVars>>

-----------------------------------------------------------------------------
(* The thread's end: report a failure, stop the others...                  *)
Exit(w) ==
    /\ At(w, "exit") \/ At(w, "finalize")
    /\ IF code[w] # 0
       THEN /\ exitCode' = IF exitCode = 0 THEN code[w] ELSE exitCode
            /\ RequestStop(w)
       ELSE UNCHANGED <<exitCode, stopVars>>
    /\ Goto(w, "leave")
    /\ UNCHANGED <<startVars, stopping, barrierVars, active, code, stopped>>

(* ... count down ...                                                      *)
Leave(w) ==
    /\ At(w, "leave")
    /\ active' = active - 1
    /\ Goto(w, IF active = 1 THEN "last" ELSE "notify")
    /\ UNCHANGED <<startVars, stopVars, stopping, barrierVars, code, exitCode,
                   stopped>>

(* ... and tell who waits, with objects of the Runtime.                    *)
Notify(w) ==
    /\ At(w, "last") \/ At(w, "notify")
    /\ stopped' = (stopped \/ pc[w] = "last")
    /\ Goto(w, "done")
    /\ UNCHANGED <<startVars, stopVars, stopping, barrierVars, active, code,
                   exitCode>>

(* Mutant: the threads are not joined.                                     *)
JoinedEarly == stopped \/ active = 0

Joined == (stopped \/ active = 0) /\ \A w \in Launched : pc[w] = "done"

(* WaitUntilStopped.                                                       *)
Join ==
    /\ main = "wait" /\ todo["main"] = {} /\ Joined
    /\ main' = "joined"
    /\ UNCHANGED <<pc, arrived, affinityFailed, stopVars, stopping, barrierVars,
                   endVars>>

(* A control thread asks for the stop.                                     *)
ControlStop ==
    /\ main = "wait" /\ Launched = Worker /\ ~stopRequested
    /\ RequestStop("ctl")
    /\ UNCHANGED <<pc, startVars, stopping, barrierVars, endVars>>

-----------------------------------------------------------------------------
(* What a thread does without a fault.                                     *)
WorkerStep(w) ==
    \/ Arrive(w) \/ PassLatch(w) \/ InitWorker(w) \/ Run(w)
    \/ HandleWakePoll(w) \/ LeaveLoop(w) \/ Drain(w) \/ DestroyFrames(w)
    \/ Reclaim(w) \/ Finalize(w) \/ Exit(w) \/ Leave(w) \/ Notify(w)
MainStep == Launch \/ StartFails \/ LaunchDone \/ Join

Next ==
    \/ MainStep \/ LaunchFails \/ ControlStop
    \/ \E p \in Caller : StopOne(p)
    \/ \E w \in Worker : WorkerStep(w) \/ InitFails(w) \/ LoopFails(w)

Spec == Init /\ [][Next]_vars

(* Every thread runs.                                                      *)
Fairness ==
    /\ WF_vars(MainStep)
    /\ \A w \in Worker : WF_vars(WorkerStep(w))
    /\ \A p \in Caller : WF_vars(StopOne(p))

-----------------------------------------------------------------------------
(* Frames are destroyed only when every worker has left its event loop, or *)
(* never had one: nothing runs that could hold a reference to them.        *)
(* Services are finalized only when the frames of every worker are gone.   *)
TeardownInOrder ==
    /\ (\E w \in Worker : frames[w] = "destroyed") =>
           \A w \in Worker : pc[w] \notin {"start", "latch", "init", "run", "loop",
                                           "drained"}
    /\ (\E w \in Worker : pc[w] = "finalize") =>
           \A w \in Worker : frames[w] # "live"

(* If one thread cannot be created or pinned, no worker starts a service.  *)
StartIsAllOrNothing ==
    affinityFailed =>
        \A w \in Worker : pc[w] \in {"none", "start", "latch", "exit", "leave",
                                     "last", "notify", "done"}

(* Once the threads are joined, the exit code tells whether one failed and *)
(* no thread uses the Runtime any more.                                    *)
ExitCodeTells ==
    main = "joined" =>
        /\ exitCode # 0 <=> \E w \in Worker : code[w] # 0
        /\ \A w \in Worker : pc[w] \in {"none", "done"} /\ todo[w] = {}

(* A stop request, and a failure, end every thread and the wait, whenever  *)
(* they come: while threads are launched, initialize, run or already stop. *)
StopEnds == (stopRequested \/ affinityFailed) ~> main = "joined"
=============================================================================
