------------------------------- MODULE Ending -------------------------------
(***************************************************************************)
(* A Runtime that starts and stops, and beside it what has to end with it: *)
(* the calls between workers and the notifications of foreign threads.     *)
(* `part' names the one a behaviour exercises, the others keep their       *)
(* initial states.                                                         *)
(***************************************************************************)
EXTENDS Lifecycle

CONSTANTS Member, Coroutine, Home,   \* workers, their coroutines that call
          Producer, MaxPosts, None

ASSUME CallsAssumption ==
    /\ Home \in [Coroutine -> Member] /\ None \notin Member \cup Coroutine
    /\ None \notin [kind : {"fn", "task"}, reply_deferred : BOOLEAN, result : BOOLEAN]
ASSUME PostsAssumption == IsFiniteSet(Producer) /\ MaxPosts \in Nat

VARIABLES part,
          work, requests, scheduled, running, task, replies, ready, stop, left,
          pending, accepting, prod, posts, box, worker, adapter, seen

Calls == INSTANCE RemoteCalls WITH Caller <- Coroutine
callVars == <<work, requests, scheduled, running, task, replies, ready, stop, left>>

Foreign == INSTANCE ForeignExecutor
foreignVars == <<pending, accepting, prod, posts, box, worker, adapter, seen>>
allVars == <<part, vars, callVars, foreignVars>>

MCInit == /\ part \in {"server", "calls", "foreign"}
          /\ Init /\ Calls!Init /\ Foreign!Init
(* Threads that are joined, and a Runtime destroyed, have nothing to do.   *)
Over == \/ part = "server" /\ main = "joined"
        \/ part = "calls" /\ left = Member
        \/ part = "foreign" /\ adapter = "destroyed"
MCNext ==
    \/ part = "server" /\ Next /\ UNCHANGED <<part, callVars, foreignVars>>
    \/ part = "calls" /\ Calls!Next /\ UNCHANGED <<part, vars, foreignVars>>
    \/ part = "foreign" /\ Foreign!Next /\ UNCHANGED <<part, vars, callVars>>
    \/ Over /\ UNCHANGED allVars

(* The fairness of the modules, of the one that runs.                      *)
ServerFairness == /\ WF_vars(part = "server" /\ MainStep)
                  /\ \A w \in Worker : WF_vars(part = "server" /\ WorkerStep(w))
                  /\ \A p \in Caller : WF_vars(part = "server" /\ StopOne(p))
ForeignFairness == /\ WF_foreignVars(part = "foreign" /\ Foreign!WorkerStep)
                   /\ WF_foreignVars(part = "foreign" /\ Foreign!AdapterStep)
MCSpec == MCInit /\ [][MCNext]_allVars /\ ServerFairness /\ ForeignFairness

(* Start, shutdown and exit code: see TeardownInOrder, StartIsAllOrNothing *)
(* and ExitCodeTells of Lifecycle.                                         *)
LifecycleInOrder == part = "server" =>
    TeardownInOrder /\ StartIsAllOrNothing /\ ExitCodeTells
(* A caller's frame outlives the other worker's use of it, and so does the *)
(* executor's state; an answer is on the way once: see WorkOutlivesUse of  *)
(* RemoteCalls and IdleIsIdle of ForeignExecutor.                          *)
CallsAreSafe == /\ part = "calls" => Calls!WorkOutlivesUse
                /\ part = "foreign" => Foreign!IdleIsIdle
(* Every thread ends after a stop request or a failure (StopEnds of        *)
(* Lifecycle), and WaitUntilIdle returns (WaitReturns of ForeignExecutor). *)
EverythingEnds == StopEnds /\ Foreign!WaitReturns
=============================================================================
