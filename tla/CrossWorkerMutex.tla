-------------------------- MODULE CrossWorkerMutex --------------------------
(***************************************************************************)
(* CrossWorkerMutex (include/bycorf/runtime/sync.h): a FIFO mutex for      *)
(* coroutines of several workers.  A worker runs one coroutine at a time;  *)
(* the queue guard is a spin lock that a worker holds for a few            *)
(* instructions.  A coroutine that owns the mutex may suspend, so other    *)
(* coroutines of its worker run meanwhile.                                 *)
(***************************************************************************)
EXTENDS Naturals, Sequences, FiniteSets

CONSTANTS
    Coroutine,
    Worker,
    Home,       \* the worker of each coroutine
    None

ASSUME HomeAssumption == Home \in [Coroutine -> Worker]
ASSUME NoneAssumption == None \notin Coroutine

VARIABLES
    state,      \* per coroutine
    running,    \* per worker: the coroutine it runs
    guard,      \* queue_lock_: the coroutine whose worker holds it
    held,
    waiters,    \* waiters_head_ ... waiters_tail_
    wake        \* per coroutine in Unlock: the waiter it took

vars == <<state, running, guard, held, waiters, wake>>

Init ==
    /\ state = [c \in Coroutine |-> "idle"]
    /\ running = [w \in Worker |-> None]
    /\ guard = None /\ held = FALSE /\ waiters = <<>>
    /\ wake = [c \in Coroutine |-> None]

Runs(c) == running[Home[c]] = c
CanRun(c) == running[Home[c]] = None
Start(c) == running' = [running EXCEPT ![Home[c]] = c]
Suspend(c) == running' = [running EXCEPT ![Home[c]] = None]
Move(c, s) == state' = [state EXCEPT ![c] = s]

(* co_await Lock(worker).                                                  *)
Lock(c) ==
    /\ state[c] = "idle" /\ CanRun(c)
    /\ Move(c, "acquire") /\ Start(c)
    /\ UNCHANGED <<guard, held, waiters, wake>>

(* LockQueue.                                                              *)
LockQueue(c) ==
    /\ state[c] \in {"acquire", "synchronize", "unlock"} /\ Runs(c)
    /\ guard = None
    /\ guard' = c
    /\ UNCHANGED <<state, running, held, waiters, wake>>

(* AcquireOrQueue, with its UnlockQueue: the mutex is free...              *)
Acquire(c) ==
    /\ state[c] = "acquire" /\ guard = c /\ ~held
    /\ held' = TRUE /\ guard' = None
    /\ Move(c, "owner") /\ Suspend(c)
    /\ UNCHANGED <<waiters, wake>>

(* ... or it is not.                                                       *)
QueueWaiter(c) ==
    /\ state[c] = "acquire" /\ guard = c /\ held
    /\ waiters' = Append(waiters, c) /\ guard' = None
    /\ Move(c, "queued") /\ Suspend(c)
    /\ UNCHANGED <<held, wake>>

(* The guard of the owner is destroyed: Unlock.                            *)
Unlock(c) ==
    /\ state[c] = "owner" /\ CanRun(c)
    /\ Move(c, "unlock") /\ Start(c)
    /\ UNCHANGED <<guard, held, waiters, wake>>

(* Mutant: the mutex is freed without a look at the queue.                 *)
ReleaseAnyway(c) ==
    /\ state[c] = "unlock" /\ guard = c
    /\ held' = FALSE /\ guard' = None
    /\ Move(c, "idle") /\ Suspend(c)
    /\ UNCHANGED <<waiters, wake>>

(* Nobody waits.                                                           *)
Release(c) ==
    /\ state[c] = "unlock" /\ guard = c /\ waiters = <<>>
    /\ held' = FALSE /\ guard' = None
    /\ Move(c, "idle") /\ Suspend(c)
    /\ UNCHANGED <<waiters, wake>>

(* Mutant: the mutex is free until the waiter runs.                        *)
HandOffFree(c) ==
    /\ state[c] = "unlock" /\ guard = c /\ waiters # <<>>
    /\ wake' = [wake EXCEPT ![c] = Head(waiters)]
    /\ waiters' = Tail(waiters) /\ guard' = None /\ held' = FALSE
    /\ Move(c, "wake")
    /\ UNCHANGED running

(* Ownership goes to the first waiter; held_ stays set.                    *)
HandOff(c) ==
    /\ state[c] = "unlock" /\ guard = c /\ waiters # <<>>
    /\ wake' = [wake EXCEPT ![c] = Head(waiters)]
    /\ waiters' = Tail(waiters) /\ guard' = None
    /\ Move(c, "wake")
    /\ UNCHANGED <<running, held>>

(* The waiter is enqueued on this worker or posted to its own.             *)
Wake(c) ==
    /\ state[c] = "wake"
    /\ state' = [state EXCEPT ![c] = "idle",
                   ![wake[c]] = IF Home[wake[c]] = Home[c] THEN "ready"
                                ELSE "posted"]
    /\ wake' = [wake EXCEPT ![c] = None]
    /\ Suspend(c)
    /\ UNCHANGED <<guard, held, waiters>>

(* ResumeRemote, in a drain of the waiter's worker.                        *)
ResumeRemote(c) ==
    /\ state[c] = "posted" /\ CanRun(c)
    /\ Move(c, "ready")
    /\ UNCHANGED <<running, guard, held, waiters, wake>>

(* LockAwaiter::await_resume of a queued owner.                            *)
Resume(c) ==
    /\ state[c] = "ready" /\ CanRun(c)
    /\ Move(c, "synchronize") /\ Start(c)
    /\ UNCHANGED <<guard, held, waiters, wake>>

(* Mutant: the queue guard is kept.                                        *)
SynchronizeKeeps(c) ==
    /\ state[c] = "synchronize" /\ guard = c
    /\ Move(c, "owner") /\ Suspend(c)
    /\ UNCHANGED <<guard, held, waiters, wake>>

SynchronizeAcquisition(c) ==
    /\ state[c] = "synchronize" /\ guard = c
    /\ guard' = None
    /\ Move(c, "owner") /\ Suspend(c)
    /\ UNCHANGED <<held, waiters, wake>>

Step(c) ==
    \/ Acquire(c) \/ QueueWaiter(c) \/ Release(c) \/ HandOff(c) \/ Wake(c)
    \/ SynchronizeAcquisition(c)
Schedule(c) == Unlock(c) \/ ResumeRemote(c) \/ Resume(c)

Next == \E c \in Coroutine : Lock(c) \/ LockQueue(c) \/ Step(c) \/ Schedule(c)

Spec == Init /\ [][Next]_vars

(* Workers run what is ready, owners unlock, and a spinning worker gets    *)
(* the guard in the end.                                                   *)
Fairness ==
    \A c \in Coroutine : /\ WF_vars(Step(c)) /\ SF_vars(Schedule(c))
                         /\ SF_vars(LockQueue(c))

-----------------------------------------------------------------------------
State == {"idle", "acquire", "queued", "owner", "unlock", "wake", "posted",
          "ready", "synchronize"}

TypeOK ==
    /\ state \in [Coroutine -> State]
    /\ running \in [Worker -> Coroutine \cup {None}]
    /\ guard \in Coroutine \cup {None} /\ held \in BOOLEAN
    /\ waiters \in Seq(Coroutine)
    /\ wake \in [Coroutine -> Coroutine \cup {None}]

(* The coroutines that own the mutex, or to which it is being handed.      *)
Owner == {c \in Coroutine :
            \/ state[c] \in {"owner", "unlock", "posted", "ready",
                             "synchronize"}
            \/ \E d \in Coroutine : wake[d] = c}

(* No two coroutines own the mutex, wherever they run and however far a    *)
(* handoff has come; held_ is set exactly while there is an owner.         *)
MutualExclusion ==
    /\ \A c, d \in Owner : c = d
    /\ held <=> Owner # {}

(* Waiters are the suspended coroutines, each once, and the mutex is never *)
(* free while one waits: a newcomer cannot overtake it.                    *)
NoOvertaking ==
    /\ waiters # <<>> => held
    /\ \A i, j \in 1..Len(waiters) : waiters[i] = waiters[j] => i = j
    /\ \A i \in 1..Len(waiters) : state[waiters[i]] = "queued"

(* Who asks for the mutex gets it, although workers spin, suspend owners   *)
(* and hand over by messages.                                              *)
EveryLockIsGranted ==
    \A c \in Coroutine : state[c] = "acquire" ~> state[c] = "owner"
=============================================================================
