--------------------------- MODULE ForeignExecutor --------------------------
(***************************************************************************)
(* The ForeignExecutor of one worker (runtime/foreign_executor.h and .cpp):*)
(* threads that are not workers post notifications, an adapter that has    *)
(* stopped them waits until all have run, and only then stops and destroys *)
(* the Runtime.  CrossCore models how a notification reaches the worker.   *)
(***************************************************************************)
EXTENDS Integers, FiniteSets

CONSTANTS Producer, MaxPosts, None   \* MaxPosts bounds the posts of one producer

VARIABLES
  pending, accepting,   \* pending_ and accepting_
  prod,                 \* where a producer is in Notify or Resume
  posts,                \* what it may still post
  box,                  \* accepted by the mailbox, by producer and post
  worker,               \* the notification the worker runs, with its step
  adapter,              \* where the adapter is
  seen                  \* the value WaitUntilIdle has read

foreignVars == <<pending, accepting, prod, posts, box, worker, adapter, seen>>

Idle == [item |-> None, at |-> "none"]
Init == /\ pending = 0 /\ accepting = TRUE
        /\ prod = [p \in Producer |-> "idle"] /\ posts = [p \in Producer |-> MaxPosts]
        /\ box = {} /\ worker = Idle /\ adapter = "posting" /\ seen = 0

Goto(p, l) == prod' = [prod EXCEPT ![p] = l]
At(p, l) == prod[p] = l /\ adapter # "destroyed"

-----------------------------------------------------------------------------
(* Notify and Resume: look at accepting_...                                *)
Check(p) == /\ At(p, "idle") /\ posts[p] > 0 /\ accepting
            /\ Goto(p, "checked")
            /\ UNCHANGED <<pending, accepting, posts, box, worker, adapter, seen>>
(* ... count...                                                            *)
Count(p) == /\ At(p, "checked") /\ pending' = pending + 1 /\ Goto(p, "counted")
            /\ UNCHANGED <<accepting, posts, box, worker, adapter, seen>>
(* ... and post.  The enqueue may fail; then the count is taken back.      *)
PostForeignNotification(p) ==
    /\ At(p, "counted") /\ posts' = [posts EXCEPT ![p] = @ - 1]
    /\ \/ box' = box \cup {<<p, posts[p]>>} /\ Goto(p, "idle")
       \/ UNCHANGED box /\ Goto(p, "undo")
    /\ UNCHANGED <<pending, accepting, worker, adapter, seen>>

(* CompleteForeignNotification: only the last one wakes the waiter, in a   *)
(* step of its own.                                                        *)
Wakes(old) == old = 1
Undo(p) == /\ At(p, "undo") /\ pending' = pending - 1
           /\ Goto(p, IF Wakes(pending) THEN "notify" ELSE "idle")
           /\ UNCHANGED <<accepting, posts, box, worker, adapter, seen>>
notify_all == adapter' = IF adapter = "blocked" THEN "load" ELSE adapter
NotifyAfterUndo(p) ==
    /\ At(p, "notify") /\ Goto(p, "idle") /\ notify_all
    /\ UNCHANGED <<pending, accepting, posts, box, worker, seen>>

-----------------------------------------------------------------------------
(* The worker: Invoke runs the callable, or EnqueueContinuation queues the *)
(* coroutine, and completes it.                                            *)
Take(n) ==
    /\ worker = Idle /\ n \in box /\ adapter \notin {"joined", "destroyed"}
    /\ box' = box \ {n} /\ worker' = [item |-> n, at |-> "run"]
    /\ UNCHANGED <<pending, accepting, prod, posts, adapter, seen>>

Invoke ==
    /\ worker.at = "run" /\ worker' = [worker EXCEPT !.at = "done"]
    /\ UNCHANGED <<pending, accepting, prod, posts, box, adapter, seen>>
Complete ==
    /\ worker.at = "done" /\ pending' = pending - 1
    /\ worker' = IF Wakes(pending) THEN [worker EXCEPT !.at = "notify"] ELSE Idle
    /\ UNCHANGED <<accepting, prod, posts, box, adapter, seen>>
NotifyAll ==
    /\ worker.at = "notify" /\ worker' = Idle /\ notify_all
    /\ UNCHANGED <<pending, accepting, prod, posts, box, seen>>

-----------------------------------------------------------------------------
(* The adapter has stopped its producers and calls WaitUntilIdle.          *)
StopProducers ==
    /\ adapter = "posting" /\ \A p \in Producer : prod[p] = "idle"
    /\ posts' = [p \in Producer |-> 0] /\ adapter' = "load"
    /\ UNCHANGED <<pending, accepting, prod, box, worker, seen>>
Load == /\ adapter = "load" /\ seen' = pending
        /\ adapter' = IF pending = 0 THEN "idle" ELSE "wait"
        /\ UNCHANGED <<pending, accepting, prod, posts, box, worker>>
(* pending_.wait(seen) blocks unless the value has changed.                *)
Wait == /\ adapter = "wait" /\ adapter' = IF pending = seen THEN "blocked" ELSE "load"
        /\ UNCHANGED <<pending, accepting, prod, posts, box, worker, seen>>
(* RequestStop; the worker leaves its loop and is joined; the Runtime goes.*)
RequestStop ==
    /\ adapter = "idle" /\ accepting' = FALSE /\ adapter' = "stopped"
    /\ UNCHANGED <<pending, prod, posts, box, worker, seen>>
Join == /\ adapter = "stopped" /\ worker = Idle /\ adapter' = "joined"
        /\ UNCHANGED <<pending, accepting, prod, posts, box, worker, seen>>
Destroy == /\ adapter = "joined" /\ adapter' = "destroyed"
           /\ UNCHANGED <<pending, accepting, prod, posts, box, worker, seen>>

ProducerStep(p) == \/ Check(p) \/ Count(p) \/ PostForeignNotification(p)
                   \/ Undo(p) \/ NotifyAfterUndo(p)
WorkerStep == (\E n \in box : Take(n)) \/ Invoke \/ Complete \/ NotifyAll
AdapterStep == Load \/ Wait \/ RequestStop \/ Join \/ Destroy
Next == (\E p \in Producer : ProducerStep(p)) \/ WorkerStep \/ AdapterStep \/ StopProducers

Fairness == WF_foreignVars(WorkerStep) /\ WF_foreignVars(AdapterStep)

-----------------------------------------------------------------------------
Counted == {p \in Producer : prod[p] \in {"counted", "undo"}}

(* pending_ counts what was announced and has not completed; when          *)
(* WaitUntilIdle has returned everything accepted has run, and nobody uses *)
(* the state of the executor, not even to wake its waiter, once the        *)
(* Runtime is destroyed.                                                   *)
IdleIsIdle ==
    /\ pending = Cardinality(Counted) + Cardinality(box)
                 + (IF worker.at \in {"run", "done"} THEN 1 ELSE 0)
    /\ adapter \in {"idle", "stopped", "joined", "destroyed"} =>
         box = {} /\ worker.at \notin {"run", "done"}
    /\ adapter = "destroyed" => worker = Idle /\ \A p \in Producer : prod[p] = "idle"

(* WaitUntilIdle returns, although only the completion that reaches zero   *)
(* wakes it and it may have read any value before.                         *)
WaitReturns == adapter = "load" ~> adapter = "destroyed"
=============================================================================
