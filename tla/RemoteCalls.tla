---------------------------- MODULE RemoteCalls -----------------------------
(***************************************************************************)
(* SubmitTo and SubmitTaskTo (runtime/cross_core.h): a coroutine runs a    *)
(* function or a task on another worker and resumes on its own.  Only a    *)
(* pointer travels: the RemoteWork lives in the caller's frame, which must *)
(* outlive every use of it by the other thread.  The messages between the  *)
(* workers are those of Mailbox: each is delivered once, in any order.     *)
(* A SubmitTo to the caller's own worker runs inline and changes nothing.  *)
(***************************************************************************)
EXTENDS FiniteSets

CONSTANTS Member, Caller, Home, None   \* workers; coroutines, with a worker each

VARIABLES
  work,       \* the RemoteWork in a caller's frame, or None
  requests,   \* [Member -> SUBSET Caller]: posted to a worker,
  scheduled,  \* ... in its foreground_ or background_remote_work_,
  running,    \* ... and inside its RunRemoteWork
  task,       \* the worker that holds the frame of Run for a caller, or None
  replies, ready,   \* replies on their way; callers in their ready queues
  stop, left        \* workers asked to stop; those that left their loops

callVars == <<work, requests, scheduled, running, task, replies, ready, stop, left>>

Nothing == [w \in Member |-> {}]
Init == /\ work = [c \in Caller |-> None] /\ task = [c \in Caller |-> None]
        /\ requests = Nothing /\ scheduled = Nothing /\ replies = Nothing
        /\ running = [w \in Member |-> None]
        /\ ready = {} /\ stop = {} /\ left = {}

InLoop(w) == w \notin left
Free(w) == InLoop(w) /\ running[w] = None
Live(c) == work[c] # None
Deferred(c) == Live(c) /\ work[c].reply_deferred
Add(box, w, c) == [box EXCEPT ![w] = @ \cup {c}]
Remove(box, w, c) == [box EXCEPT ![w] = @ \ {c}]

(* The other thread stores the result through the pointer.                 *)
Stored(c) == IF Live(c) THEN [work EXCEPT ![c].result = TRUE] ELSE work

-----------------------------------------------------------------------------
(* Mutant: the task runs at once, and replies from inside Start.           *)
StartInline(wk, c, w) ==
    /\ work' = [wk EXCEPT ![c].reply_deferred = TRUE, ![c].result = TRUE]
    /\ replies' = Add(replies, Home[c], c)
    /\ UNCHANGED task

(* SubmitTaskAwaiter::Start: Spawn queues the frame of Run, or destroys it *)
(* when the worker stops.                                                  *)
Start(wk, c, w) ==
    /\ work' = [wk EXCEPT ![c].reply_deferred = TRUE]
    /\ task' = IF w \in stop THEN task ELSE [task EXCEPT ![c] = w]
    /\ UNCHANGED replies

Awaited(kind) == [kind |-> kind, reply_deferred |-> FALSE, result |-> FALSE]

(* await_suspend of either awaiter.                                        *)
Submit(c, kind, w) ==
    LET wk == [work EXCEPT ![c] = Awaited(kind)] IN
    /\ Free(Home[c]) /\ ~Live(c)
    /\ IF w = Home[c]
       THEN kind = "task" /\ Start(wk, c, w) /\ UNCHANGED requests
       ELSE work' = wk /\ requests' = Add(requests, w, c) /\ UNCHANGED <<task, replies>>
    /\ UNCHANGED <<scheduled, running, ready, stop, left>>

(* schedule_request and schedule_reply of DrainCrossCoreImpl.              *)
ScheduleRequest(w, c) ==
    /\ Free(w) /\ c \in requests[w]
    /\ requests' = Remove(requests, w, c) /\ scheduled' = Add(scheduled, w, c)
    /\ UNCHANGED <<work, running, task, replies, ready, stop, left>>
ScheduleReply(w, c) ==
    /\ Free(w) /\ c \in replies[w]
    /\ replies' = Remove(replies, w, c) /\ ready' = ready \cup {c}
    /\ UNCHANGED <<work, requests, scheduled, running, task, stop, left>>

(* RunRemoteWork: run_fn_, which is RunFn or Start...                      *)
RunFn(w, c) ==
    /\ Free(w) /\ c \in scheduled[w]
    /\ scheduled' = Remove(scheduled, w, c)
    /\ running' = [running EXCEPT ![w] = c]
    /\ IF work[c].kind = "fn"
       THEN work' = Stored(c) /\ UNCHANGED <<task, replies>>
       ELSE Start(work, c, w)
    /\ UNCHANGED <<requests, ready, stop, left>>
(* ... then reply_deferred_ is read again from the caller's frame.         *)
Reply(w) ==
    /\ running[w] # None /\ running' = [running EXCEPT ![w] = None]
    /\ replies' = IF Deferred(running[w]) THEN replies
                  ELSE Add(replies, Home[running[w]], running[w])
    /\ UNCHANGED <<work, requests, scheduled, task, ready, stop, left>>

(* The end of Run, after any suspensions: the result, then the reply.      *)
Run(w, c) ==
    /\ Free(w) /\ task[c] = w
    /\ task' = [task EXCEPT ![c] = None]
    /\ work' = Stored(c)
    /\ replies' = Add(replies, Home[c], c)
    /\ UNCHANGED <<requests, scheduled, running, ready, stop, left>>

(* The caller takes its result; the awaiter is gone with the expression.   *)
Resume(c) ==
    /\ Free(Home[c]) /\ c \in ready
    /\ ready' = ready \ {c} /\ work' = [work EXCEPT ![c] = None]
    /\ UNCHANGED <<requests, scheduled, running, task, replies, stop, left>>

-----------------------------------------------------------------------------
(* Workers are asked to stop one after another, leave their loops, and,    *)
(* when all have left, destroy the frames of callers and tasks.            *)
StopWorker(w) ==
    /\ w \notin stop /\ stop' = stop \cup {w}
    /\ UNCHANGED <<work, requests, scheduled, running, task, replies, ready, left>>
Leave(w) ==
    /\ Free(w) /\ w \in stop /\ left' = left \cup {w}
    /\ UNCHANGED <<work, requests, scheduled, running, task, replies, ready, stop>>
DestroyFrames(w) ==
    /\ left = Member /\ \E c \in Caller : (Home[c] = w /\ Live(c)) \/ task[c] = w
    /\ work' = [c \in Caller |-> IF Home[c] = w THEN None ELSE work[c]]
    /\ task' = [c \in Caller |-> IF task[c] = w THEN None ELSE task[c]]
    /\ UNCHANGED <<requests, scheduled, running, replies, ready, stop, left>>

Next == \/ \E c \in Caller : Resume(c)
        \/ \E c \in Caller, kind \in {"fn", "task"}, w \in Member : Submit(c, kind, w)
        \/ \E w \in Member, c \in Caller : \/ ScheduleRequest(w, c) \/ ScheduleReply(w, c)
                                          \/ RunFn(w, c) \/ Run(w, c)
        \/ \E w \in Member : Reply(w) \/ StopWorker(w) \/ Leave(w) \/ DestroyFrames(w)

-----------------------------------------------------------------------------
(* The places of worker w from which c's work will be used.                *)
Uses(w, c) == {p \in {"request", "scheduled", "running", "task", "reply", "ready"} :
                 \/ p = "request" /\ c \in requests[w]
                 \/ p = "scheduled" /\ c \in scheduled[w]
                 \/ p = "running" /\ running[w] = c
                 \/ p = "task" /\ task[c] = w
                 \/ p = "reply" /\ c \in replies[w]
                 \/ p = "ready" /\ w = Home[c] /\ c \in ready}
Answers(c) == {a \in Member \X {"request", "scheduled", "running", "task", "reply", "ready"} :
                 a[2] \in Uses(a[1], c) /\ ~(a[2] = "running" /\ Deferred(c))}

(* A caller's frame outlives every use of its RemoteWork by a worker that  *)
(* runs, RunRemoteWork's look at reply_deferred_ included; its answer is   *)
(* on the way exactly once, or nowhere if the target's Spawn destroyed     *)
(* it; and a caller that is resumed finds its result.  That what is on the *)
(* way arrives is DeliversEventually of MCCrossCore and ReadyRuns of       *)
(* Scheduler.                                                              *)
WorkOutlivesUse ==
    /\ \A w \in Member \ left, c \in Caller : Uses(w, c) # {} => Live(c)
    /\ \A c \in Caller : Live(c) =>
         \/ Cardinality(Answers(c)) = 1
         \/ Deferred(c) /\ Answers(c) = {} /\ stop # {}
    /\ \A c \in ready : Live(c) => work[c].result
=============================================================================
