------------------------------ MODULE BsdWork -------------------------------
(***************************************************************************)
(* Deferred work of one FreeBSD worker: callouts in a list sorted by time, *)
(* tasks in a linked list with a tail pointer, and timeout tasks, a callout *)
(* that queues a task.  bycorf_bsd_poll runs what is due, at most so many  *)
(* at a time, and a callback may call anything here; bycorf_bsd_deadline_ns *)
(* bounds the sleep of the worker.                                         *)
(***************************************************************************)
EXTENDS Naturals, Sequences, SequencesExt

CONSTANTS Task,       \* each with a callout, the timeout task
          MaxTime, MaxCallouts, MaxTasks, Null

VARIABLES
  now,       \* the clock
  pending,   \* callouts: Seq([c, time])
  next,      \* [Task \cup {Null} -> Task \cup {Null}]: entry->next; next[Null] is `head'
  tail,      \* the link the next entry is stored in, by its entry; Null is &head
  ta_pending,\* [Task -> BOOLEAN]: ta_pending # 0
  poll       \* [at, now, n]: where bycorf_bsd_poll is, its sample, its count

workVars == <<now, pending, next, tail, ta_pending, poll>>

NotPolling == [at |-> "out", now |-> 0, n |-> 0]

Init == /\ now = 0 /\ pending = <<>> /\ tail = Null
        /\ next = [t \in Task \cup {Null} |-> Null]
        /\ ta_pending = [t \in Task |-> FALSE] /\ poll = NotPolling

Tick == /\ now < MaxTime /\ now' = now + 1
        /\ UNCHANGED <<pending, next, tail, ta_pending, poll>>

-----------------------------------------------------------------------------
(* Callouts *)
Without(c) == SelectSeq(pending, LAMBDA e : e.c # c)
(* callout_reset_sbt_on: before the first later one, after its equals. *)
Insert(q, e) == LET at == Len(SelectSeq(q, LAMBDA x : x.time <= e.time)) IN
                SubSeq(q, 1, at) \o <<e>> \o SubSeq(q, at + 1, Len(q))
Reset(c, delay) ==
    /\ now + delay <= MaxTime + 1
    /\ pending' = Insert(Without(c), [c |-> c, time |-> now + delay])
    /\ UNCHANGED <<now, next, tail, ta_pending, poll>>

(* bycorf_bsd_deadline_ns: at once with a task, else the first callout. *)
Deadline == IF next[Null] # Null THEN now
            ELSE IF pending = <<>> THEN MaxTime + 2 ELSE Head(pending).time

-----------------------------------------------------------------------------
(* Tasks *)

(* taskqueue_enqueue: queued once, however often; malloc may fail. *)
Enqueued(t) ==
    IF ta_pending[t] THEN UNCHANGED <<next, tail, ta_pending>>
    ELSE \/ /\ next' = [next EXCEPT ![tail] = t, ![t] = Null]
            /\ tail' = t
            /\ ta_pending' = [ta_pending EXCEPT ![t] = TRUE]
         \/ UNCHANGED <<next, tail, ta_pending>>
Enqueue(t) == Enqueued(t) /\ UNCHANGED <<now, pending, poll>>

(* Mutant: the tail pointer stays on the cancelled entry.                *)
CancelLeavesTail(t) ==
    IF ~ta_pending[t] THEN UNCHANGED <<next, tail, ta_pending>>
    ELSE LET link == CHOOSE l \in DOMAIN next : next[l] = t IN
         /\ next' = [next EXCEPT ![link] = next[t], ![t] = Null]
         /\ UNCHANGED tail
         /\ ta_pending' = [ta_pending EXCEPT ![t] = FALSE]

(* taskqueue_cancel: unlink, and move the tail pointer off the entry. *)
Cancelled(t) ==
    IF ~ta_pending[t] THEN UNCHANGED <<next, tail, ta_pending>>
    ELSE LET link == CHOOSE l \in DOMAIN next : next[l] = t IN
         /\ next' = [next EXCEPT ![link] = next[t], ![t] = Null]
         /\ tail' = IF tail = t THEN link ELSE tail
         /\ ta_pending' = [ta_pending EXCEPT ![t] = FALSE]
(* taskqueue_cancel_timeout: the callout first, then the task. *)
CancelTimeout(t) == /\ pending' = Without(t) /\ Cancelled(t) /\ UNCHANGED <<now, poll>>

-----------------------------------------------------------------------------
(* bycorf_bsd_poll: callbacks run between its steps. *)
StartPoll == /\ poll.at = "out"
             /\ poll' = [at |-> "callouts", now |-> now, n |-> 0]
             /\ UNCHANGED <<now, pending, next, tail, ta_pending>>

(* callout_poll: the first callout due at the sample.  A function other    *)
(* than timeout_task_ready does as it likes in the steps that follow.      *)
timeout_task_ready(c) == Enqueued(c)
CalloutDue == poll.n < MaxCallouts /\ pending # <<>> /\ Head(pending).time <= poll.now
Fire == /\ poll.at = "callouts" /\ CalloutDue
        /\ pending' = Tail(pending) /\ poll' = [poll EXCEPT !.n = @ + 1]
        /\ timeout_task_ready(Head(pending).c) /\ UNCHANGED now
CalloutsDone == /\ poll.at = "callouts" /\ ~CalloutDue
                /\ poll' = [poll EXCEPT !.at = "tasks", !.n = 0]
                /\ UNCHANGED <<now, pending, next, tail, ta_pending>>

(* tasks_poll and execute_task: the first entry, its count taken before. *)
RunTask == /\ poll.at = "tasks" /\ poll.n < MaxTasks /\ next[Null] # Null
           /\ LET t == next[Null] IN
              /\ next' = [next EXCEPT ![Null] = next[t], ![t] = Null]
              /\ tail' = IF next[t] = Null THEN Null ELSE tail
              /\ ta_pending' = [ta_pending EXCEPT ![t] = FALSE]
           /\ poll' = [poll EXCEPT !.n = @ + 1]
           /\ UNCHANGED <<now, pending>>
EndPoll == /\ poll.at = "tasks" /\ (poll.n = MaxTasks \/ next[Null] = Null)
           /\ poll' = NotPolling
           /\ UNCHANGED <<now, pending, next, tail, ta_pending>>

Next == \/ Tick \/ StartPoll \/ Fire \/ CalloutsDone \/ RunTask \/ EndPoll
        \/ \E t \in Task : Enqueue(t) \/ CancelTimeout(t)
        \/ \E t \in Task, delay \in 0 .. MaxTime : Reset(t, delay)

(* No work is lost or slept through, whatever a callback cancels, queues   *)
(* or re-arms: the entries reachable from head are exactly the tasks       *)
(* marked pending and tail is the last link; and no callout, however it    *)
(* was re-armed, is due before the deadline the worker sleeps to.          *)
RECURSIVE From(_)
From(l) == IF next[l] = Null THEN <<l>> ELSE <<l>> \o From(next[l])
NoWorkIsLost ==
    /\ ToSet(Tail(From(Null))) = {t \in Task : ta_pending[t]}
    /\ tail = Last(From(Null))
    /\ \A k \in DOMAIN pending : next[Null] = Null => Deadline <= pending[k].time
=============================================================================
