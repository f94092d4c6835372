-------------------------- MODULE CoroutineBarrier --------------------------
(***************************************************************************)
(* CoroutineBarrier (include/bycorf/runtime/sync.h).  Arrive and Abort     *)
(* change the state under a std::mutex; the waiters they take out of it    *)
(* are then resumed one after another, each on its own worker.  A worker   *)
(* is busy while it resumes others, so a participant of the same worker    *)
(* runs only afterwards.                                                   *)
(***************************************************************************)
EXTENDS Naturals, FiniteSets

CONSTANTS
    Participant,
    Worker,
    Home,           \* the worker of each participant
    participants_   \* the number the barrier was built for: all of them

VARIABLES
    state,      \* of the participants: "before", "waiting", "posted",
                \* "ready", "after"
    arrived, completed, failed,   \* failed: status_ is not OK
    waiters,
    waking,     \* per worker: waiters it has still to resume
    result      \* what await_resume returned: "none", "ok", "failed"

vars == <<state, arrived, completed, failed, waiters, waking, result>>

Init ==
    /\ state = [p \in Participant |-> "before"]
    /\ arrived = 0 /\ completed = FALSE /\ failed = FALSE
    /\ waiters = {} /\ waking = [w \in Worker |-> {}]
    /\ result = [p \in Participant |-> "none"]

Idle(w) == waking[w] = {}

(* Mutant: an abort that comes after the last arrival is not reported.     *)
StatusOfArrival ==
    IF failed /\ arrived < participants_ THEN "failed" ELSE "ok"

Status == IF failed THEN "failed" ELSE "ok"

(* Arrive after completion, or abortion, does not suspend...               *)
ArriveLate(p) ==
    /\ state[p] = "before" /\ Idle(Home[p]) /\ completed
    /\ state' = [state EXCEPT ![p] = "after"]
    /\ result' = [result EXCEPT ![p] = Status]
    /\ UNCHANGED <<arrived, completed, failed, waiters, waking>>

(* Mutant: the last but one opens the barrier.                             *)
OpensEarly(n) == n + 1 = participants_

Opens(n) == n = participants_

(* Mutant: the last to arrive suspends without being in the list.          *)
ArriveUnlisted(p) ==
    /\ state[p] = "before" /\ Idle(Home[p]) /\ ~completed
    /\ state' = [state EXCEPT ![p] = "waiting"]
    /\ arrived' = arrived + 1
    /\ IF Opens(arrived + 1)
       THEN /\ completed' = TRUE /\ waiters' = {}
            /\ waking' = [waking EXCEPT ![Home[p]] = waiters]
       ELSE /\ waiters' = waiters \cup {p}
            /\ UNCHANGED <<completed, waking>>
    /\ UNCHANGED <<failed, result>>

(* ... before it, the last to arrive resumes all.                          *)
Arrive(p) ==
    /\ state[p] = "before" /\ Idle(Home[p]) /\ ~completed
    /\ state' = [state EXCEPT ![p] = "waiting"]
    /\ arrived' = arrived + 1
    /\ IF Opens(arrived + 1)
       THEN /\ completed' = TRUE /\ waiters' = {}
            /\ waking' = [waking EXCEPT ![Home[p]] = waiters \cup {p}]
       ELSE /\ waiters' = waiters \cup {p}
            /\ UNCHANGED <<completed, waking>>
    /\ UNCHANGED <<failed, result>>

(* Mutant: who waits already is not resumed.                               *)
AbortKeeps(w) ==
    /\ Idle(w) /\ ~failed
    /\ failed' = TRUE /\ completed' = TRUE
    /\ UNCHANGED <<state, arrived, waiters, waking, result>>

(* Abort, on worker w.                                                     *)
Abort(w) ==
    /\ Idle(w) /\ ~failed
    /\ failed' = TRUE /\ completed' = TRUE
    /\ waking' = [waking EXCEPT ![w] = waiters] /\ waiters' = {}
    /\ UNCHANGED <<state, arrived, result>>

(* Wake: one waiter is enqueued here or posted to its worker.              *)
Wake(w) ==
    \E p \in waking[w] :
        /\ waking' = [waking EXCEPT ![w] = @ \ {p}]
        /\ state' = [state EXCEPT ![p] = IF Home[p] = w THEN "ready"
                                         ELSE "posted"]
        /\ UNCHANGED <<arrived, completed, failed, waiters, result>>

ResumeRemote(p) ==
    /\ state[p] = "posted" /\ Idle(Home[p])
    /\ state' = [state EXCEPT ![p] = "ready"]
    /\ UNCHANGED <<arrived, completed, failed, waiters, waking, result>>

(* Awaiter::await_resume reads the status when the coroutine runs.         *)
Resume(p) ==
    /\ state[p] = "ready" /\ Idle(Home[p])
    /\ state' = [state EXCEPT ![p] = "after"]
    /\ result' = [result EXCEPT ![p] = Status]
    /\ UNCHANGED <<arrived, completed, failed, waiters, waking>>

Next ==
    \/ \E p \in Participant :
          ArriveLate(p) \/ Arrive(p) \/ ResumeRemote(p) \/ Resume(p)
    \/ \E w \in Worker : Abort(w) \/ Wake(w)

Spec == Init /\ [][Next]_vars

(* Workers run what is ready and go on resuming.                           *)
Fairness ==
    /\ \A p \in Participant : SF_vars(ResumeRemote(p)) /\ SF_vars(Resume(p))
    /\ \A w \in Worker : WF_vars(Wake(w))

-----------------------------------------------------------------------------
(* Nobody passes the barrier with OK before everybody has arrived.         *)
PassesTogether ==
    (\E p \in Participant : result[p] = "ok") =>
        \A p \in Participant : state[p] # "before"

(* A participant that is suspended is waiting in the barrier, or in the    *)
(* hands of exactly one worker that will resume it: it is neither          *)
(* forgotten nor resumed twice.                                            *)
ResumedOnce ==
    \A p \in Participant :
        state[p] = "waiting" <=>
            \/ p \in waiters
            \/ \E w \in Worker : p \in waking[w]

(* Once aborted, the barrier fails everybody who has not passed it yet.    *)
AbortIsFinal ==
    [][\A p \in Participant :
          failed /\ result'[p] # result[p] => result'[p] = "failed"]_vars

(* Everybody who waits is resumed when all arrived or somebody aborted.    *)
BarrierOpens ==
    \A p \in Participant :
        state[p] = "waiting" /\ (failed \/ arrived = participants_)
            ~> state[p] = "after"
=============================================================================
