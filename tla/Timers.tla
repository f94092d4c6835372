------------------------------- MODULE Timers -------------------------------
(***************************************************************************)
(* One cancellable timer of a worker: the awaiting coroutine, the ring     *)
(* that fires or stops it, and the handles that cancel it from the owning  *)
(* worker or from any other thread.                                        *)
(***************************************************************************)

VARIABLE timer   \* [pc, cancelled_, asked: the ring was asked to cancel,
                 \*  result_, outcome]; told: history, Cancel before the resume

NewTimer == [pc |-> "created", cancelled |-> FALSE, told |-> FALSE,
             asked |-> FALSE, result |-> "none", outcome |-> "none"]

Init == timer = NewTimer

TimerStep(t) == timer' = t

(* CancellableTimerAwaitable::await_suspend; SubmitTimeout may be refused. *)
AwaitTimer ==
    /\ timer.pc = "created"
    /\ \/ timer.cancelled /\ TimerStep([timer EXCEPT !.pc = "resumed", !.outcome = "cancelled"])
       \/ ~timer.cancelled /\ TimerStep([timer EXCEPT !.pc = "armed"])
       \/ ~timer.cancelled /\ TimerStep([timer EXCEPT !.pc = "resumed", !.outcome = "error"])

(* TimerCancelHandle::Cancel: the flag, from any thread; then, on the      *)
(* owning worker and before the completion, a cancel request to the ring.  *)
Cancel(owner) ==
    TimerStep([timer EXCEPT !.cancelled = TRUE,
                            !.told = @ \/ timer.pc # "resumed",
                            !.asked = @ \/ (owner /\ timer.pc = "armed")])

(* CancellableTimerState::Complete: the deadline, or the request to cancel. *)
TimerCompletes ==
    /\ timer.pc = "armed"
    /\ \E r \in {"fired", "error"} \cup (IF timer.asked THEN {"stopped"} ELSE {}) :
         TimerStep([timer EXCEPT !.pc = "ready", !.result = r])

(* Mutant: the result is looked at first.                                *)
ResultFirst == IF timer.result = "fired" THEN "ok"
               ELSE IF timer.cancelled THEN "cancelled" ELSE "error"

(* await_resume: the flag before the result *)
Outcome == IF timer.cancelled THEN "cancelled"
           ELSE IF timer.result = "fired" THEN "ok" ELSE "error"
ResumeTimer == /\ timer.pc = "ready"
               /\ TimerStep([timer EXCEPT !.pc = "resumed", !.outcome = Outcome])
RestartTimer == timer.pc = "resumed" /\ TimerStep(NewTimer)

Next == \/ AwaitTimer \/ TimerCompletes \/ ResumeTimer \/ RestartTimer
        \/ \E owner \in BOOLEAN : Cancel(owner)

(* A Cancel that came before the awaiting coroutine resumed always wins:   *)
(* the timer never reports that it fired, nor an error of the request the  *)
(* cancel stopped.                                                         *)
CancelIsFinal == timer.pc = "resumed" /\ timer.told => timer.outcome = "cancelled"
=============================================================================
