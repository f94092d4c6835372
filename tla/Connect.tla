------------------------------ MODULE Connect -------------------------------
(***************************************************************************)
(* One outbound connection attempt: ConnectTcpCancellable, its             *)
(* CancellableConnectAwaitable and ConnectOperation (src/net/tcp_stream.cpp)*)
(* with the two io_uring operations they race, the connect and its         *)
(* deadline.  Both tags live in the coroutine frame.                       *)
(***************************************************************************)
EXTENDS Naturals

VARIABLES
    co,         \* the coroutine: "start", "suspended", "ready", "returned"
    op,         \* per operation: "none", "flight", "posted", "done"
    asked,      \* per operation: a cancel request was submitted
    res,        \* per operation: the result of its completion
    f,          \* the fields of ConnectOperation
    token,      \* the fields of TcpConnectCancellation
    fd,         \* "none", "open", "closed", "registered"
    status,     \* what ConnectTcpCancellable returned
    wakes       \* how often the coroutine was enqueued

vars == <<co, op, asked, res, f, token, fd, status, wakes>>

Op == {"connect", "timer"}

ConnectOperation(timed) ==
    [hasTimeout |-> timed, timeoutDone |-> ~timed, connectDone |-> FALSE,
     loserCancel |-> FALSE, resumed |-> FALSE, failed |-> FALSE]

Init ==
    /\ co = "start"
    /\ op = [o \in Op |-> "none"] /\ asked = [o \in Op |-> FALSE]
    /\ res = [o \in Op |-> "none"]
    /\ \E timed \in BOOLEAN : f = ConnectOperation(timed)
    /\ token = [cancelled |-> FALSE, bound |-> FALSE]
    /\ fd = "none" /\ status = "none" /\ wakes = 0

Outstanding(o) == op[o] \in {"flight", "posted"}

(* SubmitCancel reaches an operation the kernel has not finished.          *)
SubmitCancel(a, o) == [a EXCEPT ![o] = @ \/ op[o] = "flight"]

(* The coroutine starts: it is cancelled already, or the connect is        *)
(* rejected...                                                             *)
StartFails ==
    /\ co = "start"
    /\ \/ token.cancelled /\ status' = "cancelled" /\ fd' = fd
       \/ ~token.cancelled /\ status' = "error" /\ fd' = "closed"
    /\ co' = "returned"
    /\ UNCHANGED <<op, asked, res, f, token, wakes>>

(* ... or accepted with its deadline, if it has one ...                    *)
Start ==
    /\ co = "start" /\ ~token.cancelled
    /\ co' = "suspended" /\ fd' = "open"
    /\ op' = [op EXCEPT !["connect"] = "flight",
                        !["timer"] = IF f.hasTimeout THEN "flight" ELSE @]
    /\ token' = [token EXCEPT !.bound = TRUE]
    /\ UNCHANGED <<asked, res, f, status, wakes>>

(* ... or the deadline is rejected and the connect is pulled back.         *)
StartWithoutDeadline ==
    /\ co = "start" /\ ~token.cancelled /\ f.hasTimeout
    /\ co' = "suspended" /\ fd' = "open"
    /\ op' = [op EXCEPT !["connect"] = "flight"]
    /\ asked' = [asked EXCEPT !["connect"] = TRUE]
    /\ f' = [f EXCEPT !.timeoutDone = TRUE, !.failed = TRUE,
                      !.loserCancel = TRUE]
    /\ token' = [token EXCEPT !.bound = TRUE]
    /\ UNCHANGED <<res, status, wakes>>

(* TcpConnectCancellation::Cancel, at any time.                            *)
Cancel ==
    /\ ~token.cancelled
    /\ token' = [token EXCEPT !.cancelled = TRUE]
    /\ asked' = IF token.bound THEN SubmitCancel(asked, "connect") ELSE asked
    /\ UNCHANGED <<co, op, res, f, fd, status, wakes>>

(* Mutant: the loser is left to end by itself.                             *)
CancelNoLoser(o) == asked

CancelLoser(o) == IF f.loserCancel THEN asked ELSE SubmitCancel(asked, o)

(* Mutant: the first completion resumes the coroutine.                     *)
ResumesEarly(g) == (g.connectDone \/ g.timeoutDone) /\ ~g.resumed

Resumes(g) == g.connectDone /\ g.timeoutDone /\ ~g.resumed

MaybeResume(g) ==
    /\ f' = [g EXCEPT !.resumed = @ \/ Resumes(g)]
    /\ co' = IF Resumes(g) THEN "ready" ELSE co
    /\ wakes' = IF Resumes(g) THEN wakes + 1 ELSE wakes

(* ConnectOperation::Complete.                                             *)
Complete ==
    /\ op["connect"] = "posted"
    /\ op' = [op EXCEPT !["connect"] = "done"]
    /\ asked' = IF f.timeoutDone THEN asked ELSE CancelLoser("timer")
    /\ MaybeResume([f EXCEPT !.connectDone = TRUE,
                             !.loserCancel = @ \/ ~f.timeoutDone])
    /\ UNCHANGED <<res, token, fd, status>>

(* ConnectOperation::OnTimeoutComplete.                                    *)
OnTimeoutComplete ==
    /\ op["timer"] = "posted"
    /\ op' = [op EXCEPT !["timer"] = "done"]
    /\ asked' = IF f.connectDone THEN asked ELSE CancelLoser("connect")
    /\ MaybeResume([f EXCEPT !.timeoutDone = TRUE,
                             !.loserCancel = @ \/ ~f.connectDone])
    /\ UNCHANGED <<res, token, fd, status>>

(* CancellableConnectAwaitable::await_resume and ConnectOperation's.       *)
Result ==
    CASE token.cancelled -> "cancelled"
      [] f.failed -> "error"
      [] res["connect"] = "ok" -> "ok"
      [] res["connect"] = "cancelled" -> "deadline"
      [] OTHER -> "error"

(* Mutant: only an attempt that failed by itself closes the socket.        *)
ResumeLeaks ==
    /\ co = "ready"
    /\ co' = "returned" /\ status' = Result
    /\ fd' = CASE Result = "ok" -> "registered"
              [] Result = "cancelled" -> fd
              [] OTHER -> "closed"
    /\ token' = [token EXCEPT !.bound = FALSE]
    /\ UNCHANGED <<op, asked, res, f, wakes>>

(* The coroutine resumes, and registers the socket or closes it.           *)
Resume ==
    /\ co = "ready"
    /\ co' = "returned" /\ status' = Result
    /\ fd' = IF Result = "ok" THEN "registered" ELSE "closed"
    /\ token' = [token EXCEPT !.bound = FALSE]
    /\ UNCHANGED <<op, asked, res, f, wakes>>

-----------------------------------------------------------------------------
Post(o, r) ==
    /\ op[o] = "flight"
    /\ op' = [op EXCEPT ![o] = "posted"]
    /\ res' = [res EXCEPT ![o] = r]
    /\ UNCHANGED <<co, asked, f, token, fd, status, wakes>>

(* The kernel connects or fails, fires the deadline, or cancels.           *)
PostConnect == \E r \in {"ok", "refused"} : Post("connect", r)
PostTimer == Post("timer", "fired")
PostCancelled == \E o \in Op : asked[o] /\ Post(o, "cancelled")

Next ==
    \/ StartFails \/ Start \/ StartWithoutDeadline \/ Cancel \/ Complete
    \/ OnTimeoutComplete \/ Resume \/ PostConnect \/ PostTimer \/ PostCancelled

Spec == Init /\ [][Next]_vars

(* Deadlines fire, cancelled operations end, completions are dispatched    *)
(* and ready coroutines run.  A connect may stay in the kernel for ever.   *)
Fairness ==
    /\ WF_vars(Complete) /\ WF_vars(OnTimeoutComplete)
    /\ WF_vars(Resume) /\ WF_vars(PostTimer) /\ WF_vars(PostCancelled)

-----------------------------------------------------------------------------
(* The frame that holds both tags is resumed, and destroyed, only when     *)
(* neither completion is outstanding.                                      *)
FrameOutlivesTags ==
    co \in {"ready", "returned"} => \A o \in Op : ~Outstanding(o)

(* DeadlineExceeded is reported only when the deadline fired, although     *)
(* await_resume infers it from a cancelled connect.                        *)
DeadlineIsTrue == status = "deadline" => res["timer"] = "fired"

(* A socket is registered if the attempt succeeded, and else closed, after *)
(* the kernel let go of it.                                                *)
SocketSettled ==
    /\ co = "returned" =>
          /\ fd # "open"
          /\ fd = "registered" <=> status = "ok"
    /\ fd = "closed" => ~Outstanding("connect")

(* An attempt that waits with a deadline or a cancellation ahead of it.    *)
AttemptPending == co = "suspended" /\ (f.hasTimeout \/ token.cancelled)

(* The race of connect, deadline and cancellation ends in one true result: *)
(* the frame outlives its tags, and the socket is settled.                 *)
AttemptIsSafe == FrameOutlivesTags /\ DeadlineIsTrue /\ SocketSettled
=============================================================================
