----------------------------- MODULE Connection -----------------------------
(***************************************************************************)
(* The life of one TCP connection on its worker: reads, writes, pauses and *)
(* closes of src/net/tcp_stream.cpp, the receive and poll completions of   *)
(* src/io/io_uring_backend.cpp, and retirement and reclamation in          *)
(* src/runtime/worker.cpp.  The module IoUring shows that an operation has *)
(* one last completion; here an operation is in the kernel (which includes *)
(* the queues in front of it), and completions wait in cq.                 *)
(*                                                                         *)
(* The worker's round is either in Poll, which dispatches completions, or  *)
(* elsewhere: in coroutines, in io_uring_enter, or reclaiming.             *)
(***************************************************************************)
EXTENDS Integers, Sequences, FiniteSets

CONSTANTS
    Buffers,      \* buffers of the provided-buffer ring (recv_buffer_count_)
    MaxReceives,  \* bound: receives that return data
    MaxSends      \* bound: writes

ASSUME BuffersAssumption == Buffers \in Nat

VARIABLES
    c,            \* the fields of Connection
    reader,       \* the coroutine in ReadOperation or PauseRead
    writer,       \* the coroutine in WriteOperation
    kernel,       \* operations in flight: receive, poll and send
    cq,           \* their completions, in order
    free,         \* provided buffers the kernel may fill
    pc,           \* "poll" in IoUringBackend::Poll, else "round"
    receives, sends

vars == <<c, reader, writer, kernel, cq, free, pc, receives, sends>>

Init ==
    /\ c = [state |-> "active", closed |-> FALSE, retired |-> FALSE,
            inflight |-> 0, armed |-> FALSE, rearm |-> FALSE, paused |-> FALSE,
            eof |-> FALSE, error |-> FALSE, received |-> 0, waiter |-> FALSE,
            sending |-> FALSE, poll |-> FALSE, pollCancel |-> FALSE,
            borrows |-> 1, multishot |-> TRUE]
    /\ reader = "none" /\ writer = "none"
    /\ kernel = [o \in {"recv", "poll", "send"} |-> "none"]
    /\ cq = <<>> /\ free = Buffers /\ pc = "round"
    /\ receives = 0 /\ sends = 0

(* The storage exists.                                                     *)
Exists == c.state # "freed"

(* Coroutines run outside Poll, while their session lives.                 *)
InSession == pc = "round" /\ Exists /\ c.borrows = 1

Recycle(n) == IF c.multishot THEN free + n ELSE free

-----------------------------------------------------------------------------
(* Mutant: a receive is armed beside the one that is armed.                *)
CanArmTwice(k) == ~k.closed /\ ~k.paused /\ (k.multishot \/ k.received = 0)

(* StartRecvMultishot.                                                     *)
CanArm(k) == /\ ~k.armed /\ ~k.closed /\ ~k.paused
             /\ k.multishot \/ k.received = 0

Arm(k) == IF CanArm(k)
          THEN [k EXCEPT !.armed = TRUE, !.inflight = @ + 1]
          ELSE k

ArmKernel(k) == IF CanArm(k) THEN [kernel EXCEPT !["recv"] = "flight"]
                ELSE kernel

(* Mutant: buffered data does not stand in the way.                        *)
SetReadAheadFilled ==
    /\ InSession /\ c.state = "active" /\ ~c.armed /\ ~c.waiter
    /\ \E enabled \in BOOLEAN : c' = [c EXCEPT !.multishot = enabled]
    /\ UNCHANGED <<reader, writer, kernel, cq, free, pc, receives, sends>>

(* SetReadAhead chooses multishot receives into provided buffers, or       *)
(* one-shot receives into read_buffer_ (as StartTls does).                 *)
SetReadAhead ==
    /\ InSession /\ c.state = "active"
    /\ ~c.armed /\ ~c.waiter /\ c.received = 0
    /\ \E enabled \in BOOLEAN : c' = [c EXCEPT !.multishot = enabled]
    /\ UNCHANGED <<reader, writer, kernel, cq, free, pc, receives, sends>>

(* ReadOperation::await_resume takes an error, the end of the stream, or   *)
(* bytes: the caller's buffer ends inside a received one (n = 0), or, if   *)
(* it drains what is buffered, behind several.                             *)
TakeReceived ==
    IF c.error
    THEN c' = [c EXCEPT !.error = FALSE] /\ UNCHANGED free
    ELSE \E n \in 0..c.received : /\ c' = [c EXCEPT !.received = @ - n]
                                  /\ free' = Recycle(n)

(* A read that need not wait...                                            *)
ReadNow ==
    /\ InSession /\ reader = "none" /\ c.state = "active"
    /\ c.received > 0 \/ c.eof \/ c.error
    /\ TakeReceived
    /\ UNCHANGED <<reader, writer, kernel, cq, pc, receives, sends>>

(* ... and one that does.                                                  *)
ReadWait ==
    /\ InSession /\ reader = "none" /\ c.state = "active"
    /\ c.received = 0 /\ ~c.eof /\ ~c.error /\ ~c.waiter
    /\ c' = [Arm(c) EXCEPT !.waiter = TRUE]
    /\ kernel' = ArmKernel(c)
    /\ reader' = "waiting"
    /\ UNCHANGED <<writer, cq, free, pc, receives, sends>>

ReadResume ==
    /\ pc = "round" /\ reader = "ready"
    /\ TakeReceived
    /\ reader' = "none"
    /\ UNCHANGED <<writer, kernel, cq, pc, receives, sends>>

(* WriteOperation and WriteVOperation.                                     *)
Write ==
    /\ InSession /\ writer = "none" /\ c.state = "active" /\ ~c.sending
    /\ sends < MaxSends
    /\ c' = [c EXCEPT !.sending = TRUE, !.inflight = @ + 1]
    /\ kernel' = [kernel EXCEPT !["send"] = "flight"]
    /\ writer' = "waiting" /\ sends' = sends + 1
    /\ UNCHANGED <<reader, cq, free, pc, receives>>

WriteResume ==
    /\ pc = "round" /\ writer = "ready"
    /\ writer' = "none"
    /\ UNCHANGED <<c, reader, kernel, cq, free, pc, receives, sends>>

(* SetPeerDisconnectCallback, and StartPeerDisconnectPoll.                 *)
WatchPeer ==
    /\ InSession /\ c.state = "active" /\ ~c.poll
    /\ c' = [c EXCEPT !.poll = TRUE, !.pollCancel = FALSE, !.inflight = @ + 1]
    /\ kernel' = [kernel EXCEPT !["poll"] = "flight"]
    /\ UNCHANGED <<reader, writer, cq, free, pc, receives, sends>>

(* Mutant: operations in flight are left to end by themselves.             *)
NoCancel(k, ops) == k

CancelKernel(k, ops) ==
    [o \in DOMAIN k |-> IF o \in ops /\ k[o] = "flight" THEN "cancelled"
                        ELSE k[o]]

(* Mutant: data that came before the cancel is overlooked.                 *)
PausedAnyway(k) == "paused"

(* PauseRead: cancels an armed receive, waits for the completion of the    *)
(* cancel request, yields until the receive has ended, and fails if it     *)
(* left data behind.                                                       *)
Paused(k) == IF k.received = 0 THEN "paused" ELSE "none"

PauseRead ==
    /\ InSession /\ reader = "none" /\ c.state = "active" /\ ~c.waiter
    /\ c' = [c EXCEPT !.paused = TRUE]
    /\ kernel' = IF c.armed THEN CancelKernel(kernel, {"recv"}) ELSE kernel
    /\ reader' = IF c.armed THEN "cancelling" ELSE Paused(c)
    /\ UNCHANGED <<writer, cq, free, pc, receives, sends>>

PauseCancelled ==
    /\ pc = "round" /\ reader = "cancelling"
    /\ reader' = "draining"
    /\ UNCHANGED <<c, writer, kernel, cq, free, pc, receives, sends>>

PauseDone ==
    /\ pc = "round" /\ reader = "draining" /\ ~c.armed
    /\ reader' = Paused(c)
    /\ UNCHANGED <<c, writer, kernel, cq, free, pc, receives, sends>>

-----------------------------------------------------------------------------
(* BeginClose and RetireConnection: the fields of the connection...        *)
Closed(mode) ==
    [c EXCEPT !.error = @ \/ mode.failed, !.closed = TRUE,
              !.eof = @ /\ mode.peer, !.waiter = FALSE, !.pollCancel = c.poll,
              !.retired = TRUE, !.received = IF c.retired THEN @ ELSE 0,
              !.state = IF c.retired THEN "closing"
                        ELSE IF c.armed \/ c.inflight # 0 \/ c.received # 0
                        THEN "draining" ELSE "retired"]

(* ... and what becomes of its operations, its buffers and its reader.     *)
(* DiscardReceivedBuffers runs in the first call only.                     *)
Abandon ==
    /\ c.state # "retired"
    /\ free' = IF c.retired THEN free ELSE Recycle(c.received)
    /\ kernel' = CancelKernel(kernel, {o \in {"poll", "recv"} :
                                         o = "recv" => c.armed})
    /\ reader' = IF c.waiter THEN "ready" ELSE reader

BeginClose(mode) == c' = Closed(mode) /\ Abandon

(* TcpStream::Close, by the session.                                       *)
Close ==
    /\ InSession /\ c.state = "active"
    /\ BeginClose([peer |-> FALSE, failed |-> FALSE])
    /\ UNCHANGED <<writer, cq, pc, receives, sends>>

(* The end of RunSession closes a connection that is still open; the       *)
(* borrow goes with the frame.                                             *)
EndSession ==
    /\ InSession /\ reader \in {"none", "paused"} /\ writer = "none"
    /\ \E failed \in BOOLEAN :
          c' = [Closed([peer |-> c.eof /\ ~failed, failed |-> failed])
                  EXCEPT !.borrows = 0]
    /\ c.state = "active" /\ Abandon
    /\ UNCHANGED <<writer, cq, pc, receives, sends>>

EndClosedSession ==
    /\ InSession /\ reader \in {"none", "paused"} /\ writer = "none"
    /\ c.state # "active"
    /\ c' = [c EXCEPT !.borrows = 0]
    /\ UNCHANGED <<reader, writer, kernel, cq, free, pc, receives, sends>>

(* CheckIdleConnections, just before the worker parks.                     *)
IdleTimeout ==
    /\ pc = "round" /\ Exists /\ ~c.retired /\ ~c.closed
    /\ BeginClose([peer |-> FALSE, failed |-> TRUE])
    /\ UNCHANGED <<writer, cq, pc, receives, sends>>

(* Worker::Run closes what is left when it stops.                          *)
CloseAtShutdown ==
    /\ pc = "round" /\ Exists
    /\ BeginClose([peer |-> FALSE, failed |-> TRUE])
    /\ UNCHANGED <<writer, cq, pc, receives, sends>>

(* Mutant: the borrow of a session does not count.                         *)
CanReclaimBorrowed(k) ==
    /\ k.state # "active" /\ k.inflight = 0 /\ ~k.waiter /\ ~k.sending
    /\ ~k.armed /\ k.received = 0

CanReclaim(k) ==
    /\ k.state # "active" /\ k.inflight = 0 /\ k.borrows = 0 /\ ~k.waiter
    /\ ~k.sending /\ ~k.armed /\ k.received = 0

(* ReclaimConnections.                                                     *)
Reclaim ==
    /\ pc = "round" /\ Exists /\ c.retired
    /\ c' = [c EXCEPT !.state = IF CanReclaim(c) THEN "freed" ELSE "draining"]
    /\ UNCHANGED <<reader, writer, kernel, cq, free, pc, receives, sends>>

-----------------------------------------------------------------------------
(* Completions.                                                            *)

Poll ==
    /\ pc = "round" /\ cq # <<>>
    /\ pc' = "poll"
    /\ UNCHANGED <<c, reader, writer, kernel, cq, free, receives, sends>>

(* Mutant: a receive that ended is not armed again.                        *)
NeverRearms(k) == FALSE

Rearms(k) == /\ k.multishot /\ ~k.paused /\ k.state = "active" /\ ~k.closed
             /\ ~k.eof

(* What the last completion of a receive changes.                          *)
EndReceive(k) ==
    [k EXCEPT !.armed = FALSE, !.inflight = @ - 1, !.rearm = @ \/ Rearms(k),
              !.state = IF ~Rearms(k) /\ @ # "active" THEN "draining" ELSE @]

HandleMultishotRecv ==
    LET q == Head(cq)
        got == CASE q.res = "data" -> [c EXCEPT !.received = @ + 1]
                 [] q.res = "eof" -> [c EXCEPT !.eof = TRUE]
                 [] q.res = "error" -> [c EXCEPT !.error = TRUE]
                 [] OTHER -> c
        ended == IF q.more THEN got ELSE EndReceive(got)
        notify == q.res \in {"data", "eof", "error"} /\ c.waiter
    IN  /\ pc = "poll" /\ cq # <<>> /\ q.op = "recv"
        /\ c' = [ended EXCEPT !.waiter = @ /\ ~notify]
        /\ reader' = IF notify THEN "ready" ELSE reader
        /\ cq' = Tail(cq)
        /\ UNCHANGED <<writer, kernel, free, pc, receives, sends>>

(* HandlePeerDisconnect: the callback may close the connection.            *)
HandlePeerDisconnect ==
    LET q == Head(cq)
    IN  /\ pc = "poll" /\ cq # <<>> /\ q.op = "poll"
        /\ c' = [c EXCEPT !.poll = FALSE, !.pollCancel = FALSE,
                          !.inflight = @ - 1]
        /\ pc' = IF q.res = "hup" /\ c.state = "active" THEN "callback"
                 ELSE "poll"
        /\ cq' = Tail(cq)
        /\ UNCHANGED <<reader, writer, kernel, free, receives, sends>>

PeerCallback ==
    /\ pc = "callback"
    /\ \/ BeginClose([peer |-> FALSE, failed |-> TRUE])
       \/ UNCHANGED <<c, free, kernel, reader>>
    /\ pc' = "poll"
    /\ UNCHANGED <<writer, cq, receives, sends>>

(* WriteOperation::Complete.                                               *)
WriteComplete ==
    /\ pc = "poll" /\ cq # <<>> /\ Head(cq).op = "send"
    /\ c' = [c EXCEPT !.sending = FALSE, !.inflight = @ - 1]
    /\ writer' = "ready"
    /\ cq' = Tail(cq)
    /\ UNCHANGED <<reader, kernel, free, pc, receives, sends>>

(* DrainRecvRearm ends a Poll.                                             *)
DrainRecvRearm ==
    LET again == c.rearm /\ c.state = "active" /\ ~c.eof
        k == [c EXCEPT !.rearm = FALSE]
    IN  /\ pc = "poll" /\ cq = <<>>
        /\ c' = IF again THEN Arm(k) ELSE k
        /\ kernel' = IF again THEN ArmKernel(k) ELSE kernel
        /\ pc' = "round"
        /\ UNCHANGED <<reader, writer, cq, free, receives, sends>>

-----------------------------------------------------------------------------
(* The kernel, while the worker is in io_uring_enter.                      *)

PostCqe(o, res, more) ==
    /\ pc = "round"
    /\ cq' = Append(cq, [op |-> o, res |-> res, more |-> more])
    /\ kernel' = IF more THEN kernel ELSE [kernel EXCEPT ![o] = "none"]
    /\ UNCHANGED <<c, reader, writer, pc, sends>>

PostData ==
    /\ kernel["recv"] = "flight" /\ receives < MaxReceives
    /\ c.multishot => free > 0
    /\ \E more \in {FALSE, c.multishot} : PostCqe("recv", "data", more)
    /\ free' = IF c.multishot THEN free - 1 ELSE free
    /\ receives' = receives + 1

PostNoBuffers ==
    /\ kernel["recv"] = "flight" /\ c.multishot /\ free = 0
    /\ PostCqe("recv", "nobufs", FALSE)
    /\ UNCHANGED <<free, receives>>

PostEnd ==
    /\ kernel["recv"] = "flight"
    /\ \E res \in {"eof", "error"} : PostCqe("recv", res, FALSE)
    /\ UNCHANGED <<free, receives>>

PostCancelled ==
    /\ \E o \in {"recv", "poll"} : /\ kernel[o] = "cancelled"
                                    /\ PostCqe(o, "cancelled", FALSE)
    /\ UNCHANGED <<free, receives>>

PostHangup ==
    /\ kernel["poll"] = "flight"
    /\ PostCqe("poll", "hup", FALSE)
    /\ UNCHANGED <<free, receives>>

PostSent ==
    /\ kernel["send"] = "flight"
    /\ PostCqe("send", "done", FALSE)
    /\ UNCHANGED <<free, receives>>

-----------------------------------------------------------------------------
(* Coroutines that are ready, or whose connection is closed.               *)
SessionStep ==
    \/ ReadResume \/ WriteResume \/ PauseCancelled \/ PauseDone
    \/ EndClosedSession
WorkerStep ==
    \/ Poll \/ HandleMultishotRecv \/ HandlePeerDisconnect \/ PeerCallback
    \/ WriteComplete \/ DrainRecvRearm
KernelStep == PostCancelled \/ PostSent

Next ==
    \/ SessionStep \/ WorkerStep \/ KernelStep \/ Reclaim
    \/ SetReadAhead \/ ReadNow \/ ReadWait \/ Write \/ WatchPeer
    \/ PauseRead \/ Close \/ EndSession
    \/ IdleTimeout \/ CloseAtShutdown
    \/ PostData \/ PostNoBuffers \/ PostEnd \/ PostHangup

Spec == Init /\ [][Next]_vars

(* Every round of the worker polls completions, runs ready coroutines and  *)
(* looks at retired connections; sends and cancelled operations end.  A    *)
(* session is assumed to return once its connection is closed.             *)
Fairness ==
    /\ WF_vars(WorkerStep) /\ SF_vars(SessionStep)
    /\ SF_vars(KernelStep) /\ SF_vars(Reclaim)
FairSpec == Spec /\ Fairness

-----------------------------------------------------------------------------
Completions(o) == {i \in 1..Len(cq) : cq[i].op = o}
LastCompletions == {i \in 1..Len(cq) : ~cq[i].more}
DataCompletions == {i \in 1..Len(cq) : cq[i].res = "data"}

(* inflight_ops_, which CanReclaim trusts, counts exactly the operations   *)
(* whose last completion has not been dispatched, whatever the order of    *)
(* arming, cancelling, rearming and closing.                               *)
InflightExact ==
    c.inflight = Cardinality({o \in DOMAIN kernel : kernel[o] # "none"})
                 + Cardinality(LastCompletions)

(* Once ReclaimConnections has erased a connection, no operation, queued   *)
(* completion, rearm entry, coroutine or session refers to it.             *)
NoUseAfterReclaim ==
    c.state = "freed" =>
        /\ \A o \in DOMAIN kernel : kernel[o] = "none"
        /\ cq = <<>> /\ ~c.rearm
        /\ reader \in {"none", "paused"} /\ writer = "none" /\ c.borrows = 0

(* Every provided buffer is free, or named by a queued completion, or in   *)
(* received_buffers_: none is lost, given back twice or filled while its   *)
(* bytes are still to be read.  A one-shot receive is never armed while    *)
(* read_buffer_ holds bytes.                                               *)
BuffersConserved ==
    LET held == c.received + Cardinality(DataCompletions)
    IN  IF c.multishot THEN free + held = Buffers
        ELSE /\ free = Buffers
             /\ held + (IF kernel["recv"] = "none" THEN 0 ELSE 1) <= 1

(* A suspended reader has a receive that will resume it: in the kernel, in *)
(* the queue of completions, or (in Poll) in recv_rearm_queue_.            *)
ReaderHasReceive ==
    reader = "waiting" /\ ~c.paused =>
        /\ c.waiter
        /\ kernel["recv"] # "none" \/ Completions("recv") # {} \/ c.rearm

(* Once PauseRead has succeeded no receive takes bytes from the socket,    *)
(* which another worker may own by now.                                    *)
PausedIsQuiet ==
    reader = "paused" =>
        /\ kernel["recv"] = "none" /\ Completions("recv") = {}
        /\ ~c.rearm /\ c.received = 0

(* After BeginClose every operation of the connection ends, the session is *)
(* resumed and unwinds, although nothing is received any more.             *)
ClosedDrains == c.closed ~> (c.inflight = 0 /\ c.borrows = 0)

(* A connection that was closed is erased, and its received buffers are    *)
(* given back to the kernel.                                               *)
ClosedIsReclaimed == c.closed ~> (c.state = "freed")

(* The two counts of a connection are exact: inflight counts the      *)
(* operations that will still report, and no provided buffer is lost.      *)
CountsExact == InflightExact /\ BuffersConserved

(* The receive is armed exactly when somebody is to be resumed by it.      *)
ReceiveFollowsReader == ReaderHasReceive /\ PausedIsQuiet
=============================================================================
