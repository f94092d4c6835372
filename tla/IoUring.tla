------------------------------ MODULE IoUring ------------------------------
(***************************************************************************)
(* The io_uring of one worker, src/io/io_uring_backend.cpp: the software   *)
(* FIFO in front of the submission queue, cancellation, and the two kinds  *)
(* of completions, from the kernel and deferred.                           *)
(*                                                                         *)
(* An operation is known by its tag, the address the kernel returns in     *)
(* user_data.  Addresses are reused, so every accepted operation also has  *)
(* a number, which the code does not have: the properties are about        *)
(* whether an address still means the operation it was written for.        *)
(* Likewise a descriptor has a generation.                                 *)
(***************************************************************************)
EXTENDS Naturals, Sequences, Functions

CONSTANTS
    IoTag,        \* addresses of IoCompletion objects of operations
    CancelTag,    \* addresses of the completions of cancel requests
    Fd,           \* descriptors of sockets
    SqEntries,    \* ring_entries_
    MaxOps,       \* bound: operations accepted in a behaviour
    MaxCloses,    \* bound: times a descriptor is closed
    None          \* no address (kCancelRequestTag), no descriptor

ASSUME SizeAssumption == SqEntries \in Nat \ {0}
ASSUME NoneAssumption == None \notin IoTag \cup CancelTag \cup Fd

VARIABLES
    pc,           \* where the worker's round is
    initialized,  \* initialized_
    pendingIo,    \* pending_io_
    sq,           \* entries of the submission queue the kernel has not taken
    kernel,       \* operations the kernel has taken and not finished
    cq,           \* the completion queue
    deferred,     \* pending_completions_
    detached,     \* the deferred completions being dispatched
    mayCancel,    \* may_have_unsubmitted_cancels_
    live,         \* number of the operation that owns a tag, 0 if none does
    ops,          \* number of operations accepted so far
    generation    \* times a descriptor has been closed

queues == <<pendingIo, sq, kernel, cq, deferred, detached>>
vars == <<pc, initialized, queues, mayCancel, live, ops, generation>>

Tag == IoTag \cup CancelTag

Nop == [op |-> "nop", tag |-> None, n |-> 0, fd |-> None, g |-> 0,
        target |-> None, aim |-> 0]

Init ==
    /\ pc = "run" /\ initialized = TRUE
    /\ pendingIo = <<>> /\ sq = <<>> /\ kernel = {} /\ cq = <<>>
    /\ deferred = <<>> /\ detached = <<>> /\ mayCancel = FALSE
    /\ live = [t \in Tag |-> 0] /\ ops = 0
    /\ generation = [f \in Fd |-> 0]

(* What the kernel or the backend reports of entry e.                      *)
Cqe(e, more) == [tag |-> e.tag, n |-> e.n, more |-> more]

-----------------------------------------------------------------------------
(* Submission.                                                             *)

SubmitOrQueue(e) ==
    IF pendingIo = <<>> /\ Len(sq) < SqEntries
    THEN sq' = Append(sq, e) /\ UNCHANGED pendingIo
    ELSE pendingIo' = Append(pendingIo, e) /\ UNCHANGED sq

(* Coroutines, and the callbacks of completions, use the backend.          *)
ClientRuns == pc \in {"run", "reap", "deferred"} /\ initialized

(* An operation on descriptor f is accepted.  Its caller waits for tag t,  *)
(* or nobody does.                                                         *)
Accept(t, f) ==
    LET e == [op |-> "io", tag |-> t, n |-> ops + 1, fd |-> f,
              g |-> IF f = None THEN 0 ELSE generation[f],
              target |-> None, aim |-> 0]
    IN  /\ ClientRuns /\ ops < MaxOps
        /\ t # None => live[t] = 0
        /\ SubmitOrQueue(e)
        /\ live' = IF t = None THEN live ELSE [live EXCEPT ![t] = ops + 1]
        /\ ops' = ops + 1
        /\ UNCHANGED <<pc, initialized, kernel, cq, deferred, detached,
                       mayCancel, generation>>

(* Storage requests name a fixed file, timeouts no file at all.            *)
SubmitStorage(t) == Accept(t, None)
(* Send, receive, accept, connect and poll name a descriptor.              *)
SubmitSocket(t, f) == Accept(t, f)
(* MSG_RING to another worker: its completion is ignored.                  *)
WakeRemote == Accept(None, None)

(* Mutant: the newest waiting operation goes first.                        *)
DrainLastPending(q, waiting) ==
    IF Len(q) < SqEntries /\ waiting # <<>>
    THEN /\ sq' = Append(q, waiting[Len(waiting)])
         /\ pendingIo' = SubSeq(waiting, 1, Len(waiting) - 1)
    ELSE sq' = q /\ pendingIo' = waiting

(* DrainPending: as much of the FIFO as the submission queue has room for. *)
DrainPending(q, waiting) ==
    LET room == SqEntries - Len(q)
        k == IF room <= Len(waiting) THEN room ELSE Len(waiting)
    IN  /\ sq' = q \o SubSeq(waiting, 1, k)
        /\ pendingIo' = SubSeq(waiting, k + 1, Len(waiting))

HasPending == pendingIo # <<>> \/ deferred # <<>> \/ sq # <<>>

-----------------------------------------------------------------------------
(* Cancellation.                                                           *)

Unsubmitted == sq \o pendingIo

(* The entries of s at the places P, in their order.                       *)
InOrder(P, n) ==
    {p \in UNION {[1..k -> P] : k \in 0..n} :
        Range(p) = P /\ \A i, j \in DOMAIN p : i < j => p[i] < p[j]}
Entries(s, P) ==
    LET p == CHOOSE q \in InOrder(P, Len(s)) : TRUE
    IN  [i \in DOMAIN p |-> s[p[i]]]
Matching(s, M) == {i \in 1..Len(s) : s[i] \in M}

(* CancelUnsubmittedMatching: what the kernel has not taken and is in      *)
(* matching is retired by a deferred completion; in the submission queue a *)
(* no-op takes its place.                                                  *)
CancelUnsubmittedMatching(matching) ==
    /\ sq' = [i \in 1..Len(sq) |-> IF sq[i] \in matching THEN Nop ELSE sq[i]]
    /\ pendingIo' = Entries(pendingIo, 1..Len(pendingIo) \ Matching(pendingIo, matching))

Retired(matching) ==
    LET all == Entries(Unsubmitted, Matching(Unsubmitted, matching))
    IN  [i \in 1..Len(all) |-> Cqe(all[i], FALSE)]

(* CancelByData of the operation with tag t.  The completion of the cancel *)
(* request itself goes to tag c, or is ignored.                            *)
CancelByData(t, c) ==
    LET matching == {e \in Range(Unsubmitted) : e.tag = t}
        cancel == [op |-> "cancel", tag |-> c, n |-> ops + 1, fd |-> None,
                   g |-> 0, target |-> t, aim |-> live[t]]
    IN  /\ ClientRuns /\ ops < MaxOps /\ live[t] # 0
        /\ c # None => live[c] = 0
        /\ IF matching # {}
           THEN /\ CancelUnsubmittedMatching(matching)
                /\ deferred' = deferred \o Append(Retired(matching),
                                                  Cqe(cancel, FALSE))
                /\ UNCHANGED mayCancel
           ELSE /\ SubmitOrQueue(cancel)
                /\ mayCancel' = TRUE
                /\ UNCHANGED deferred
        /\ live' = IF c = None THEN live ELSE [live EXCEPT ![c] = ops + 1]
        /\ ops' = ops + 1
        /\ UNCHANGED <<pc, initialized, kernel, cq, detached, generation>>

(* Mutant: the descriptor is closed and nothing else.                      *)
CloseFdOnly(f) ==
    /\ ClientRuns /\ generation[f] < MaxCloses
    /\ generation' = [generation EXCEPT ![f] = @ + 1]
    /\ UNCHANGED <<pc, initialized, queues, mayCancel, live, ops>>

(* CancelUnsubmittedForFd precedes every close of a socket.                *)
CloseFd(f) ==
    LET matching == {e \in Range(Unsubmitted) : e.op = "io" /\ e.fd = f}
    IN  /\ ClientRuns /\ generation[f] < MaxCloses
        /\ CancelUnsubmittedMatching(matching)
        /\ deferred' = deferred \o Retired(matching)
        /\ generation' = [generation EXCEPT ![f] = @ + 1]
        /\ UNCHANGED <<pc, initialized, kernel, cq, detached, mayCancel, live,
                       ops>>

-----------------------------------------------------------------------------
(* Completion.                                                             *)

(* Mutant: cancels that still wait for space are not looked for.           *)
RetireNoCancels(c) == UNCHANGED <<sq, pendingIo, deferred, mayCancel>>

(* RetireUnsubmittedCancels: a cancel whose target completes first is      *)
(* retired, before the callback can reuse the target's address.            *)
RetireUnsubmittedCancels(c) ==
    LET cancels == {e \in Range(Unsubmitted) : e.op = "cancel"}
        matching == {e \in cancels : e.target = c.tag}
    IN  IF mayCancel /\ ~c.more
        THEN /\ CancelUnsubmittedMatching(matching)
             /\ deferred' = deferred \o Retired(matching)
             /\ mayCancel' = (cancels # matching)
        ELSE UNCHANGED <<sq, pendingIo, deferred, mayCancel>>

(* Mutant: the report of a multishot operation is taken for its last one.  *)
DispatchAsLast(c) ==
    /\ RetireUnsubmittedCancels(c)
    /\ live' = IF c.tag = None THEN live ELSE [live EXCEPT ![c.tag] = 0]
    /\ UNCHANGED <<initialized, kernel, ops, generation>>

(* DispatchCqe: the owner of the tag learns the result.  A last completion *)
(* frees the tag.                                                          *)
DispatchCqe(c) ==
    /\ RetireUnsubmittedCancels(c)
    /\ live' = IF c.tag = None \/ c.more THEN live
               ELSE [live EXCEPT ![c.tag] = 0]
    /\ UNCHANGED <<initialized, kernel, ops, generation>>

(* ReapCompletions.                                                        *)
Reap ==
    /\ pc = "reap" /\ cq # <<>>
    /\ DispatchCqe(Head(cq))
    /\ cq' = Tail(cq)
    /\ UNCHANGED <<pc, detached>>

(* DrainPendingCompletions detaches what it dispatches: completions        *)
(* deferred meanwhile wait for the next round.                             *)
DetachDeferred ==
    /\ pc = "reap" /\ cq = <<>>
    /\ detached' = deferred
    /\ deferred' = <<>>
    /\ pc' = "deferred"
    /\ UNCHANGED <<initialized, pendingIo, sq, kernel, cq, mayCancel, live, ops,
                   generation>>

DrainPendingCompletions ==
    /\ pc = "deferred" /\ detached # <<>>
    /\ DispatchCqe(Head(detached))
    /\ detached' = Tail(detached)
    /\ UNCHANGED <<pc, cq>>

(* The end of PollDeferred.  Coroutines run next.                          *)
PollDeferred ==
    /\ pc = "deferred" /\ detached = <<>>
    /\ DrainPending(sq, pendingIo)
    /\ pc' = "run"
    /\ UNCHANGED <<initialized, kernel, cq, deferred, detached, mayCancel, live,
                   ops, generation>>

-----------------------------------------------------------------------------
(* The round: Poll, coroutines, Submit, Wait.                              *)

Submit ==
    /\ pc = "run" /\ initialized
    /\ DrainPending(sq, pendingIo)
    /\ pc' = "enter"
    /\ UNCHANGED <<initialized, kernel, cq, deferred, detached, mayCancel, live,
                   ops, generation>>

(* SubmitSlow fills the queue once more after the kernel has returned.     *)
SubmitReturns ==
    /\ pc = "enter"
    /\ DrainPending(sq, pendingIo)
    /\ pc' = "submitted"
    /\ UNCHANGED <<initialized, kernel, cq, deferred, detached, mayCancel, live,
                   ops, generation>>

(* The round was busy, or something is pending: go on.                     *)
Poll ==
    /\ pc = "submitted"
    /\ pc' = "reap"
    /\ UNCHANGED <<initialized, queues, mayCancel, live, ops, generation>>

(* Mutants: the submission queue, or the deferred completions, do not keep *)
(* the worker awake.                                                       *)
SleepsOnEntries == pendingIo = <<>> /\ deferred = <<>>
SleepsOnDeferred == pendingIo = <<>> /\ sq = <<>>

(* The check at the start of Wait.                                         *)
MaySleep == ~HasPending

Wait ==
    /\ pc = "submitted" /\ MaySleep
    /\ pc' = "wait"
    /\ UNCHANGED <<initialized, queues, mayCancel, live, ops, generation>>

WaitReturns ==
    /\ pc = "wait" /\ cq # <<>>
    /\ pc' = "reap"
    /\ UNCHANGED <<initialized, queues, mayCancel, live, ops, generation>>

(* A timeout, or a signal.                                                 *)
WaitTimesOut ==
    /\ pc = "wait" /\ cq = <<>>
    /\ pc' = "reap"
    /\ UNCHANGED <<initialized, queues, mayCancel, live, ops, generation>>

(* Shutdown: the software queues are dropped, and queue_exit waits until   *)
(* the kernel has let go of every operation.                               *)
Shutdown ==
    /\ pc = "run" /\ initialized
    /\ initialized' = FALSE /\ pc' = "stopped"
    /\ pendingIo' = <<>> /\ sq' = <<>> /\ kernel' = {} /\ cq' = <<>>
    /\ deferred' = <<>> /\ mayCancel' = FALSE
    /\ live' = [t \in Tag |-> 0]
    /\ UNCHANGED <<detached, ops, generation>>

-----------------------------------------------------------------------------
(* The kernel.                                                             *)

(* io_uring_enter takes the entries in order; it may stop at any of them.  *)
(* A cancel finds the operation in flight that has the target's address.   *)
KernelTakes ==
    LET e == Head(sq)
    IN  /\ pc = "enter" /\ sq # <<>>
        /\ sq' = Tail(sq)
        /\ kernel' = CASE e.op = "io" -> kernel \cup {e}
                       [] e.op = "nop" -> kernel
                       [] e.op = "cancel" ->
                            {IF r.tag = e.target THEN [r EXCEPT !.op = "cancelled"]
                             ELSE r : r \in kernel}
        /\ cq' = IF e.op = "io" THEN cq ELSE Append(cq, Cqe(e, FALSE))
        /\ UNCHANGED <<pc, initialized, pendingIo, deferred, detached,
                       mayCancel, live, ops, generation>>

(* With DEFER_TASKRUN the kernel posts completions only while the worker   *)
(* is in io_uring_enter.                                                   *)
InKernel == pc \in {"enter", "wait"}

KernelFinishes(r) ==
    /\ InKernel
    /\ kernel' = kernel \ {r}
    /\ cq' = Append(cq, Cqe(r, FALSE))
    /\ UNCHANGED <<pc, initialized, pendingIo, sq, deferred, detached,
                   mayCancel, live, ops, generation>>

(* A multishot operation reports and goes on.  Bound: one report at a time.*)
KernelReports(r) ==
    /\ InKernel /\ r.op = "io" /\ \A i \in 1..Len(cq) : ~cq[i].more
    /\ cq' = Append(cq, Cqe(r, TRUE))
    /\ UNCHANGED <<pc, initialized, pendingIo, sq, kernel, deferred, detached,
                   mayCancel, live, ops, generation>>

-----------------------------------------------------------------------------
Client ==
    \/ WakeRemote
    \/ \E t \in IoTag : SubmitStorage(t)
    \/ \E t \in IoTag, f \in Fd : SubmitSocket(t, f)
    \/ \E t \in IoTag, c \in CancelTag \cup {None} : CancelByData(t, c)
    \/ \E f \in Fd : CloseFd(f)

WorkerStep ==
    \/ Reap \/ DetachDeferred \/ DrainPendingCompletions \/ PollDeferred
    \/ Submit \/ SubmitReturns \/ WaitReturns \/ Poll

Next ==
    \/ Client \/ WorkerStep \/ Wait \/ WaitTimesOut \/ Shutdown
    \/ KernelTakes
    \/ \E r \in kernel : KernelFinishes(r) \/ KernelReports(r)

Spec == Init /\ [][Next]_vars

(* The worker keeps running its rounds.  The kernel does not refuse entries*)
(* for ever, and finishes what it was told to cancel.                      *)
FinishCancelled ==
    \E r \in kernel : r.op = "cancelled" /\ KernelFinishes(r)

Fairness == WF_vars(WorkerStep) /\ SF_vars(KernelTakes) /\ SF_vars(FinishCancelled)
FairSpec == Spec /\ Fairness

-----------------------------------------------------------------------------
Last(s, t) == {i \in 1..Len(s) : s[i].tag = t /\ ~s[i].more}

(* Where the last completion of tag t, or the operation that will have it, *)
(* is; with the number of the operation.                                   *)
Holders(t) ==
    {<<"unsubmitted", i, Unsubmitted[i].n>> :
        i \in {j \in 1..Len(Unsubmitted) : Unsubmitted[j].tag = t}}
    \cup {<<"kernel", 0, r.n>> : r \in {q \in kernel : q.tag = t}}
    \cup {<<"cq", i, cq[i].n>> : i \in Last(cq, t)}
    \cup {<<"deferred", i, deferred[i].n>> : i \in Last(deferred, t)}
    \cup {<<"detached", i, detached[i].n>> : i \in Last(detached, t)}

(* Every accepted operation has one terminal completion to come, from the  *)
(* kernel or deferred, whatever is cancelled or closed meanwhile; a tag    *)
(* nobody owns has none, so its address may be reused.                     *)
OneTerminalCompletion ==
    \A t \in Tag :
        /\ Holders(t) # {} <=> live[t] # 0
        /\ \A g, h \in Holders(t) : g = h /\ h[3] = live[t]

(* "No kernel cancel may outlive the synthetic target completion": a       *)
(* cancel the kernel may still take is aimed at the operation that has the *)
(* target's address now.                                                   *)
CancelHitsItsTarget ==
    \A i \in 1..Len(Unsubmitted) :
        LET e == Unsubmitted[i]
        IN  e.op = "cancel" => live[e.target] = e.aim

(* No operation that the kernel may still take names a descriptor that was *)
(* closed, and perhaps reused, since the operation was accepted.           *)
NoStaleDescriptor ==
    \A i \in 1..Len(Unsubmitted) :
        LET e == Unsubmitted[i]
        IN  e.op = "io" /\ e.fd # None => e.g = generation[e.fd]

(* "Older accepted work retains priority": the kernel gets the operations  *)
(* in the order they were accepted, although they pass through two queues. *)
AcceptedOrder ==
    \A i, j \in 1..Len(Unsubmitted) :
        i < j /\ Unsubmitted[i].op # "nop" /\ Unsubmitted[j].op # "nop" =>
            Unsubmitted[i].n < Unsubmitted[j].n

(* What was accepted reaches the kernel or completes: a worker never       *)
(* sleeps on an operation that only its own next submission would start.   *)
EveryOpIsIssued ==
    \A n \in 1..MaxOps :
        (\E i \in 1..Len(Unsubmitted) : Unsubmitted[i].n = n)
            ~> (\A i \in 1..Len(Unsubmitted) : Unsubmitted[i].n # n)

(* A deferred completion is dispatched, and a cancelled operation completes*)
(* although other operations never do.                                     *)
CancelledOpsComplete ==
    \A t \in IoTag, n \in 1..MaxOps :
        (live[t] = n /\ (\/ \E i \in 1..Len(deferred) : deferred[i].tag = t
                         \/ \E i \in 1..Len(Unsubmitted) :
                               /\ Unsubmitted[i].op = "cancel"
                               /\ Unsubmitted[i].target = t))
            ~> live[t] # n

(* What the kernel may still take is current and in the accepted order.    *)
QueueIsTrue == NoStaleDescriptor /\ AcceptedOrder

(* Whatever SubmitOrQueue accepted is issued, and what is cancelled        *)
(* completes.                                                              *)
OpsProgress == EveryOpIsIssued /\ CancelledOpsComplete
=============================================================================
