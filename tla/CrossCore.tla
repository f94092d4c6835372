----------------------------- MODULE CrossCore -----------------------------
(***************************************************************************)
(* How the workers of one runtime send each other messages: the lanes and  *)
(* mailboxes of include/bycorf/runtime/cross_core.h, and the parts of      *)
(* src/runtime/worker.cpp that drain them, flush wakes and park.  Every    *)
(* worker is a thread.  An action is one access to memory that threads     *)
(* share, with the thread-local work around it; the memory is sequentially *)
(* consistent.                                                             *)
(*                                                                         *)
(* A message is a request, a reply or a notification.  What a worker does  *)
(* with the messages it drained is not modelled here: any coroutine may    *)
(* post any message, once.                                                 *)
(***************************************************************************)
EXTENDS Naturals, Sequences

CONSTANTS
    N,              \* number of workers
    WordSize,       \* senders per bitmap word (64 in the code)
    Capacity,       \* slots of an SPSC ring (256); one slot stays unused
    BatchSize,      \* kBatchSize (64): messages of one kind per drain
    SenderQuota,    \* kSenderQuota (256): messages of one sender per visit
    SeqMod,         \* number of values of wake_seq_ (2^32)
    Parked,         \* kWakeSeqParked (2^31)
    Foreign,        \* threads that are not workers
    Req, Rep, Ntf   \* the requests, replies and notifications

ASSUME SizesAssumption ==
    /\ N \in Nat \ {0} /\ WordSize \in Nat \ {0}
    /\ Capacity \in Nat /\ Capacity >= 2
    /\ BatchSize \in Nat \ {0} /\ SenderQuota \in Nat \ {0}
    /\ SeqMod \in Nat /\ Parked \in 1..(SeqMod - 1)

Worker == 0..(N - 1)
Thread == Worker \cup Foreign
Msg == Req \cup Rep \cup Ntf

ASSUME NamesAssumption ==
    /\ Foreign \cap Worker = {} /\ Msg # {}
    /\ Req \cap (Rep \cup Ntf) = {} /\ Rep \cap Ntf = {}

(* The queues of a lane, and of a mailbox, in the order they are drained.  *)
Kind == {"req", "rep", "ntf"}
KindOf(m) == IF m \in Req THEN "req" ELSE IF m \in Rep THEN "rep" ELSE "ntf"
After(k) == IF k = "req" THEN "rep" ELSE "ntf"

WordOf(s) == s \div WordSize
WordCount == (N + WordSize - 1) \div WordSize

(* The word that a scan of the bitmap begun at sender `start` reads next.  *)
WordAt(start, step) ==
    LET x == WordOf(start) + step
    IN  IF x < WordCount THEN x ELSE x - WordCount

Lesser(a, b) == IF a <= b THEN a ELSE b
(* Mutant: head_ is not stored after the batch is copied.                  *)
RestKeepsBatch(q, c) == q

Rest(q, c) == SubSeq(q, c + 1, Len(q))

VARIABLES
    pc,              \* where each thread is
    post,            \* the message a thread is posting, and to whom
    idle,            \* messages not posted yet
    delivered,       \* messages drained by their receiver
    ring,            \* ring[receiver][sender][kind]: the SPSC rings of a lane
    active,          \* active[receiver][sender]: CrossCoreLane::active_
    bits,            \* the receiver's active-sender bitmap, all words
    overflow,        \* overflow[receiver][kind]: the mailbox's MPSC queues
    overflowPending, \* WorkerMailbox::overflow_pending_
    wakeSeq,         \* WorkerMailbox::wake_seq_
    wakePending,     \* wakePending[sender][target]: 0, 1 or 2
    wakeList,        \* CurrentWorker::wake_list_
    outbox,          \* targets of MSG_RING wakes not yet submitted
    wakeCqe,         \* a wake, MSG_RING or eventfd, is in the worker's ring
    drain,           \* the locals of DrainCrossCoreImpl
    cursor,          \* Worker::cross_core_cursor_
    overflowFirst,   \* Worker::overflow_first_
    round,           \* what the round has done: nothing, work, maintenance
    parking,         \* the drain is the one that precedes parking
    seq,             \* the snapshot of wake_seq_ taken before that drain
    bumps            \* increments of wake_seq_ since the snapshot

postVars  == <<post, idle, delivered>>
laneVars  == <<ring, active, bits>>
overVars  == <<overflow, overflowPending>>
wakeVars  == <<wakePending, wakeList, outbox>>
drainVars == <<drain, cursor, overflowFirst>>
parkVars  == <<parking, seq, bumps>>
vars == <<pc, postVars, laneVars, overVars, wakeSeq, wakeVars, wakeCqe,
          drainVars, round, parkVars>>

(* The locals of a call have these values while the call is not running.   *)
NoDrain == [overflow |-> FALSE, first |-> FALSE, start |-> 0, step |-> 0,
            active |-> {}, wrapped |-> {}, sender |-> 0, kind |-> "req",
            n |-> [k \in Kind |-> 0]]
NoPost == [target |-> 0, msg |-> CHOOSE m \in Msg : TRUE, queued |-> FALSE]

Init ==
    /\ pc = [t \in Thread |-> IF t \in Worker THEN "drain" ELSE "foreign"]
    /\ post = [t \in Thread |-> NoPost]
    /\ idle = Msg
    /\ delivered = {}
    /\ ring = [r \in Worker |-> [s \in Worker |-> [k \in Kind |-> <<>>]]]
    /\ active = [r \in Worker |-> [s \in Worker |-> FALSE]]
    /\ bits = [r \in Worker |-> {}]
    /\ overflow = [r \in Worker |-> [k \in Kind |-> <<>>]]
    /\ overflowPending = [r \in Worker |-> FALSE]
    /\ wakeSeq = [r \in Worker |-> 0]
    /\ wakePending = [s \in Worker |-> [t \in Worker |-> 0]]
    /\ wakeList = [s \in Worker |-> <<>>]
    /\ outbox = [s \in Worker |-> {}]
    /\ wakeCqe = [r \in Worker |-> FALSE]
    /\ drain = [w \in Worker |-> NoDrain]
    /\ cursor = [w \in Worker |-> [sender |-> 0, consumed |-> 0]]
    /\ overflowFirst = [w \in Worker |-> TRUE]
    /\ round = [w \in Worker |-> "quiet"]
    /\ parking = [w \in Worker |-> FALSE]
    /\ seq = [w \in Worker |-> 0]
    /\ bumps = [w \in Worker |-> 0]

Goto(t, l) == pc' = [pc EXCEPT ![t] = l]

-----------------------------------------------------------------------------
(* Posting.  PostRequest, PostReply and PostNotification are one code path *)
(* over the three queues of a lane.                                        *)

(* A coroutine of worker w posts m to worker t.  Only a reply goes to the  *)
(* poster itself: SubmitTaskTo answers a local call through the lane.      *)
Post(w, m, t) ==
    /\ pc[w] = "run" /\ m \in idle /\ (t = w => m \in Rep)
    /\ idle' = idle \ {m}
    /\ post' = [post EXCEPT ![w] = [target |-> t, msg |-> m, queued |-> FALSE]]
    /\ round' = [round EXCEPT ![w] = IF @ = "quiet" THEN "worked" ELSE @]
    /\ Goto(w, "enqueue")
    /\ UNCHANGED <<delivered, laneVars, overVars, wakeSeq, wakeVars, wakeCqe,
                   drainVars, parkVars>>

(* SpscRing::try_enqueue fails when all slots but one are in use.          *)
HasRoom(q) == Len(q) < Capacity - 1

TryEnqueue(w) ==
    LET t == post[w].target
        m == post[w].msg
        room == HasRoom(ring[t][w][KindOf(m)])
    IN  /\ pc[w] = "enqueue"
        /\ ring' = [ring EXCEPT ![t][w][KindOf(m)] =
                       IF room THEN Append(@, m) ELSE @]
        /\ post' = [post EXCEPT ![w].queued = room]
        /\ Goto(w, IF room THEN "mark" ELSE "spill")
        /\ UNCHANGED <<idle, delivered, active, bits, overVars, wakeSeq, wakeVars, wakeCqe,
                       drainVars, round, parkVars>>

EnqueueOverflow(w) ==
    LET t == post[w].target
        m == post[w].msg
    IN  /\ pc[w] = "spill"
        /\ overflow' = [overflow EXCEPT ![t][KindOf(m)] = Append(@, m)]
        /\ Goto(w, "flag")
        /\ UNCHANGED <<postVars, laneVars, overflowPending, wakeSeq, wakeVars,
                       wakeCqe, drainVars, round, parkVars>>

FlagOverflow(w) ==
    /\ pc[w] = "flag"
    /\ overflowPending' = [overflowPending EXCEPT ![post[w].target] = TRUE]
    /\ Goto(w, "mark")
    /\ UNCHANGED <<postVars, laneVars, overflow, wakeSeq, wakeVars, wakeCqe,
                   drainVars, round, parkVars>>

(* The post returns to the coroutine, unless the lane was just activated   *)
(* and the sender's bit is still to be set.                                *)
Return(w, setbit) ==
    /\ Goto(w, IF setbit THEN "setbit" ELSE "run")
    /\ post' = IF setbit THEN post ELSE [post EXCEPT ![w] = NoPost]

(* Mutant: later posts are not told from the first.                        *)
NextPendingOnce(p) == 1

(* wake_pending_ after a post: 1 for the first since the last flush, 2 for *)
(* the later ones.                                                         *)
NextPending(p) == IF p = 0 THEN 1 ELSE 2

(* MarkWakeWorker, and the exchange of ActivateCrossCoreLane if the post   *)
(* has to be published at once.                                            *)
MarkWake(w) ==
    LET t == post[w].target
        first == t # w /\ wakePending[w][t] = 0
        activate == post[w].queued /\ (t = w \/ first)
    IN  /\ pc[w] = "mark"
        /\ wakePending' = [wakePending EXCEPT ![w][t] =
                              IF t = w THEN @ ELSE NextPending(@)]
        /\ wakeList' = [wakeList EXCEPT ![w] =
                           IF first THEN Append(@, t) ELSE @]
        /\ active' = [active EXCEPT ![t][w] = @ \/ activate]
        /\ Return(w, activate /\ ~active[t][w])
        /\ UNCHANGED <<idle, delivered, ring, bits, overVars, wakeSeq, outbox, wakeCqe,
                       drainVars, round, parkVars>>

(* CrossCore::ActivateSender.                                              *)
ActivateSender(w) ==
    /\ pc[w] = "setbit"
    /\ bits' = [bits EXCEPT ![post[w].target] = @ \cup {w}]
    /\ Return(w, FALSE)
    /\ UNCHANGED <<idle, delivered, ring, active, overVars, wakeSeq, wakeVars, wakeCqe,
                   drainVars, round, parkVars>>

-----------------------------------------------------------------------------
(* Draining: DrainCrossCore and DrainCrossCoreImpl.                        *)

BatchFull(n) == \E k \in Kind : n[k] = BatchSize

StartDrain(w) ==
    LET over == overflowPending[w]
        first == over /\ overflowFirst[w]
    IN  /\ pc[w] = "drain"
        /\ overflowPending' = [overflowPending EXCEPT ![w] = FALSE]
        /\ overflowFirst' = [overflowFirst EXCEPT ![w] = IF over THEN ~@ ELSE @]
        /\ drain' = [drain EXCEPT ![w] =
                        [NoDrain EXCEPT !.overflow = over, !.first = first,
                                        !.start = cursor[w].sender]]
        /\ Goto(w, IF first THEN "overflow" ELSE "scan")
        /\ UNCHANGED <<postVars, laneVars, overflow, wakeSeq, wakeVars, wakeCqe,
                       cursor, round, parkVars>>

(* The worker has the messages of q: requests wait for their turn to run,  *)
(* replies and notifications make a coroutine ready.                       *)
Deliver(q) == delivered' = delivered \cup {q[i] : i \in 1..Len(q)}

(* After a full batch of an overflow queue more may be left in it.         *)
LeavesFlag(count, maximum) == count = maximum

(* drain_overflow_queue, once per kind.  The SPSC lanes follow if the      *)
(* overflow queues went first and filled no batch.                         *)
DrainOverflow(w) ==
    LET k == drain[w].kind
        maximum == BatchSize - drain[w].n[k]
        count == Lesser(maximum, Len(overflow[w][k]))
        n == [drain[w].n EXCEPT ![k] = @ + count]
    IN  /\ pc[w] = "overflow"
        /\ Deliver(SubSeq(overflow[w][k], 1, count))
        /\ overflow' = [overflow EXCEPT ![w][k] = Rest(@, count)]
        /\ overflowPending' = [overflowPending EXCEPT ![w] =
                                  @ \/ LeavesFlag(count, maximum)]
        /\ drain' = [drain EXCEPT ![w].n = n, ![w].kind = After(k)]
        /\ Goto(w, IF k # "ntf" THEN "overflow"
                   ELSE IF drain[w].first /\ ~BatchFull(n) THEN "scan"
                   ELSE "return")
        /\ UNCHANGED <<post, idle, laneVars, wakeSeq, wakeVars, wakeCqe, cursor,
                       overflowFirst, round, parkVars>>

(* The next sender of the words taken so far.  Those of the first word     *)
(* that precede the cursor come last.                                      *)
Candidates(d) == IF d.step = WordCount /\ d.active = {} THEN d.wrapped
                 ELSE d.active

(* TakeActiveSenders, for one word of the bitmap.                          *)
TakeActiveSenders(w) ==
    LET d == drain[w]
        taken == {s \in bits[w] : WordOf(s) = WordAt(d.start, d.step)}
        late == {s \in taken : d.step = 0 /\ s < d.start}
    IN  /\ pc[w] = "scan" /\ d.active = {} /\ d.step < WordCount
        /\ bits' = [bits EXCEPT ![w] = @ \ taken]
        /\ drain' = [drain EXCEPT ![w].active = taken \ late,
                                  ![w].wrapped = @ \cup late,
                                  ![w].step = @ + 1]
        /\ UNCHANGED <<pc, postVars, ring, active, overVars, wakeSeq, wakeVars,
                       wakeCqe, cursor, overflowFirst, round, parkVars>>

(* A sender other than the one of the cursor starts a visit of its own.    *)
(* Once a batch is full the remaining senders are skipped.                 *)
VisitSender(w) ==
    LET d == drain[w]
        full == BatchFull(d.n)
    IN  /\ pc[w] = "scan"
        /\ \E s \in Candidates(d) :
              /\ \A u \in Candidates(d) : s <= u
              /\ drain' = [drain EXCEPT ![w].active = @ \ {s},
                                        ![w].wrapped = @ \ {s},
                                        ![w].sender = s, ![w].kind = "req"]
              /\ cursor' = [cursor EXCEPT ![w] =
                               IF full \/ @.sender = s THEN @
                               ELSE [sender |-> s, consumed |-> 0]]
        /\ Goto(w, IF full THEN "close" ELSE "dequeue")
        /\ UNCHANGED <<postVars, laneVars, overVars, wakeSeq, wakeVars, wakeCqe,
                       overflowFirst, round, parkVars>>

(* The cursor after the three queues of sender s have been read.           *)
AdvanceCursor(s, consumed, n) ==
    IF consumed = SenderQuota \/ ~BatchFull(n)
    THEN [sender |-> IF s + 1 = N THEN 0 ELSE s + 1, consumed |-> 0]
    ELSE [sender |-> s, consumed |-> consumed]

(* drain_queue: try_dequeue_bulk on one queue of the lane.                 *)
DrainQueue(w) ==
    LET s == drain[w].sender
        k == drain[w].kind
        maximum == Lesser(BatchSize - drain[w].n[k],
                          SenderQuota - cursor[w].consumed)
        count == Lesser(maximum, Len(ring[w][s][k]))
        n == [drain[w].n EXCEPT ![k] = @ + count]
        consumed == cursor[w].consumed + count
    IN  /\ pc[w] = "dequeue"
        /\ Deliver(SubSeq(ring[w][s][k], 1, count))
        /\ ring' = [ring EXCEPT ![w][s][k] = Rest(@, count)]
        /\ drain' = [drain EXCEPT ![w].n = n, ![w].kind = After(k)]
        /\ cursor' = [cursor EXCEPT ![w] =
                         IF k = "ntf" THEN AdvanceCursor(s, consumed, n)
                         ELSE [sender |-> s, consumed |-> consumed]]
        /\ Goto(w, IF k = "ntf" THEN "close" ELSE "dequeue")
        /\ UNCHANGED <<post, idle, active, bits, overVars, wakeSeq, wakeVars,
                       wakeCqe, overflowFirst, round, parkVars>>

(* The handshake every taken bit ends with: clear active_, look at the     *)
(* three queues again, and take the lane back if one is not empty.         *)
CloseLane(w) ==
    /\ pc[w] = "close"
    /\ active' = [active EXCEPT ![w][drain[w].sender] = FALSE]
    /\ drain' = [drain EXCEPT ![w].kind = "req"]
    /\ Goto(w, "recheck")
    /\ UNCHANGED <<postVars, ring, bits, overVars, wakeSeq, wakeVars, wakeCqe,
                   cursor, overflowFirst, round, parkVars>>

RecheckLane(w) ==
    LET k == drain[w].kind
    IN  /\ pc[w] = "recheck"
        /\ Goto(w, IF ring[w][drain[w].sender][k] # <<>> THEN "reopen"
                   ELSE IF k # "ntf" THEN "recheck" ELSE "scan")
        /\ drain' = [drain EXCEPT ![w].kind = After(k)]
        /\ UNCHANGED <<postVars, laneVars, overVars, wakeSeq, wakeVars, wakeCqe,
                       cursor, overflowFirst, round, parkVars>>

ReopenLane(w) ==
    LET s == drain[w].sender
    IN  /\ pc[w] = "reopen"
        /\ active' = [active EXCEPT ![w][s] = TRUE]
        /\ Goto(w, IF active[w][s] THEN "scan" ELSE "rebit")
        /\ UNCHANGED <<postVars, ring, bits, overVars, wakeSeq, wakeVars,
                       wakeCqe, drainVars, round, parkVars>>

ReactivateSender(w) ==
    /\ pc[w] = "rebit"
    /\ bits' = [bits EXCEPT ![w] = @ \cup {drain[w].sender}]
    /\ Goto(w, "scan")
    /\ UNCHANGED <<postVars, ring, active, overVars, wakeSeq, wakeVars, wakeCqe,
                   drainVars, round, parkVars>>

(* All words are scanned; the overflow queues follow if they did not lead. *)
EndScan(w) ==
    LET d == drain[w]
    IN  /\ pc[w] = "scan" /\ d.step = WordCount /\ Candidates(d) = {}
        /\ drain' = [drain EXCEPT ![w].kind = "req"]
        /\ Goto(w, IF d.overflow /\ ~d.first THEN "overflow" ELSE "return")
        /\ UNCHANGED <<postVars, laneVars, overVars, wakeSeq, wakeVars, wakeCqe,
                       cursor, overflowFirst, round, parkVars>>

StopParking(w) ==
    /\ parking' = [parking EXCEPT ![w] = FALSE]
    /\ seq' = [seq EXCEPT ![w] = 0]
    /\ bumps' = [bumps EXCEPT ![w] = 0]

Found(n) == \E k \in Kind : n[k] > 0

(* DrainCrossCore returns to the round, which then polls the ring...       *)
FinishDrain(w) ==
    /\ pc[w] = "return" /\ ~parking[w]
    /\ drain' = [drain EXCEPT ![w] = NoDrain]
    /\ round' = [round EXCEPT ![w] = IF Found(drain[w].n) \/ wakeCqe[w]
                                     THEN "worked" ELSE "quiet"]
    /\ wakeCqe' = [wakeCqe EXCEPT ![w] = FALSE]
    /\ Goto(w, "run")
    /\ UNCHANGED <<postVars, laneVars, overVars, wakeSeq, wakeVars, cursor,
                   overflowFirst, parkVars>>

(* ... or to the worker about to park, which loops if anything was found.  *)
FinishParkingDrain(w) ==
    LET found == Found(drain[w].n)
    IN  /\ pc[w] = "return" /\ parking[w]
        /\ drain' = [drain EXCEPT ![w] = NoDrain]
        /\ Goto(w, IF found THEN "drain" ELSE "cas")
        /\ IF found THEN StopParking(w) ELSE UNCHANGED parkVars
        /\ UNCHANGED <<postVars, laneVars, overVars, wakeSeq, wakeVars, wakeCqe,
                       cursor, overflowFirst, round>>

-----------------------------------------------------------------------------
(* The end of a round: FlushWakes, Network::Submit, and parking.           *)

(* A lane that got more than its first post is published again...          *)
PublishLane(w) ==
    LET t == Head(wakeList[w])
        more == wakePending[w][t] = 2
    IN  /\ pc[w] \in {"run", "flush"} /\ wakeList[w] # <<>>
        /\ active' = [active EXCEPT ![t][w] = @ \/ more]
        /\ Goto(w, IF more /\ ~active[t][w] THEN "pubbit" ELSE "bump")
        /\ UNCHANGED <<postVars, ring, bits, overVars, wakeSeq, wakeVars,
                       wakeCqe, drainVars, round, parkVars>>

PublishSender(w) ==
    /\ pc[w] = "pubbit"
    /\ bits' = [bits EXCEPT ![Head(wakeList[w])] = @ \cup {w}]
    /\ Goto(w, "bump")
    /\ UNCHANGED <<postVars, ring, active, overVars, wakeSeq, wakeVars, wakeCqe,
                   drainVars, round, parkVars>>

(* wake_seq_.fetch_add(1).  Fewer than SeqMod increments (2^32 in the code)*)
(* fit between the owner's snapshot and its CAS.                           *)
Bump(r) ==
    /\ parking[r] => bumps[r] + 1 < SeqMod
    /\ wakeSeq' = [wakeSeq EXCEPT ![r] = IF @ + 1 = SeqMod THEN 0 ELSE @ + 1]
    /\ bumps' = [bumps EXCEPT ![r] = IF parking[r] THEN @ + 1 ELSE @]

(* The increment found the owner parked: wake it.                          *)
MustWake(r) == wakeSeq[r] = Parked

(* ... then its receiver's wake_seq_ is bumped.                            *)
BumpTarget(w) ==
    LET t == Head(wakeList[w])
    IN  /\ pc[w] = "bump"
        /\ Bump(t)
        /\ wakePending' = [wakePending EXCEPT ![w][t] = 0]
        /\ wakeList' = [wakeList EXCEPT ![w] = Tail(@)]
        /\ outbox' = [outbox EXCEPT ![w] = IF MustWake(t) THEN @ \cup {t} ELSE @]
        /\ Goto(w, "flush")
        /\ UNCHANGED <<postVars, laneVars, overVars, wakeCqe, drainVars, round,
                       parking, seq>>

(* Mutant: HasPending does not count as work.                              *)
EndFlushParks(w, pending) ==
    /\ round' = [round EXCEPT ![w] = "quiet"]
    /\ Goto(w, IF round[w] = "quiet" THEN "idle" ELSE "drain")

(* A first flush may be followed by a slice of background work; otherwise  *)
(* the round ends, and a worker that did nothing is idle.                  *)
EndFlush(w, pending) ==
    \/ /\ round[w] # "maintained"
       /\ round' = [round EXCEPT ![w] = "maintained"]
       /\ Goto(w, "run")
    \/ /\ round' = [round EXCEPT ![w] = "quiet"]
       /\ Goto(w, IF round[w] = "quiet" /\ ~pending THEN "idle" ELSE "drain")

(* Network::Submit.  A MSG_RING leaves a completion in the target's ring   *)
(* and one in the sender's own.                                            *)
Submit(w) ==
    /\ pc[w] \in {"run", "flush"} /\ wakeList[w] = <<>>
    /\ wakeCqe' = [r \in Worker |-> \/ wakeCqe[r] \/ r \in outbox[w]
                                    \/ r = w /\ outbox[w] # {}]
    /\ outbox' = [outbox EXCEPT ![w] = {}]
    /\ EndFlush(w, FALSE)
    /\ UNCHANGED <<postVars, laneVars, overVars, wakeSeq, wakePending, wakeList,
                   drainVars, parkVars>>

(* The kernel takes nothing (backpressure): what is pending is submitted   *)
(* again by the next round, and keeps the worker from parking.             *)
SubmitUnavailable(w) ==
    /\ pc[w] \in {"run", "flush"} /\ wakeList[w] = <<>> /\ outbox[w] # {}
    /\ EndFlush(w, TRUE)
    /\ UNCHANGED <<postVars, laneVars, overVars, wakeSeq, wakeVars, wakeCqe,
                   drainVars, parkVars>>

(* BusyPoll, or storage that needs polling: drain again.                   *)
BusyPoll(w) ==
    /\ pc[w] = "idle"
    /\ Goto(w, "drain")
    /\ UNCHANGED <<postVars, laneVars, overVars, wakeSeq, wakeVars, wakeCqe,
                   drainVars, round, parkVars>>

(* Parking: snapshot wake_seq_ and drain once more, then CAS.              *)
Snapshot(w) ==
    /\ pc[w] = "idle"
    /\ parking' = [parking EXCEPT ![w] = TRUE]
    /\ seq' = [seq EXCEPT ![w] = wakeSeq[w]]
    /\ bumps' = [bumps EXCEPT ![w] = 0]
    /\ Goto(w, "drain")
    /\ UNCHANGED <<postVars, laneVars, overVars, wakeSeq, wakeVars, wakeCqe,
                   drainVars, round>>

(* Mutant: the worker parks without comparing.                             *)
CasSucceedsAlways(w) == TRUE

CasSucceeds(w) == wakeSeq[w] = seq[w]

Park(w) ==
    /\ pc[w] = "cas"
    /\ wakeSeq' = [wakeSeq EXCEPT ![w] = IF CasSucceeds(w) THEN Parked ELSE @]
    /\ Goto(w, IF CasSucceeds(w) THEN "wait" ELSE "drain")
    /\ StopParking(w)
    /\ UNCHANGED <<postVars, laneVars, overVars, wakeVars, wakeCqe, drainVars,
                   round>>

(* Network::Wait returns on a wake...                                      *)
Wake(w) ==
    /\ pc[w] = "wait" /\ wakeCqe[w]
    /\ wakeCqe' = [wakeCqe EXCEPT ![w] = FALSE]
    /\ Goto(w, "unpark")
    /\ UNCHANGED <<postVars, laneVars, overVars, wakeSeq, wakeVars, drainVars,
                   round, parkVars>>

(* ... or on an I/O completion, a timeout or a signal.                     *)
WakeOther(w) ==
    /\ pc[w] = "wait" /\ ~wakeCqe[w]
    /\ Goto(w, "unpark")
    /\ UNCHANGED <<postVars, laneVars, overVars, wakeSeq, wakeVars, wakeCqe,
                   drainVars, round, parkVars>>

Unpark(w) ==
    /\ pc[w] = "unpark"
    /\ wakeSeq' = [wakeSeq EXCEPT ![w] = 0]
    /\ Goto(w, "drain")
    /\ UNCHANGED <<postVars, laneVars, overVars, wakeVars, wakeCqe, drainVars,
                   round, parkVars>>

-----------------------------------------------------------------------------
(* PostForeignNotification, on a thread that is not a worker.              *)

ForeignPost(f, m, t) ==
    /\ pc[f] = "foreign" /\ m \in idle \cap Ntf
    /\ idle' = idle \ {m}
    /\ post' = [post EXCEPT ![f].target = t]
    /\ overflow' = [overflow EXCEPT ![t]["ntf"] = Append(@, m)]
    /\ Goto(f, "foreign_flag")
    /\ UNCHANGED <<delivered, laneVars, overflowPending, wakeSeq, wakeVars,
                   wakeCqe, drainVars, round, parkVars>>

ForeignFlag(f) ==
    /\ pc[f] = "foreign_flag"
    /\ overflowPending' = [overflowPending EXCEPT ![post[f].target] = TRUE]
    /\ Goto(f, "foreign_bump")
    /\ UNCHANGED <<postVars, laneVars, overflow, wakeSeq, wakeVars, wakeCqe,
                   drainVars, round, parkVars>>

ForeignBump(f) ==
    /\ pc[f] = "foreign_bump"
    /\ Bump(post[f].target)
    /\ Goto(f, IF MustWake(post[f].target) THEN "foreign_wake" ELSE "foreign")
    /\ UNCHANGED <<postVars, laneVars, overVars, wakeVars, wakeCqe, drainVars,
                   round, parking, seq>>

ForeignWake(f) ==
    /\ pc[f] = "foreign_wake"
    /\ wakeCqe' = [wakeCqe EXCEPT ![post[f].target] = TRUE]
    /\ Goto(f, "foreign")
    /\ UNCHANGED <<postVars, laneVars, overVars, wakeSeq, wakeVars, drainVars,
                   round, parkVars>>

-----------------------------------------------------------------------------
PostStep(w) ==
    \/ TryEnqueue(w) \/ EnqueueOverflow(w) \/ FlagOverflow(w)
    \/ MarkWake(w) \/ ActivateSender(w)

DrainStep(w) ==
    \/ StartDrain(w) \/ DrainOverflow(w) \/ TakeActiveSenders(w)
    \/ VisitSender(w) \/ DrainQueue(w) \/ CloseLane(w) \/ RecheckLane(w)
    \/ ReopenLane(w) \/ ReactivateSender(w) \/ EndScan(w)
    \/ FinishDrain(w) \/ FinishParkingDrain(w)

RoundStep(w) ==
    \/ PublishLane(w) \/ PublishSender(w) \/ BumpTarget(w) \/ Submit(w)
    \/ BusyPoll(w) \/ Snapshot(w) \/ Park(w) \/ Wake(w) \/ Unpark(w)

(* What a worker does of itself; posting and waking early is up to its     *)
(* coroutines and to the traffic.                                          *)
Step(w) == PostStep(w) \/ DrainStep(w) \/ RoundStep(w)
ForeignStep(f) == ForeignFlag(f) \/ ForeignBump(f) \/ ForeignWake(f)

Next ==
    \/ \E w \in Worker : Step(w) \/ SubmitUnavailable(w) \/ WakeOther(w)
    \/ \E w \in Worker, m \in Msg, t \in Worker : Post(w, m, t)
    \/ \E f \in Foreign : ForeignStep(f)
    \/ \E f \in Foreign, m \in Ntf, t \in Worker : ForeignPost(f, m, t)

Spec == Init /\ [][Next]_vars

(* Threads keep running, a wait returns when a wake is in the ring, and    *)
(* backpressure does not last for ever.                                    *)
Fairness ==
    /\ \A w \in Worker : WF_vars(Step(w)) /\ SF_vars(Submit(w))
    /\ \A f \in Foreign : WF_vars(ForeignStep(f))
FairSpec == Spec /\ Fairness

-----------------------------------------------------------------------------
WorkerLocations ==
    {"drain", "overflow", "scan", "dequeue", "close", "recheck", "reopen",
     "rebit", "return", "run", "enqueue", "spill", "flag", "mark", "setbit",
     "flush", "pubbit", "bump", "idle", "cas", "wait", "unpark"}
ForeignLocations == {"foreign", "foreign_flag", "foreign_bump", "foreign_wake"}

DrainState ==
    [overflow : BOOLEAN, first : BOOLEAN, start : Worker, step : 0..WordCount,
     active : SUBSET Worker, wrapped : SUBSET Worker, sender : Worker,
     kind : Kind, n : [Kind -> 0..BatchSize]]

LocationsOK ==
    /\ pc \in [Thread -> WorkerLocations \cup ForeignLocations]
    /\ \A w \in Worker : pc[w] \in WorkerLocations
    /\ \A f \in Foreign : pc[f] \in ForeignLocations

(* Every queue of lanes and mailboxes holds messages, and the counters of  *)
(* a drain stay within kBatchSize and kSenderQuota.                        *)
TypeOK ==
    /\ LocationsOK
    /\ post \in [Thread -> [target : Worker, msg : Msg, queued : BOOLEAN]]
    /\ idle \in SUBSET Msg /\ delivered \in SUBSET Msg
    /\ ring \in [Worker -> [Worker -> [Kind -> Seq(Msg)]]]
    /\ active \in [Worker -> [Worker -> BOOLEAN]]
    /\ bits \in [Worker -> SUBSET Worker]
    /\ overflow \in [Worker -> [Kind -> Seq(Msg)]]
    /\ overflowPending \in [Worker -> BOOLEAN]
    /\ wakeSeq \in [Worker -> 0..(SeqMod - 1)]
    /\ wakePending \in [Worker -> [Worker -> 0..2]]
    /\ wakeList \in [Worker -> Seq(Worker)]
    /\ outbox \in [Worker -> SUBSET Worker]
    /\ wakeCqe \in [Worker -> BOOLEAN]
    /\ drain \in [Worker -> DrainState]
    /\ cursor \in [Worker -> [sender : Worker, consumed : 0..SenderQuota]]
    /\ overflowFirst \in [Worker -> BOOLEAN]
    /\ round \in [Worker -> {"quiet", "worked", "maintained"}]
    /\ parking \in [Worker -> BOOLEAN]
    /\ seq \in [Worker -> 0..(SeqMod - 1)]
    /\ bumps \in [Worker -> 0..(SeqMod - 1)]

(* Thread p still has to bump the wake_seq_ of worker r for what it posted.*)
Owes(p, r) ==
    \/ /\ p \in Worker \ {r}
       /\ \/ \E i \in 1..Len(wakeList[p]) : wakeList[p][i] = r
          \/ pc[p] \in {"flag", "mark"} /\ post[p].target = r
    \/ /\ p \in Foreign
       /\ pc[p] \in {"foreign_flag", "foreign_bump"} /\ post[p].target = r

(* A wake decided on for worker r is on its way, or in its ring.           *)
WakeComing(r) ==
    \/ wakeCqe[r]
    \/ \E s \in Worker : r \in outbox[s]
    \/ \E f \in Foreign : pc[f] = "foreign_wake" /\ post[f].target = r

SleepsSafely(r) ==
    pc[r] = "wait" /\ ~WakeComing(r) =>
        /\ wakeSeq[r] = Parked
        /\ \A s \in Worker, k \in Kind : ring[r][s][k] # <<>> => Owes(s, r)
        /\ \A k \in Kind : overflow[r][k] # <<>> => \E p \in Thread : Owes(p, r)

(* No lost wakeup, the wake_seq_ handshake of RunOnce, FlushWakes and      *)
(* WakeForeign: when a worker is blocked and no wake is on its way, every  *)
(* message in its lanes and overflow queues comes from a thread that still *)
(* has to bump wake_seq_, and that will find the worker parked.            *)
NoLostWakeup == \A r \in Worker : SleepsSafely(r)

(* The receiver has taken the bit of sender s and has not finished the     *)
(* handshake yet.                                                          *)
Visiting(r, s) ==
    \/ s \in drain[r].active \cup drain[r].wrapped
    \/ /\ pc[r] \in {"dequeue", "close", "recheck", "reopen", "rebit"}
       /\ drain[r].sender = s

(* No lost publication (active_, the bitmap and wake_pending_): a lane     *)
(* that holds a message is in its receiver's bitmap, or is being visited,  *)
(* or its sender will publish it: now, or in the FlushWakes that ends the  *)
(* sender's round.                                                         *)
NoLostPublication ==
    \A r, s \in Worker :
        (\E k \in Kind : ring[r][s][k] # <<>>) =>
            \/ s \in bits[r]
            \/ Visiting(r, s)
            \/ pc[s] \in {"mark", "setbit"} /\ post[s].target = r
            \/ /\ wakePending[s][r] = 2
               /\ \E i \in 1..Len(wakeList[s]) : wakeList[s][i] = r

=============================================================================
