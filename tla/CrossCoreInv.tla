---------------------------- MODULE CrossCoreInv ----------------------------
(***************************************************************************)
(* The inductive invariant behind NoLostWakeup and NoLostPublication, and  *)
(* the refinement of Mailbox.                                              *)
(***************************************************************************)
EXTENDS CrossCore

(* The queues still to be visited when the one of kind j is next.          *)
AtOrAfter(j, k) == j = "req" \/ j = k \/ k = "ntf"

InList(s, t) == \E i \in 1..Len(wakeList[s]) : wakeList[s][i] = t

Scanning == {"scan", "dequeue", "close", "recheck", "reopen", "rebit"}

(* FlushWakes handles a target only while there is one.                    *)
FlushOK ==
    \A s \in Worker : pc[s] \in {"pubbit", "bump"} => wakeList[s] # <<>>

(* A target with wake_pending_ set is in wake_list_, and a worker never    *)
(* marks itself.  FlushWakes sets a bit only for later posts.              *)
WakeListOK ==
    /\ \A s, t \in Worker : wakePending[s][t] # 0 => s # t /\ InList(s, t)
    /\ \A s \in Worker :
          pc[s] = "pubbit" => wakePending[s][Head(wakeList[s])] = 2

(* Senders are taken from the bitmap only while a scan runs.               *)
TakenOK ==
    \A r \in Worker :
        pc[r] \notin Scanning => drain[r].active = {} /\ drain[r].wrapped = {}

(* Lane s of r is in the bitmap, or held by its receiver, or somebody is   *)
(* about to set its bit.                                                   *)
Held(r, s) ==
    \/ s \in bits[r]
    \/ s \in drain[r].active \cup drain[r].wrapped
    \/ pc[r] \in {"dequeue", "close", "rebit"} /\ drain[r].sender = s
    \/ pc[s] = "setbit" /\ post[s].target = r
    \/ pc[s] = "pubbit" /\ Head(wakeList[s]) = r

ActiveLaneOK == \A r, s \in Worker : active[r][s] => Held(r, s)

(* Lane s of r is active, or its sender has not marked or flushed it yet,  *)
(* or its receiver is about to look at the queue of kind k again.          *)
Announced(r, s, k) ==
    \/ active[r][s]
    \/ pc[s] = "mark" /\ post[s].target = r /\ post[s].queued
    \/ /\ wakePending[s][r] = 2
       /\ ~(pc[s] \in {"pubbit", "bump"} /\ Head(wakeList[s]) = r)
    \/ pc[r] = "reopen" /\ drain[r].sender = s
    \/ /\ pc[r] = "recheck" /\ drain[r].sender = s
       /\ AtOrAfter(drain[r].kind, k)

NonemptyLaneOK ==
    \A r, s \in Worker, k \in Kind : ring[r][s][k] # <<>> => Announced(r, s, k)

(* The invariant of the lanes alone.                                       *)
LaneInv ==
    /\ TypeOK /\ FlushOK /\ WakeListOK /\ TakenOK /\ ActiveLaneOK
    /\ NonemptyLaneOK

(* A quota can be used up only by messages of this very drain; a parking   *)
(* worker is in its drain or before the CAS, which it reaches with nothing *)
(* found.                                                                  *)
DrainOK(r) ==
    /\ cursor[r].consumed = SenderQuota => pc[r] = "dequeue" /\ Found(drain[r].n)
    /\ parking[r] => pc[r] \in Scanning \cup {"drain", "overflow", "return", "cas"}
    /\ pc[r] = "cas" => parking[r] /\ ~Found(drain[r].n)

(* A lane is activated after its receiver was put in wake_list_.           *)
PostedOK(s) ==
    pc[s] = "setbit" /\ post[s].target # s => InList(s, post[s].target)

(* The drain under way will still look at overflow queue k.                *)
OverflowDue(r, k) ==
    /\ drain[r].overflow
    /\ \/ pc[r] = "overflow" /\ AtOrAfter(drain[r].kind, k)
       \/ pc[r] \in Scanning /\ ~drain[r].first

Flagging(p, r) == pc[p] \in {"flag", "foreign_flag"} /\ post[p].target = r

(* A message in an overflow queue is flagged, or about to be, or due.      *)
OverflowOK(r) ==
    \A k \in Kind :
        overflow[r][k] # <<>> =>
            \/ overflowPending[r]
            \/ \E p \in Thread : Flagging(p, r)
            \/ OverflowDue(r, k)

(* The scan has yet to read the word of sender s.                          *)
Unread(r, s) ==
    \A i \in 0..(drain[r].step - 1) : WordAt(drain[r].start, i) # WordOf(s)

(* The drain under way will still look at queue k of the lane of s.        *)
LaneDue(r, s, k) ==
    \/ pc[r] = "drain"
    \/ /\ pc[r] \in Scanning \/ (pc[r] = "overflow" /\ drain[r].first)
       /\ s \in bits[r] /\ Unread(r, s)
    \/ s \in drain[r].active \cup drain[r].wrapped
    \/ /\ pc[r] = "dequeue" /\ drain[r].sender = s
       /\ AtOrAfter(drain[r].kind, k)

(* The drain will still see every message whose poster has already bumped  *)
(* wake_seq_.                                                              *)
SeesAll(r) ==
    /\ \A s \in Worker, k \in Kind :
          ring[r][s][k] # <<>> => Owes(s, r) \/ LaneDue(r, s, k)
    /\ \A k \in Kind :
          overflow[r][k] # <<>> =>
              (\E p \in Thread : Owes(p, r)) \/ pc[r] = "drain" \/ OverflowDue(r, k)

(* The bumps since the snapshot are what wake_seq_ has moved.  Without any *)
(* the drain sees all, or has found something.                             *)
ParkingOK(r) ==
    parking[r] =>
        /\ wakeSeq[r] = IF seq[r] + bumps[r] < SeqMod THEN seq[r] + bumps[r]
                        ELSE seq[r] + bumps[r] - SeqMod
        /\ bumps[r] = 0 /\ ~Found(drain[r].n) => SeesAll(r)

(* What holds of one worker.                                               *)
WorkerInv(r) ==
    DrainOK(r) /\ PostedOK(r) /\ OverflowOK(r) /\ ParkingOK(r) /\ SleepsSafely(r)

(* The inductive invariant of the handshakes between posters, drains and   *)
(* parking workers.                                                        *)
IInv == LaneInv /\ \A r \in Worker : WorkerInv(r)

(* A message is under way to r from the start of its post until a drain of *)
(* r takes it.                                                             *)
Transit(r) ==
    {m \in Msg :
        \/ \E s \in Worker :
              \/ \E i \in 1..Len(ring[r][s][KindOf(m)]) :
                    ring[r][s][KindOf(m)][i] = m
              \/ /\ pc[s] \in {"enqueue", "spill"}
                 /\ post[s].target = r /\ post[s].msg = m
        \/ \E i \in 1..Len(overflow[r][KindOf(m)]) :
              overflow[r][KindOf(m)][i] = m}

MailboxOf == INSTANCE Mailbox WITH transit <- [r \in Worker |-> Transit(r)]

(* Posting and draining implement exactly-once delivery: no interleaving   *)
(* of TryEnqueue, the overflow queue and bulk dequeues loses a message,    *)
(* duplicates it or delivers one that was not posted.                      *)
DeliversOnce == MailboxOf!Spec

(* Every message that is posted is delivered, although its receiver may be *)
(* parked, its lane full, or its flag cleared by a drain that came first.  *)
DeliversEventually == MailboxOf!FairSpec
=============================================================================
