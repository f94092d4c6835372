---------------------------- MODULE DpdkSockets -----------------------------
(***************************************************************************)
(* The sockets of one DPDK worker: the table of reusable numbers with its  *)
(* pins (DpdkSocketTable), the requests pending on sockets, and the        *)
(* completions queued for the next delivery.  One step is one request      *)
(* examined by SocketCompletions, one callback, or one call of a caller.   *)
(***************************************************************************)
EXTENDS Naturals, Sequences, FiniteSets, SequencesExt

CONSTANTS Tag,          \* IoCompletion objects of callers
          MaxSockets,   \* sockets FreeBSD ever creates (bound)
          capacity, None

VARIABLES
  table,        \* [slots: Seq([socket, pins]), free: Seq(slot), a stack]
  pending,      \* [list -> Seq([tag, slot, sock])]; sock: history, the socket meant
  completions,  \* Seq([tag, more, slot, sock])
  batch,        \* the completions being delivered, and how many have been
  scan,         \* [at, i]: what SocketCompletions looks at; "idle" outside it
  closing,      \* slots whose connection has closing_ or a poll cancel set
  made,         \* sockets created so far
  up            \* initialized, "stopping" inside Shutdown, or "down"

sockVars == <<table, pending, completions, batch, scan, closing, made, up>>

Lists == <<"connects", "accepts", "sends", "reads", "disconnects">>
Slot == 1 .. capacity
Idle == [at |-> 0, i |-> 1]
NoBatch == [items |-> <<>>, done |-> 0]

Init == /\ table = [slots |-> <<>>, free |-> <<>>]
        /\ pending = [l \in ToSet(Lists) |-> <<>>]
        /\ completions = <<>> /\ batch = NoBatch
        /\ scan = Idle /\ closing = {} /\ made = 0 /\ up = "up"

-----------------------------------------------------------------------------
(* DpdkSocketTable *)

Recycle(t, s) == [t EXCEPT !.free = <<s>> \o @]
Socket(t, s) == t.slots[s].socket
Acquire(t, s) == [t EXCEPT !.slots[s].pins = @ + 1]
Reset(t, s) ==
    LET u == [t EXCEPT !.slots[s].pins = @ - 1] IN
    IF u.slots[s].pins = 0 /\ Socket(u, s) = None THEN Recycle(u, s) ELSE u

CanInsert(t) == t.free # <<>> \/ Len(t.slots) < capacity
NextSlot(t) == IF t.free # <<>> THEN Head(t.free) ELSE Len(t.slots) + 1
Insert(t, so) ==
    IF t.free # <<>>
    THEN [slots |-> [t.slots EXCEPT ![Head(t.free)].socket = so], free |-> Tail(t.free)]
    ELSE [t EXCEPT !.slots = Append(@, [socket |-> so, pins |-> 0])]

(* Mutant: the number is free at once.                                   *)
CloseAndRecycle(t, s) ==
    IF Socket(t, s) = None THEN t ELSE Recycle([t EXCEPT !.slots[s].socket = None], s)

CloseSlot(t, s) ==
    LET u == [t EXCEPT !.slots[s].socket = None] IN
    IF Socket(t, s) # None /\ t.slots[s].pins = 0 THEN Recycle(u, s) ELSE u

Open == {s \in 1 .. Len(table.slots) : Socket(table, s) # None}

-----------------------------------------------------------------------------
(* Calls of coroutines, between two polls, and of callbacks, inside one:   *)
(* the callback of a disconnected peer runs while its list is scanned.     *)
Callers == up = "up" /\ (scan.at \in {0, Len(Lists)} \/ batch.items # <<>>)

Queued == completions \o SubSeq(batch.items, batch.done + 1, Len(batch.items))
Waiting(q) == {q[k].tag : k \in 1 .. Len(q)}
Outstanding == UNION {Waiting(pending[l]) : l \in DOMAIN pending} \cup Waiting(Queued)

(* Listen, OpenClient: FreeBSD creates a socket, Own numbers it or closes it. *)
Own(t) == IF CanInsert(t) THEN Insert(t, made + 1) ELSE t
Create ==
    /\ Callers /\ made < MaxSockets
    /\ table' = Own(table) /\ made' = made + 1
    /\ closing' = IF CanInsert(table) THEN closing \ {NextSlot(table)} ELSE closing
    /\ UNCHANGED <<pending, completions, batch, scan, up>>

(* StartRecvMultishot, StartPeerDisconnectPoll: once for each connection,  *)
(* and not while it closes.                                                *)
MayStart(l, s) ==
    l \in {"reads", "disconnects"} =>
      s \notin closing /\ \A k \in DOMAIN pending[l] : pending[l][k].slot # s
(* They, SubmitSend, SubmitSendMsg, SubmitConnect and                      *)
(* SubmitAcceptMultishot pin the socket and queue.                         *)
Request(t, s) == [tag |-> t, slot |-> s, sock |-> Socket(table, s)]
SubmitRequest(l, t, s) ==
    /\ Callers /\ s \in Open /\ t \notin Outstanding /\ MayStart(l, s)
    /\ table' = Acquire(table, s)
    /\ pending' = [pending EXCEPT ![l] = Append(@, Request(t, s))]
    /\ UNCHANGED <<completions, batch, scan, closing, made, up>>

QueueCompletion(r, more) ==
    completions' = Append(completions, [tag |-> r.tag, more |-> more,
                                        slot |-> r.slot, sock |-> r.sock])
(* SubmitConnect that FreeBSD refuses at once. *)
ConnectRefused(t, s) ==
    /\ Callers /\ s \in Open /\ t \notin Outstanding
    /\ table' = Acquire(table, s)
    /\ QueueCompletion(Request(t, s), FALSE)
    /\ UNCHANGED <<pending, batch, scan, closing, made, up>>

(* SubmitCancel: the request leaves its list, its completion is queued.    *)
(* One that is not pending any more is left to the kernel ring.            *)
SubmitCancel(l, k) ==
    /\ Callers /\ l \in {"accepts", "sends", "connects"}
    /\ pending' = [pending EXCEPT ![l] = RemoveAt(@, k)]
    /\ QueueCompletion(pending[l][k], FALSE)
    /\ UNCHANGED <<table, batch, scan, closing, made, up>>

(* SubmitCancelRecv: FinishRead at once; the cancel's own tag, if it has   *)
(* one, is queued with the pin.                                            *)
SubmitCancelRecv(k) ==
    /\ Callers
    /\ pending' = [pending EXCEPT !["reads"] = RemoveAt(@, k)]
    /\ \/ QueueCompletion(pending["reads"][k], FALSE) /\ UNCHANGED table
       \/ table' = Reset(table, pending["reads"][k].slot) /\ UNCHANGED completions
    /\ UNCHANGED <<batch, scan, closing, made, up>>

(* closing_ of the connection, or CancelPeerDisconnectPoll. *)
StartClosing(s) ==
    /\ Callers /\ s \in Open \ closing /\ closing' = closing \cup {s}
    /\ UNCHANGED <<table, pending, completions, batch, scan, made, up>>

Close(s) ==
    /\ Callers /\ s \in Open
    /\ table' = CloseSlot(table, s)
    /\ UNCHANGED <<pending, completions, batch, scan, closing, made, up>>

-----------------------------------------------------------------------------
(* SocketCompletions *)

Poll == /\ up = "up" /\ scan = Idle
        /\ scan' = [at |-> 1, i |-> 1]
        /\ UNCHANGED <<table, pending, completions, batch, closing, made, up>>

Scanning(ls) == scan.at \in 1 .. Len(Lists) /\ Lists[scan.at] \in ls
List == Lists[scan.at]
Current == pending[List][scan.i]
HasCurrent == scan.i <= Len(pending[List])
Gone == Socket(table, Current.slot) = None
Erase == pending' = [pending EXCEPT ![List] = RemoveAt(@, scan.i)]
Skip == scan' = [scan EXCEPT !.i = @ + 1]

(* EAGAIN of a live socket: look again at the next poll. *)
Again == /\ Scanning(ToSet(Lists)) /\ HasCurrent /\ ~Gone
         /\ List \in {"reads", "disconnects"} => Current.slot \notin closing
         /\ Skip
         /\ UNCHANGED <<table, pending, completions, batch, closing, made, up>>

(* A connect, a send or a failed accept: done, refused, or the socket gone. *)
Finish ==
    /\ Scanning({"connects", "accepts", "sends"}) /\ HasCurrent
    /\ Erase /\ QueueCompletion(Current, FALSE)
    /\ UNCHANGED <<table, batch, scan, closing, made, up>>

(* An accepted connection: the request stays, its pin is copied. *)
Accepted ==
    /\ Scanning({"accepts"}) /\ HasCurrent /\ ~Gone /\ made < MaxSockets
    /\ table' = Acquire(Own(table), Current.slot)
    /\ closing' = IF CanInsert(table) THEN closing \ {NextSlot(table)} ELSE closing
    /\ made' = made + 1
    /\ QueueCompletion(Current, TRUE)
    /\ Skip
    /\ UNCHANGED <<pending, batch, up>>

(* A read or a disconnect poll: finished in place, its pin dropped. *)
FinishInPlace ==
    /\ Scanning({"reads", "disconnects"}) /\ HasCurrent
    /\ Erase /\ table' = Reset(table, Current.slot)
    /\ UNCHANGED <<completions, batch, scan, closing, made, up>>

NextList ==
    /\ Scanning(ToSet(Lists)) /\ ~HasCurrent
    /\ scan' = [at |-> scan.at + 1, i |-> 1]
    /\ IF scan.at = Len(Lists) THEN /\ batch' = [items |-> completions, done |-> 0]
                                    /\ completions' = <<>>
       ELSE UNCHANGED <<batch, completions>>
    /\ UNCHANGED <<table, pending, closing, made, up>>

(* One callback of the batch; its pins are held until all have returned.   *)
Complete ==
    /\ scan.at > Len(Lists) /\ batch.done < Len(batch.items)
    /\ batch' = [batch EXCEPT !.done = @ + 1]
    /\ UNCHANGED <<table, pending, completions, scan, closing, made, up>>
EndPoll ==
    /\ scan.at > Len(Lists) /\ batch.done = Len(batch.items)
    /\ table' = FoldLeft(LAMBDA t, c : Reset(t, c.slot), table, batch.items)
    /\ batch' = NoBatch /\ scan' = Idle
    /\ up' = IF up = "stopping" THEN "down" ELSE up
    /\ UNCHANGED <<pending, completions, closing, made>>

(* Shutdown: CloseAll, then one SocketCompletions. *)
CloseAll == FoldLeft(CloseSlot, table, [k \in 1 .. Len(table.slots) |-> k])
Shutdown ==
    /\ up = "up" /\ scan = Idle
    /\ table' = CloseAll
    /\ up' = "stopping" /\ scan' = [at |-> 1, i |-> 1]
    /\ UNCHANGED <<pending, completions, batch, closing, made>>

Next == \/ Create \/ Poll \/ Again \/ Finish \/ Accepted \/ FinishInPlace
        \/ NextList \/ Complete \/ EndPoll \/ Shutdown
        \/ \E l \in ToSet(Lists), t \in Tag, s \in Slot : SubmitRequest(l, t, s)
        \/ \E t \in Tag, s \in Slot : ConnectRefused(t, s)
        \/ \E l \in ToSet(Lists), k \in 1 .. Cardinality(Tag) :
             k <= Len(pending[l]) /\ SubmitCancel(l, k)
        \/ \E k \in 1 .. Cardinality(Tag) : k <= Len(pending["reads"]) /\ SubmitCancelRecv(k)
        \/ \E s \in Slot : StartClosing(s) \/ Close(s)

-----------------------------------------------------------------------------
InUse == LET All(l) == {pending[l][k] : k \in DOMAIN pending[l]} IN
         UNION {All(l) : l \in DOMAIN pending}
         \cup {completions[k] : k \in DOMAIN completions}
         \cup {batch.items[k] : k \in DOMAIN batch.items}

(* A number is not reused while anybody may still use it for the old       *)
(* socket: the slot of every request, queued completion and running        *)
(* callback holds its own socket or none, and is not in the free list,     *)
(* which holds each free slot once.                                        *)
PinsHold == /\ \A r \in InUse : /\ Socket(table, r.slot) \in {r.sock, None}
                                /\ r.slot \notin ToSet(table.free)
            /\ \A s \in ToSet(table.free) : table.slots[s] = [socket |-> None, pins |-> 0]
            /\ Len(table.free) = Cardinality(ToSet(table.free))

(* Every caller's completion is called exactly once: an outstanding tag    *)
(* has one request or one queued terminal completion, whatever cancels,    *)
(* closes and refusals met it; and Shutdown leaves no request, completion, *)
(* socket or pin behind (AssertDrained).                                   *)
OneAnswerEach ==
    /\ \A t \in Tag :
         LET In(q) == Len(SelectSeq(q, LAMBDA r : r.tag = t))
             Terminal(q) == Len(SelectSeq(q, LAMBDA r : r.tag = t /\ ~r.more)) IN
         FoldLeft(LAMBDA n, l : n + In(pending[l]), Terminal(Queued), Lists) <= 1
    /\ up = "down" => /\ Outstanding = {}
                      /\ \A s \in DOMAIN table.slots :
                           table.slots[s] = [socket |-> None, pins |-> 0]
=============================================================================
