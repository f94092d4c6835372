----------------------------- MODULE TcpService -----------------------------
(***************************************************************************)
(* A TCP service on several workers (src/net/tcp_service.cpp): one         *)
(* listener per worker with its multishot accept (tcp_listener.cpp), the   *)
(* accept loops, the hop of an accepted connection to the worker that will *)
(* serve it, the sessions, and Stop from a control thread.                 *)
(*                                                                         *)
(* A worker runs one coroutine at a time and a step of it is atomic for    *)
(* the others of that worker: Run goes from its check of stopping_ to the  *)
(* first suspension of the accept loop without one.                        *)
(***************************************************************************)
EXTENDS Naturals, FiniteSets, SequencesExt

CONSTANTS Worker, Client, Nobody

VARIABLES
    stopping, todo,   \* stopping_; workers Stop has still to look at, or "idle"
    ready,            \* WorkerControl::ready_
    notices,          \* workers with an undelivered CloseListeners
    stopWorker,       \* Worker::stop_requested of each worker
    run,              \* Run and accept loop: "new", "published", "accept",
                      \* "waiting", "woken", "submit", "submitted", "replied", "done", "gone"
    listener,         \* "none", "open", "closed"
    armed,            \* the ring holds the multishot accept
    accepted,         \* accepted_fds_
    error,            \* last_error_ is set
    left,             \* workers that left their loop
    hand, reply,      \* the connection an accept loop has taken; StartSession's answer
    target,           \* of a connection on its way: the worker that serves it
    conn,             \* "away", "queued", "taken", "moving", "spawned",
                      \* "session", "closed"
    slots             \* history: per client, <<admissions, OnConnectionClosed>>

svcVars == <<stopping, todo, ready, notices, stopWorker, run, listener, armed,
             accepted, error, left, hand, reply, target, conn, slots>>
stopVars == <<stopping, todo>>
listenVars == <<listener, armed, accepted, error>>
connVars == <<hand, reply, target, conn, slots>>

Init == /\ stopping = FALSE /\ todo = {} /\ notices = {}
        /\ ready = [w \in Worker |-> FALSE]
        /\ stopWorker = [w \in Worker |-> FALSE]
        /\ run = [w \in Worker |-> "new"]
        /\ listener = [w \in Worker |-> "none"]
        /\ armed = [w \in Worker |-> FALSE]
        /\ accepted = [w \in Worker |-> <<>>]
        /\ error = [w \in Worker |-> FALSE]
        /\ left = {} /\ hand = [w \in Worker |-> Nobody]
        /\ reply = [w \in Worker |-> "none"]
        /\ target = [c \in Client |-> Nobody]
        /\ conn = [c \in Client |-> "away"]
        /\ slots = [c \in Client |-> <<0, 0>>]

InLoop(w) == w \notin left
At(w, pc) == run[w] = pc
Goto(w, pc) == run' = [run EXCEPT ![w] = pc]
Closes(S) == [c \in Client |-> IF c \in S THEN "closed" ELSE conn[c]]

(***************************************************************************)
(* Stop, from a control thread                                             *)
(***************************************************************************)
Stop == /\ ~stopping /\ stopping' = TRUE /\ todo' = Worker
        /\ UNCHANGED <<ready, notices, stopWorker, run, left, listenVars, connVars>>

(* Each worker that has published its executor is told; one that refuses   *)
(* the notice is asked to stop altogether.                                 *)
StopNext(w, refused) ==
    /\ w \in todo /\ todo' = todo \ {w}
    /\ notices' = IF ready[w] /\ ~refused THEN notices \cup {w} ELSE notices
    /\ stopWorker' = IF ready[w] /\ refused THEN [stopWorker EXCEPT ![w] = TRUE]
                                            ELSE stopWorker
    /\ UNCHANGED <<stopping, ready, run, left, listenVars, connVars>>

(* TcpListener::Close, once.  An accept the kernel has taken may still     *)
(* deliver; a queued one completes as cancelled.                           *)
CloseListener(w) ==
    IF listener[w] = "open"
    THEN /\ listener' = [listener EXCEPT ![w] = "closed"]
         /\ accepted' = [accepted EXCEPT ![w] = <<>>]
         /\ conn' = Closes(ToSet(accepted[w]))
    ELSE UNCHANGED <<listener, accepted, conn>>

CloseListeners(w) ==
    /\ w \in notices /\ notices' = notices \ {w} /\ InLoop(w)
    /\ CloseListener(w)
    /\ UNCHANGED <<stopVars, ready, stopWorker, run, left, armed,
                   error, hand, reply, target, slots>>

(***************************************************************************)
(* Run                                                                     *)
(***************************************************************************)
Publish(w) == /\ At(w, "new") /\ InLoop(w)
              /\ ready' = [ready EXCEPT ![w] = TRUE]
              /\ Goto(w, "published")
              /\ UNCHANGED <<stopVars, notices, stopWorker, left, listenVars, connVars>>

(* Mutant: stopping is not looked at before Bind.                        *)
BindUnchecked(w) ==
    /\ At(w, "published") /\ InLoop(w)
    /\ listener' = [listener EXCEPT ![w] = "open"]
    /\ Goto(w, "accept")
    /\ UNCHANGED <<stopVars, ready, notices, stopWorker, left, armed, accepted, error,
                   connVars>>

(* TcpListener::Bind: a step of it may fail, and closes the new socket.    *)
Bind(w) == \E ok \in BOOLEAN :
              listener' = IF ok THEN [listener EXCEPT ![w] = "open"] ELSE listener

(* The check of stopping_, then Bind; a worker that cannot bind stops.     *)
BindListener(w) ==
    /\ At(w, "published") /\ InLoop(w)
    /\ \/ stopping /\ Goto(w, "done") /\ UNCHANGED <<listener, stopWorker>>
       \/ /\ ~stopping /\ Bind(w)
          /\ IF listener'[w] = "open"
             THEN Goto(w, "accept") /\ UNCHANGED stopWorker
             ELSE Goto(w, "done") /\ stopWorker' = [stopWorker EXCEPT ![w] = TRUE]
    /\ UNCHANGED <<stopVars, ready, notices, left, armed, accepted, error, connVars>>

(* AcceptUnregistered: a connection or an error that is there is taken at  *)
(* once, otherwise the accept is armed and the loop waits; it tries again  *)
(* when the ring refuses.  A frame that returns closes the listener.       *)
Accept(w) ==
    /\ At(w, "accept") /\ InLoop(w)
    /\ \/ /\ stopWorker[w] \/ listener[w] = "closed"
          /\ Goto(w, "done") /\ CloseListener(w) /\ UNCHANGED armed
       \/ /\ ~stopWorker[w] /\ listener[w] = "open"
          /\ IF accepted[w] # <<>> \/ error[w]
             THEN Goto(w, "woken") /\ UNCHANGED armed
             ELSE /\ Goto(w, "waiting")
                  /\ armed' = [armed EXCEPT ![w] = TRUE]
          /\ UNCHANGED <<listener, accepted, conn>>
    /\ UNCHANGED <<stopVars, ready, notices, stopWorker, left, error, hand, reply,
                   target, slots>>

Rearm(w, more, e) ==
    \E again \in IF more THEN {TRUE} ELSE BOOLEAN :
       LET open == listener[w] = "open"
       IN /\ armed' = [armed EXCEPT ![w] = more \/ (open /\ again)]
          /\ error' = [error EXCEPT ![w] = e \/ (open /\ ~again)]

(* ListenerAcceptState::Complete: a connection or an error; the last       *)
(* completion of an accept arms the next one unless the listener is closed,*)
(* which leaves an error when the ring refuses.                            *)
Complete(w, c) ==
    /\ armed[w] /\ InLoop(w)
    /\ \/ /\ c # Nobody
          /\ conn[c] = "away"
          /\ accepted' = [accepted EXCEPT ![w] = Append(@, c)]
          /\ conn' = [conn EXCEPT ![c] = "queued"]
          /\ \E more \in BOOLEAN : Rearm(w, more, error[w])
       \/ /\ c = Nobody
          /\ \E e \in {TRUE, error[w]} : Rearm(w, FALSE, e)
          /\ UNCHANGED <<accepted, conn>>
    /\ run' = [run EXCEPT ![w] = IF @ = "waiting" THEN "woken" ELSE @]
    /\ UNCHANGED <<stopVars, ready, notices, stopWorker, left, listener, hand, reply,
                   target, slots>>

(* await_resume takes a connection before an error; neither may be there.  *)
ConsumeAcceptedFd(w) ==
    IF accepted[w] # <<>>
    THEN accepted' = [accepted EXCEPT ![w] = Tail(@)] /\ UNCHANGED error
    ELSE error' = [error EXCEPT ![w] = FALSE] /\ UNCHANGED accepted

(* The admission: a refused connection is closed.                          *)
Admit(w) ==
    /\ At(w, "woken") /\ InLoop(w) /\ ConsumeAcceptedFd(w)
    /\ IF accepted[w] # <<>>
       THEN LET c == Head(accepted[w]) IN
            \/ /\ conn' = [conn EXCEPT ![c] = "closed"]
               /\ Goto(w, "accept") /\ UNCHANGED <<hand, slots>>
            \/ /\ conn' = [conn EXCEPT ![c] = "taken"]
               /\ hand' = [hand EXCEPT ![w] = c]
               /\ slots' = [slots EXCEPT ![c][1] = @ + 1]
               /\ Goto(w, "submit")
       ELSE Goto(w, "accept") /\ UNCHANGED <<conn, hand, slots>>
    /\ UNCHANGED <<stopVars, ready, notices, stopWorker, left, listener, armed, reply,
                   target>>

(* StartSession on worker t: refused when t stops or cannot register c. *)
StartSession(w, c, t) ==
    \E ok \in IF stopWorker[t] THEN {FALSE} ELSE BOOLEAN :
       /\ conn' = [conn EXCEPT ![c] = IF ok THEN "spawned" ELSE "closed"]
       /\ target' = [target EXCEPT ![c] = t]
       /\ reply' = [reply EXCEPT ![w] = IF ok THEN "ok" ELSE "failed"]
       /\ Goto(w, "replied")

(* SubmitTo(target, StartSession): the round robin names any worker; the   *)
(* loop's own one is served at once.                                       *)
Submit(w, t) ==
    LET c == hand[w] IN
    /\ At(w, "submit") /\ InLoop(w)
    /\ \/ t = w /\ StartSession(w, c, w)
       \/ /\ t # w
          /\ conn' = [conn EXCEPT ![c] = "moving"]
          /\ target' = [target EXCEPT ![c] = t]
          /\ Goto(w, "submitted") /\ UNCHANGED reply
    /\ UNCHANGED <<stopVars, ready, notices, stopWorker, left, listenVars, hand, slots>>

ServeSubmit(w) ==
    /\ At(w, "submitted") /\ InLoop(target[hand[w]])
    /\ StartSession(w, hand[w], target[hand[w]])
    /\ UNCHANGED <<stopVars, ready, notices, stopWorker, left, listenVars, hand, slots>>

(* Mutant: every admission is given back.                                *)
GiveBackAlways(c, r) == [slots EXCEPT ![c][2] = @ + 1]

(* Back in the loop: an admission that came to no session is given back.   *)
GiveBack(c, r) == IF r = "failed" THEN [slots EXCEPT ![c][2] = @ + 1] ELSE slots
Replied(w) ==
    /\ At(w, "replied") /\ InLoop(w)
    /\ slots' = GiveBack(hand[w], reply[w])
    /\ hand' = [hand EXCEPT ![w] = Nobody]
    /\ reply' = [reply EXCEPT ![w] = "none"]
    /\ Goto(w, "accept")
    /\ UNCHANGED <<stopVars, ready, notices, stopWorker, left, listenVars, target, conn>>

(* RunSession: the frame starts, and ends with its cleanup and the close.  *)
SessionStarts(c) ==
    /\ conn[c] = "spawned" /\ InLoop(target[c])
    /\ conn' = [conn EXCEPT ![c] = "session"]
    /\ UNCHANGED <<stopVars, ready, notices, stopWorker, run, left, listenVars, hand,
                   reply, target, slots>>
SessionEnds(c) ==
    /\ conn[c] = "session" /\ InLoop(target[c])
    /\ conn' = [conn EXCEPT ![c] = "closed"]
    /\ slots' = [slots EXCEPT ![c][2] = @ + 1]
    /\ UNCHANGED <<stopVars, ready, notices, stopWorker, run, left, listenVars, hand,
                   reply, target>>

(***************************************************************************)
(* The workers stop: one leaves its loop, and when all have, each destroys *)
(* its frames.  What was on the way, and a session that had not started,   *)
(* is dropped with its frame.                                              *)
(***************************************************************************)
RequestStop == /\ stopping /\ todo = {} /\ \E w \in Worker : ~stopWorker[w]
               /\ stopWorker' = [w \in Worker |-> TRUE]
               /\ UNCHANGED <<stopVars, ready, notices, run, left, listenVars, connVars>>
Leave(w) == /\ stopWorker[w] /\ InLoop(w) /\ left' = left \cup {w}
            /\ UNCHANGED <<stopVars, ready, notices, stopWorker, run, listenVars, connVars>>
DestroyFrames(w) ==
    LET mine == {c \in Client : target[c] = w /\ conn[c] \in {"spawned", "session"}}
    IN /\ left = Worker /\ run[w] # "gone" /\ Goto(w, "gone")
       /\ listener' = [listener EXCEPT ![w] = "closed"]
       /\ accepted' = [accepted EXCEPT ![w] = <<>>]
       /\ armed' = [armed EXCEPT ![w] = FALSE]
       /\ slots' = [c \in Client |-> IF c \in mine /\ conn[c] = "session"
                                     THEN <<slots[c][1], slots[c][2] + 1>> ELSE slots[c]]
       /\ conn' = [c \in Client |->
             IF c \in mine /\ conn[c] = "session" THEN "closed"
             ELSE IF c \in mine \/ (c = hand[w] /\ reply[w] # "ok") THEN "dropped"
             ELSE IF c \in ToSet(accepted[w]) /\ listener[w] = "open" THEN "closed"
             ELSE conn[c]]
       /\ hand' = [hand EXCEPT ![w] = Nobody]
       /\ UNCHANGED <<stopVars, ready, notices, stopWorker, left, error, reply, target>>
AllGone == (\A w \in Worker : run[w] = "gone") /\ UNCHANGED svcVars

RunStep(w) == \/ Publish(w) \/ BindListener(w) \/ Accept(w) \/ Admit(w)
              \/ ServeSubmit(w) \/ Replied(w) \/ \E t \in Worker : Submit(w, t)
Next == \/ Stop \/ RequestStop \/ AllGone
        \/ \E w \in Worker : \/ RunStep(w) \/ CloseListeners(w) \/ Leave(w)
                             \/ DestroyFrames(w)
                             \/ \E refused \in BOOLEAN : StopNext(w, refused)
                             \/ \E c \in Client \cup {Nobody} : Complete(w, c)
        \/ \E c \in Client : SessionStarts(c) \/ SessionEnds(c)

(* The control thread and the workers run.  For a worker each of these     *)
(* steps is taken at most once, so fairness of any of them is fairness of  *)
(* each.                                                                   *)
StopStep(w) == \/ Publish(w) \/ BindListener(w)
               \/ \E refused \in BOOLEAN : StopNext(w, refused)
               \/ CloseListeners(w) \/ Leave(w) \/ DestroyFrames(w)
Fairness == \A w \in Worker : WF_svcVars(StopStep(w))

(* Every AdmitConnection that returned true is answered by exactly one     *)
(* OnConnectionClosed, when its connection is gone and not before, however *)
(* the hop to the serving worker ends; only frames destroyed on teardown   *)
(* before they started keep theirs.                                        *)
AdmissionsBalance ==
    \A c \in Client :
      LET held == \/ conn[c] \in {"taken", "moving", "spawned", "session"}
                  \/ \E w \in Worker : hand[w] = c /\ reply[w] = "failed"
      IN conn[c] # "dropped" =>
           /\ slots[c][1] = 1 /\ slots[c][2] = 0 <=> held
           /\ slots[c][1] <= 1 /\ slots[c][2] <= slots[c][1]

(* A worker accepts no more, and never will: its listener is closed, its   *)
(* Run ended without one, or it left its loop.                             *)
Settled == \A w \in Worker : listener[w] = "closed" \/ run[w] = "done" \/ w \in left
=============================================================================
