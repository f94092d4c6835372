-------------------------------- MODULE Rpc ---------------------------------
(***************************************************************************)
(* An RPC client and the server session at the other end (src/rpc/rpc.cpp):*)
(* the calls in flight, the queue with its single WriteLoop, the ReadLoop  *)
(* that correlates responses, and RpcServer::Serve.                        *)
(*                                                                         *)
(* A frame is two units on the wire, its header and its payload, so a      *)
(* write or a read may end in the middle of one.  A payload stands for the *)
(* caller it was written for.                                              *)
(***************************************************************************)
EXTENDS Naturals, SequencesExt, FiniteSetsExt

CONSTANTS Caller, Nobody

VARIABLES
    open,         \* stream_.IsOpen() at the client
    caller,       \* "new", "waiting", "ok", "failed"
    result,       \* Pending::result_ of each call: whose answer it is
    pending,      \* pending_: request id -> caller
    nextId,       \* next_req_id_
    out, writing, \* out_ and writing_
    loops,        \* the WriteLoops: what is left to write, <<>> at the loop head
    reader, buf,  \* ReadLoop: "running", "done"; its buffer
    up, down,     \* units on the way to the server, and to the client
    server, srvIn, srvOut, \* Serve: "running", "ended"; buf and out
    torn          \* history: a write failed on a connection that stayed up

rpcVars == <<open, caller, result, pending, nextId, out, writing, loops, reader, buf,
             up, down, server, srvIn, srvOut, torn>>
callVars == <<caller, result, pending, nextId>>
sendVars == <<out, writing, loops>>
serveVars == <<server, srvIn, srvOut>>

Init == /\ open = TRUE /\ caller = [c \in Caller |-> "new"]
        /\ result = [c \in Caller |-> Nobody] /\ pending = << >> /\ nextId = 1
        /\ out = << >> /\ writing = FALSE /\ loops = << >>
        /\ reader = "running" /\ buf = << >> /\ up = << >> /\ down = << >>
        /\ server = "running" /\ srvIn = << >> /\ srvOut = << >> /\ torn = FALSE

AppendFrame(s, type, id, payload) ==
    s \o <<[type |-> type, id |-> id], [type |-> "payload", id |-> payload]>>

(* The frames that are whole in b, in the order they came, and whether the *)
(* header i is one that its reader refuses.                                *)
Frames(b) == 1 .. Len(b) \div 2
Head1(b, i) == b[2 * i - 1]
Payload(b, i) == b[2 * i].id
Refused(b, type) == {i \in 1 .. (Len(b) + 1) \div 2 : Head1(b, i).type # type}
Drop(b, n) == SubSeq(b, 2 * n + 1, Len(b))

(***************************************************************************)
(* The client                                                              *)
(***************************************************************************)
(* Mutant: every frame starts a writer. *)
SendFrameAlways(id, c) ==
    /\ out' = AppendFrame(out, "request", id, c)
    /\ writing' = TRUE
    /\ loops' = Append(loops, << >>)

SendFrame(id, c) ==
    /\ out' = AppendFrame(out, "request", id, c)
    /\ writing' = TRUE
    /\ loops' = IF writing THEN loops ELSE Append(loops, << >>)

(* A closed stream or a payload that is too long fails the call at once.   *)
Call(c) ==
    /\ caller[c] = "new"
    /\ \/ /\ open
          /\ caller' = [caller EXCEPT ![c] = "waiting"]
          /\ pending' = [i \in DOMAIN pending \cup {nextId} |->
                           IF i = nextId THEN c ELSE pending[i]]
          /\ nextId' = nextId + 1
          /\ SendFrame(nextId, c)
       \/ /\ caller' = [caller EXCEPT ![c] = "failed"]
          /\ UNCHANGED <<pending, nextId, sendVars>>
    /\ UNCHANGED <<open, result, reader, buf, up, down, serveVars, torn>>

(* A WriteLoop at its head takes all the frames there are, or ends.        *)
WriteLoopHead(i) ==
    /\ loops[i] = << >>
    /\ IF out = << >>
       THEN loops' = RemoveAt(loops, i) /\ writing' = FALSE /\ UNCHANGED out
       ELSE loops' = [loops EXCEPT ![i] = out] /\ out' = << >> /\ UNCHANGED writing
    /\ UNCHANGED <<open, callVars, reader, buf, up, down, serveVars, torn>>

(* WriteAll sends the rest or a part of it; what the server left behind    *)
(* takes is lost.                                                          *)
WriteSome(i, n) ==
    /\ loops[i] # << >> /\ open /\ n \in 1 .. Len(loops[i])
    /\ loops' = [loops EXCEPT ![i] = SubSeq(@, n + 1, Len(@))]
    /\ up' = IF server = "running" THEN up \o SubSeq(loops[i], 1, n) ELSE up
    /\ UNCHANGED <<open, callVars, out, writing, reader, buf, down, serveVars, torn>>

(* A write that fails ends its loop: the peer is gone, the stream closed,  *)
(* or the ring refused the send.  Frames queued meanwhile stay in out_.    *)
WriteFails(i) ==
    /\ loops[i] # << >>
    /\ loops' = RemoveAt(loops, i) /\ writing' = FALSE
    /\ torn' = (torn \/ (open /\ server = "running"))
    /\ UNCHANGED <<open, callVars, out, reader, buf, up, down, serveVars>>

(* The calls the responses 1 .. n of b answer, each with its payload.      *)
Answered(b, n) ==
    {<<pending[Head1(b, i).id], Payload(b, i)>> :
        i \in {j \in 1 .. n : Head1(b, j).id \in DOMAIN pending}}

(* ReadSome returned n units: every whole response is matched by its id,   *)
(* and a header that is no response's closes the stream.                   *)
ReadResponses(n) ==
    LET b == buf \o SubSeq(down, 1, n)
        bad == Refused(b, "response")
        whole == IF bad = {} THEN Len(b) \div 2 ELSE Min(bad) - 1
        hits == Answered(b, whole)
        who == {h[1] : h \in hits}
    IN /\ reader = "running" /\ open /\ n \in 1 .. Len(down)
       /\ down' = SubSeq(down, n + 1, Len(down))
       /\ buf' = Drop(b, whole)
       /\ caller' = [c \in Caller |-> IF c \in who THEN "ok" ELSE caller[c]]
       /\ result' = [c \in Caller |-> IF c \in who
                                      THEN (CHOOSE h \in hits : h[1] = c)[2]
                                      ELSE result[c]]
       /\ pending' = [i \in {j \in DOMAIN pending : pending[j] \notin who} |-> pending[i]]
       /\ open' = (bad = {})
       /\ UNCHANGED <<nextId, sendVars, reader, up, serveVars, torn>>

(* The stream is closed, or the peer's end of it is reached: every call in *)
(* flight fails.  The end alone does not close the stream.                 *)
ReadLoopEnds ==
    /\ reader = "running" /\ reader' = "done"
    /\ ~open \/ (server = "ended" /\ down = << >>)
    /\ caller' = [c \in Caller |-> IF \E i \in DOMAIN pending : pending[i] = c
                                   THEN "failed" ELSE caller[c]]
    /\ pending' = << >>
    /\ UNCHANGED <<open, result, nextId, sendVars, buf, up, down, serveVars, torn>>

Close == /\ open /\ open' = FALSE
         /\ UNCHANGED <<callVars, sendVars, reader, buf, up, down, serveVars, torn>>

(***************************************************************************)
(* RpcServer::Serve                                                        *)
(***************************************************************************)
Waits == Frames(srvIn) = {} /\ srvOut = << >>

(* The first whole request is handed to its handler, asynchronous perhaps, *)
(* and the response is appended to the batch of this read.                 *)
ServeFrame ==
    /\ server = "running" /\ Frames(srvIn) # {} /\ 1 \notin Refused(srvIn, "request")
    /\ srvOut' = AppendFrame(srvOut, "response", Head1(srvIn, 1).id, Payload(srvIn, 1))
    /\ srvIn' = Drop(srvIn, 1)
    /\ UNCHANGED <<open, callVars, sendVars, reader, buf, up, down, server, torn>>

ServeWrite ==
    /\ server = "running" /\ srvOut # << >> /\ Frames(srvIn) = {} /\ open
    /\ srvOut' = << >> /\ down' = down \o srvOut
    /\ UNCHANGED <<open, callVars, sendVars, reader, buf, up, server, srvIn, torn>>

ServeRead(n) ==
    /\ server = "running" /\ Waits /\ n \in 1 .. Len(up)
    /\ srvIn' = srvIn \o SubSeq(up, 1, n) /\ up' = SubSeq(up, n + 1, Len(up))
    /\ UNCHANGED <<open, callVars, sendVars, reader, buf, down, server, srvOut, torn>>

(* Serve returns: the peer closed, a header is refused, a response is too  *)
(* long or a write failed.  The session closes the stream, which may cost  *)
(* the end of what is on its way to the client.                            *)
ServeEnds(kept) ==
    /\ server = "running" /\ server' = "ended"
    /\ kept \in 0 .. Len(down) /\ down' = SubSeq(down, 1, kept)
    /\ srvIn' = << >> /\ srvOut' = << >> /\ up' = << >>
    /\ UNCHANGED <<open, callVars, sendVars, reader, buf, torn>>

ServeMust == /\ ~open \/ 1 \in Refused(srvIn, "request")
             /\ ServeEnds(Len(down))

(* Nothing is left to do on this connection. *)
Over == /\ \A c \in Caller : caller[c] # "new"
        /\ reader = "done" /\ loops = << >> /\ server = "ended" /\ UNCHANGED rpcVars

WriteLoop(i) == WriteLoopHead(i) \/ \E n \in 1 .. Len(loops[i]) : WriteSome(i, n)
Serving == ServeFrame \/ ServeWrite \/ \E n \in 1 .. Len(up) : ServeRead(n)
Reading == ReadLoopEnds \/ \E n \in 1 .. Len(down) : ReadResponses(n)
Next == \/ \E c \in Caller : Call(c)
        \/ \E i \in DOMAIN loops : WriteLoop(i) \/ WriteFails(i)
        \/ Reading \/ Close \/ Serving \/ ServeMust \/ Over
        \/ \E kept \in 0 .. Len(down) : ServeEnds(kept)

(* The coroutines of both workers run and the network delivers; nobody has *)
(* to call, to close or to fail.                                           *)
Fairness == /\ WF_rpcVars(\E i \in DOMAIN loops : WriteLoop(i))
            /\ WF_rpcVars(Reading) /\ WF_rpcVars(Serving) /\ WF_rpcVars(ServeMust)
Spec == Init /\ [][Next]_rpcVars /\ Fairness

(* A call that succeeds returns the answer to its own request, however the *)
(* reads and writes of the calls in flight are cut (PARTIAL frames, one    *)
(* send for several calls), unless a send was refused half way through.    *)
ResponsesMatch ==
    ~torn => \A c \in Caller : caller[c] = "ok" => result[c] = c

(* A call in flight on a connection whose ReadLoop runs; and one that      *)
(* ended, with its response or failed, or whose send the ring refused.     *)
InFlight(c) == caller[c] = "waiting" /\ reader = "running"
Ended(c) == caller[c] # "waiting" \/ torn

(* "fail every outstanding call so callers don't hang" (rpc.cpp:328): a    *)
(* call that was accepted ends.                                            *)
CallersDontHang ==
    \A c \in Caller : caller[c] = "waiting" ~> Ended(c)
=============================================================================
