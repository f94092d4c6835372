---------------------------- MODULE HttpService -----------------------------
(***************************************************************************)
(* The sessions of an HttpService on one worker (src/net/http_service.cpp) *)
(* with the pool of response buffers they share, the segmented body a      *)
(* handler builds, and WriteResponse with the partial writes of            *)
(* TcpStream::WriteAllV.  Text is a sequence of letters; an error page is  *)
(* the one letter "e"; status line and content type are left out.          *)
(***************************************************************************)
EXTENDS Naturals, SequencesExt, FiniteSetsExt

CONSTANTS
    Session,
    MaxLetters,          \* bound on what one handler appends
    MaxSessions,         \* bound on the requests served
    kMaxRetainedBuffers, IovMax,
    Nothing              \* data_ of a part that lies in body_

VARIABLES
    session,  \* "idle", "reading", "handler", "header", "body"
    resp,     \* the HttpResponse of each session
    pool,     \* buffers_
    said,     \* history: what the response should say
    length,   \* the Content-Length sent
    next, rest, \* WriteResponse's first; what WriteAllV still has to send
    sent,     \* the body that reached the socket
    served    \* requests so far

httpVars == <<session, resp, pool, said, length, next, rest, sent, served>>
writeVars == <<length, next, rest, sent>>

Texts == {<<"a">>, <<"b", "c">>}
Empty == [body |-> << >>, parts |-> << >>]
ErrorPage == <<"e">>

Init == /\ session = [s \in Session |-> "idle"]
        /\ resp = [s \in Session |-> Empty] /\ pool = << >>
        /\ said = [s \in Session |-> << >>] /\ length = [s \in Session |-> 0]
        /\ next = [s \in Session |-> 1] /\ rest = [s \in Session |-> << >>]
        /\ sent = [s \in Session |-> << >>] /\ served = 0

(***************************************************************************)
(* HttpResponse                                                            *)
(***************************************************************************)
PartOf(data, offset, size) == [data |-> data, offset |-> offset, size |-> size]
AppendBorrowedBody(r, text) ==
    LET own == IF r.parts = << >> /\ r.body # << >>
               THEN <<PartOf(Nothing, 0, Len(r.body))>> ELSE r.parts
    IN [r EXCEPT !.parts = Append(own, PartOf(text, 0, Len(text)))]

(* A piece right behind the last owned part extends it. *)
AppendBody(r, text) ==
    LET offset == Len(r.body)
        last == Last(r.parts)
    IN [body |-> r.body \o text,
        parts |-> IF r.parts = << >> THEN r.parts
                  ELSE IF last.data = Nothing /\ last.offset + last.size = offset
                  THEN [r.parts EXCEPT ![Len(r.parts)].size = @ + Len(text)]
                  ELSE Append(r.parts, PartOf(Nothing, offset, Len(text)))]

BodySize(r) == IF r.parts = << >> THEN Len(r.body)
               ELSE FoldSeq(LAMBDA part, size : size + part.size, 0, r.parts)
Part(r, part) == IF part.data = Nothing
                 THEN SubSeq(r.body, part.offset + 1, part.offset + part.size)
                 ELSE part.data

(***************************************************************************)
(* Serve                                                                   *)
(***************************************************************************)
Goto(s, pc) == session' = [session EXCEPT ![s] = pc]

(* A session takes the last buffer of the pool.                            *)
Start(s) ==
    /\ session[s] = "idle" /\ served < MaxSessions /\ served' = served + 1
    /\ Goto(s, "reading")
    /\ resp' = [resp EXCEPT ![s] = IF pool = << >> THEN Empty ELSE Last(pool)]
    /\ pool' = IF pool = << >> THEN pool ELSE Front(pool)
    /\ said' = [said EXCEPT ![s] = << >>]
    /\ UNCHANGED writeVars

(* Mutant: a returned buffer keeps its parts.                              *)
ClearedBody(r) == [r EXCEPT !.body = << >>]
Cleared(r) == [r EXCEPT !.body = << >>, !.parts = << >>]

(* ReturnResponseBuffer, however Serve ends: a buffer that has not grown   *)
(* too large goes back to a pool that is not full.                         *)
Return(s) ==
    /\ Goto(s, "idle")
    /\ \E small \in BOOLEAN :
         pool' = IF small /\ Len(pool) < kMaxRetainedBuffers
                 THEN Append(pool, Cleared(resp[s])) ELSE pool
    /\ resp' = [resp EXCEPT ![s] = Empty]
    /\ length' = [length EXCEPT ![s] = 0] /\ next' = [next EXCEPT ![s] = 1]
    /\ rest' = [rest EXCEPT ![s] = << >>] /\ sent' = [sent EXCEPT ![s] = << >>]
    /\ said' = [said EXCEPT ![s] = << >>]

(* The connection fails or ends while the headers are read or a write is   *)
(* under way.                                                              *)
Abandon(s) == session[s] \in {"reading", "header", "body"} /\ Return(s)
              /\ UNCHANGED served

(* Headers too long, malformed, not GET or not found: the page replaces    *)
(* the body.                                                               *)
Refuse(s) ==
    /\ session[s] = "reading" /\ Goto(s, "header")
    /\ resp' = [resp EXCEPT ![s].body = ErrorPage]
    /\ said' = [said EXCEPT ![s] = ErrorPage]
    /\ UNCHANGED <<pool, writeVars, served>>

CallHandler(s) ==
    /\ session[s] = "reading" /\ Goto(s, "handler")
    /\ UNCHANGED <<resp, pool, said, writeVars, served>>

HandlerAppends(s, text, borrowed) ==
    /\ session[s] = "handler" /\ Len(said[s]) < MaxLetters
    /\ resp' = [resp EXCEPT ![s] = IF borrowed THEN AppendBorrowedBody(@, text)
                                               ELSE AppendBody(@, text)]
    /\ said' = [said EXCEPT ![s] = @ \o text]
    /\ UNCHANGED <<session, pool, writeVars, served>>

HandlerReturns(s, ok) ==
    /\ session[s] = "handler" /\ Goto(s, "header")
    /\ resp' = [resp EXCEPT ![s] = IF ok THEN @ ELSE [body |-> ErrorPage, parts |-> << >>]]
    /\ said' = [said EXCEPT ![s] = IF ok THEN @ ELSE ErrorPage]
    /\ UNCHANGED <<pool, writeVars, served>>

(***************************************************************************)
(* WriteResponse                                                           *)
(***************************************************************************)
WriteHeader(s) ==
    /\ session[s] = "header" /\ Goto(s, "body")
    /\ length' = [length EXCEPT ![s] = BodySize(resp[s])]
    /\ rest' = [rest EXCEPT ![s] = IF resp[s].parts = << >> /\ resp[s].body # << >>
                                   THEN <<resp[s].body>> ELSE << >>]
    /\ UNCHANGED <<resp, pool, said, next, sent, served>>

(* The next IovMax parts go to WriteAllV. *)
WriteParts(s) ==
    LET r == resp[s]
        count == Min({IovMax, Len(r.parts) + 1 - next[s]})
    IN /\ session[s] = "body" /\ rest[s] = << >> /\ next[s] <= Len(r.parts)
       /\ rest' = [rest EXCEPT ![s] = [i \in 1 .. count |-> Part(r, r.parts[next[s] - 1 + i])]]
       /\ next' = [next EXCEPT ![s] = @ + count]
       /\ UNCHANGED <<session, resp, pool, said, length, sent, served>>

(* WriteAll and WriteAllV: the socket takes n letters; the buffers they    *)
(* complete are dropped and the next one is advanced.                      *)
Unsent(buffers, n) ==
    LET size(i) == Len(FlattenSeq(SubSeq(buffers, 1, i)))
        first == Cardinality({i \in DOMAIN buffers : size(i) <= n}) + 1
    IN IF first > Len(buffers) THEN << >>
       ELSE <<SubSeq(buffers[first], n - size(first - 1) + 1, Len(buffers[first]))>>
              \o SubSeq(buffers, first + 1, Len(buffers))
WriteSome(s) ==
    /\ session[s] = "body" /\ rest[s] # << >>
    /\ LET all == FlattenSeq(rest[s]) IN
       \E n \in 1 .. Len(all) :
         /\ sent' = [sent EXCEPT ![s] = @ \o SubSeq(all, 1, n)]
         /\ rest' = [rest EXCEPT ![s] = Unsent(@, n)]
    /\ UNCHANGED <<session, resp, pool, said, length, next, served>>

Written(s) == session[s] = "body" /\ rest[s] = << >> /\ next[s] > Len(resp[s].parts)
Finish(s) == Written(s) /\ Return(s) /\ UNCHANGED served

Over == served = MaxSessions /\ (\A s \in Session : session[s] = "idle")
        /\ UNCHANGED httpVars
Next == \/ Over
        \/ \E s \in Session :
             \/ Start(s) \/ Abandon(s) \/ Refuse(s) \/ CallHandler(s) \/ WriteHeader(s)
             \/ WriteParts(s) \/ WriteSome(s) \/ Finish(s)
             \/ \E text \in Texts, borrowed \in BOOLEAN : HandlerAppends(s, text, borrowed)
             \/ \E ok \in BOOLEAN : HandlerReturns(s, ok)
Spec == Init /\ [][Next]_httpVars

(* A response that was written is what its handler appended, owned and     *)
(* borrowed pieces in the order they came, or the error page alone, and    *)
(* the Content-Length is its size, whatever the buffer held before and     *)
(* however the writes were cut.                                            *)
BodyAsAppended ==
    \A s \in Session :
      /\ session[s] = "body" => length[s] = Len(said[s]) /\ IsPrefix(sent[s], said[s])
      /\ Written(s) => sent[s] = said[s]
=============================================================================
