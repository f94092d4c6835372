-------------------------------- MODULE Tls ---------------------------------
(***************************************************************************)
(* The TLS layer of a stream (src/net/tls.cpp): a handshake, then a        *)
(* reader, a writer and a shutdown that share one SSL object, its network  *)
(* BIO and the AsyncMutex (runtime/sync.h) under which the BIO is drained. *)
(* They are coroutines of one worker: a step is what runs between two      *)
(* suspensions.  The records SSL writes to the BIO are numbered.  What     *)
(* SSL_do_handshake, SSL_read_ex, ... answer is OpenSSL's choice.          *)
(***************************************************************************)
EXTENDS Naturals, SequencesExt

CONSTANTS
    BioSize,    \* records the network BIO has room for
    MaxRecords, \* bound on the records produced
    MaxInput    \* bound on the reads of ciphertext that find some

VARIABLES
    pc,       \* of each operation: "idle", "call", "flush", "read", "ok", "failed"
    verdict,  \* result and error of its last SSL call
    mark,     \* history: records produced when that call returned
    chunk,    \* ciphertext of a FlushOutput that WriteRawAll still has to send
    holder, waiters,  \* AsyncMutex: the coroutine it is granted to; waiters_
    bio, made, wire,  \* records in the BIO; produced so far; sent
    input, taken,     \* records the input side of the BIO holds; ever read
    shaken,       \* handshake_complete_
    shut,     \* shutdown_started_
    lost      \* history: a send failed

tlsVars == <<pc, verdict, mark, chunk, holder, waiters, bio, made, wire, input, taken,
             shaken, shut, lost>>
lockVars == <<holder, waiters>>

Op == {"handshake", "reader", "writer", "closer"}

Init == /\ pc = [o \in Op |-> "idle"] /\ verdict = [o \in Op |-> "none"]
        /\ mark = [o \in Op |-> 0] /\ chunk = [o \in Op |-> << >>]
        /\ holder = "nobody" /\ waiters = << >>
        /\ bio = << >> /\ made = 0 /\ wire = << >> /\ input = 0 /\ taken = 0
        /\ shaken = FALSE /\ shut = FALSE /\ lost = FALSE

Goto(o, p) == pc' = [pc EXCEPT ![o] = p]

(* StartTls, ReadSome, WriteSome, Shutdown are called: one of each at a    *)
(* time, and the handshake first.                                          *)
Begin(o) ==
    /\ IF o = "handshake" THEN pc[o] = "idle" ELSE shaken /\ pc[o] \in {"idle", "ok"}
    /\ IF o = "closer" /\ shut THEN Goto(o, "ok") ELSE Goto(o, "call")
    /\ shut' = (shut \/ o = "closer")
    /\ mark' = [mark EXCEPT ![o] = 0]
    /\ UNCHANGED <<verdict, chunk, lockVars, bio, made, wire, input, taken, shaken, lost>>

(* What an SSL call of o may answer, given whether it could put a record   *)
(* in the BIO and whether it consumed one.                                 *)
Answers(o, put, got) ==
    CASE o = "handshake" -> {"want_read", "error"} \cup (IF got THEN {"done"} ELSE {})
      [] o = "reader"    -> IF got THEN {"done", "zero", "want_read"}
                                   ELSE {"want_read", "error"}
      [] OTHER           -> IF put THEN {"done"} ELSE {"want_write", "want_read", "error"}

(* AsyncMutex::Lock grants the mutex or queues the caller; Unlock passes   *)
(* it to the first waiter.                                                 *)
Lock(o) == /\ holder' = IF holder = "nobody" THEN o ELSE holder
           /\ waiters' = IF holder = "nobody" THEN waiters ELSE Append(waiters, o)
Unlock == /\ holder' = IF waiters = << >> THEN "nobody" ELSE Head(waiters)
          /\ waiters' = IF waiters = << >> THEN waiters ELSE Tail(waiters)

(* What an operation does with the answer v once its output is flushed: a  *)
(* handshake may still fail on the peer's certificate.                     *)
After(o, v) ==
    CASE v \in {"done", "zero"} -> IF o = "handshake" THEN {"ok", "failed"} ELSE {"ok"}
      [] v = "want_write" -> {IF o = "closer" THEN "ok" ELSE "call"}
      [] v = "want_read" -> {IF o = "closer" THEN "ok" ELSE "read"}
      [] v = "error" -> {"failed"}
Decide(o, v) ==
    \E p \in After(o, v) : Goto(o, p) /\ shaken' = (shaken \/ (o = "handshake" /\ p = "ok"))

(* Mutant: an empty BIO is taken for output that has been sent.            *)
FlushIfAny(o, v) ==
    IF bio' = << >> THEN Decide(o, v) /\ UNCHANGED lockVars
                    ELSE Lock(o) /\ Goto(o, "flush") /\ UNCHANGED shaken

(* FlushOutput begins.                                                     *)
Flush(o, v) == Lock(o) /\ Goto(o, "flush") /\ UNCHANGED shaken

(* The SSL call, up to the wait for output_mutex_.                         *)
SslCall(o) ==
    /\ pc[o] = "call"
    /\ \E put \in BOOLEAN, got \in BOOLEAN :
         /\ put => Len(bio) < BioSize /\ made < MaxRecords
         /\ ~put /\ o \in {"writer", "closer"} => Len(bio) = BioSize \/ made = MaxRecords
         /\ got => input > 0 /\ o \in {"handshake", "reader"}
         /\ bio' = IF put THEN Append(bio, made + 1) ELSE bio
         /\ made' = IF put THEN made + 1 ELSE made
         /\ input' = IF got THEN input - 1 ELSE input
         /\ mark' = [mark EXCEPT ![o] = made']
         /\ \E v \in Answers(o, put, got) :
              verdict' = [verdict EXCEPT ![o] = v] /\ Flush(o, v)
    /\ UNCHANGED <<chunk, wire, taken, shut, lost>>

(* FlushOutput's loop, with the mutex: a part of the BIO becomes the chunk *)
(* that is sent, or the BIO is empty and the operation goes on.            *)
Drain(o) ==
    /\ pc[o] = "flush" /\ holder = o /\ chunk[o] = << >>
    /\ IF bio = << >>
       THEN /\ Decide(o, verdict[o]) /\ Unlock
            /\ verdict' = [verdict EXCEPT ![o] = "none"] /\ UNCHANGED <<chunk, bio>>
       ELSE /\ \E n \in 1 .. Len(bio) :
                 /\ chunk' = [chunk EXCEPT ![o] = SubSeq(bio, 1, n)]
                 /\ bio' = SubSeq(bio, n + 1, Len(bio))
            /\ UNCHANGED <<pc, verdict, shaken, lockVars>>
    /\ UNCHANGED <<mark, made, input, shut, wire, taken, lost>>

(* WriteRawAll: as many sends as it takes, one of which may fail.          *)
SendRaw(o) ==
    /\ pc[o] = "flush" /\ chunk[o] # << >>
    /\ wire' = Append(wire, Head(chunk[o]))
    /\ chunk' = [chunk EXCEPT ![o] = Tail(@)]
    /\ UNCHANGED <<pc, verdict, mark, lockVars, bio, made, input, taken, shaken, shut, lost>>

SendRawFails(o) ==
    /\ pc[o] = "flush" /\ chunk[o] # << >>
    /\ chunk' = [chunk EXCEPT ![o] = << >>]
    /\ lost' = TRUE /\ Goto(o, "failed") /\ Unlock
    /\ verdict' = [verdict EXCEPT ![o] = "none"]
    /\ UNCHANGED <<mark, bio, made, wire, input, taken, shaken, shut>>

(* ReadCiphertext feeds the BIO, or the connection ends.                   *)
ReadCiphertext(o) ==
    /\ pc[o] = "read"
    /\ \/ /\ taken < MaxInput /\ taken' = taken + 1 /\ input' = input + 1
          /\ Goto(o, "call")
       \/ Goto(o, "failed") /\ UNCHANGED <<taken, input>>
    /\ UNCHANGED <<verdict, mark, chunk, lockVars, bio, made, wire, shaken, shut, lost>>

(* A failed handshake leaves a stream without TLS; failed operations are   *)
(* not repeated.                                                           *)
Over == /\ pc["handshake"] = "failed" \/ \A o \in Op \ {"handshake"} : pc[o] = "failed"
        /\ UNCHANGED tlsVars

Step(o) == \/ Begin(o) \/ SslCall(o) \/ Drain(o) \/ SendRaw(o) \/ SendRawFails(o)
           \/ ReadCiphertext(o)
Next == Over \/ \E o \in Op : Step(o)
Spec == Init /\ [][Next]_tlsVars

(* The records go out in the order SSL made them, none twice and, while    *)
(* every send succeeds, none left out, whichever of the concurrent         *)
(* operations sends them; and an operation that succeeds has all its       *)
(* output on the wire, also what another operation took to send.           *)
RecordsInOrder ==
    /\ \A i, j \in DOMAIN wire : i < j => wire[i] < wire[j]
    /\ ~lost => /\ \A i \in DOMAIN wire : wire[i] = i
                /\ \A o \in Op : pc[o] = "ok" => mark[o] <= Len(wire)
=============================================================================
