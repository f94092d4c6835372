------------------------------- MODULE MCNet --------------------------------
(***************************************************************************)
(* The network components side by side: `part' names the one a behaviour   *)
(* exercises, the others keep their initial state.                         *)
(***************************************************************************)
EXTENDS Connect

CONSTANTS Worker, Client, Nobody, Caller, BioSize, MaxRecords, MaxInput,
          Session, MaxLetters, MaxSessions, kMaxRetainedBuffers, IovMax, Nothing

VARIABLES
    part,
    stopping, todo, ready, notices, stopWorker, run, listener, armed, accepted,
    error, left, hand, reply, target, conn, slots,
    open, caller, result, pending, nextId, out, writing, loops, reader, buf, up, down,
    server, srvIn, srvOut, torn,
    pc, verdict, mark, chunk, holder, waiters, bio, made, wire, input, taken, shaken,
    shut, lost,
    session, resp, pool, said, length, next, rest, sent, served

Svc == INSTANCE TcpService
Rpc == INSTANCE Rpc
Tls == INSTANCE Tls
Http == INSTANCE HttpService

svcVars == <<stopping, todo, ready, notices, stopWorker, run, listener, armed,
             accepted, error, left, hand, reply, target, conn, slots>>
rpcVars == <<open, caller, result, pending, nextId, out, writing, loops, reader, buf,
             up, down, server, srvIn, srvOut, torn>>
tlsVars == <<pc, verdict, mark, chunk, holder, waiters, bio, made, wire, input, taken,
             shaken, shut, lost>>
httpVars == <<session, resp, pool, said, length, next, rest, sent, served>>
mcVars == <<part, vars, svcVars, rpcVars, tlsVars, httpVars>>
Parts == {"connect", "service", "rpc", "tls", "http"}

MCInit == /\ part \in Parts /\ Init /\ (part # "connect" => f.hasTimeout)
          /\ Svc!Init /\ Rpc!Init /\ Tls!Init /\ Http!Init

Settled == co = "returned" /\ UNCHANGED vars
ConnectStep == /\ part = "connect" /\ (Next \/ Settled)
               /\ UNCHANGED <<part, svcVars, rpcVars, tlsVars, httpVars>>
ServiceStep == /\ part = "service" /\ Svc!Next
               /\ UNCHANGED <<part, vars, rpcVars, tlsVars, httpVars>>
RpcStep == /\ part = "rpc" /\ Rpc!Next
           /\ UNCHANGED <<part, vars, svcVars, tlsVars, httpVars>>
TlsStep == /\ part = "tls" /\ Tls!Next
           /\ UNCHANGED <<part, vars, svcVars, rpcVars, httpVars>>
HttpStep == /\ part = "http" /\ Http!Next
            /\ UNCHANGED <<part, vars, svcVars, rpcVars, tlsVars>>

MCNext == ConnectStep \/ ServiceStep \/ RpcStep \/ TlsStep \/ HttpStep

(* The fairness of the modules, of the one that runs.                      *)
ConnectFairness == /\ WF_vars(part = "connect" /\ Complete)
                   /\ WF_vars(part = "connect" /\ OnTimeoutComplete)
                   /\ WF_vars(part = "connect" /\ Resume)
                   /\ WF_vars(part = "connect" /\ PostTimer)
                   /\ WF_vars(part = "connect" /\ PostCancelled)
ServiceFairness == \A w \in Worker : WF_svcVars(part = "service" /\ Svc!StopStep(w))
RpcFairness ==
    /\ WF_rpcVars(part = "rpc" /\ \E i \in DOMAIN loops : Rpc!WriteLoop(i))
    /\ WF_rpcVars(part = "rpc" /\ Rpc!Reading)
    /\ WF_rpcVars(part = "rpc" /\ Rpc!Serving)
    /\ WF_rpcVars(part = "rpc" /\ Rpc!ServeMust)
MCSpec == /\ MCInit /\ [][MCNext]_mcVars
          /\ ConnectFairness /\ ServiceFairness /\ RpcFairness

(* OnConnectionClosed answers every admission: see TcpService. *)
AdmissionsBalance == Svc!AdmissionsBalance
(* A call returns the answer to its own request: see Rpc. *)
ResponsesMatch == Rpc!ResponsesMatch
(* Ciphertext is sent in the order it was produced: see Tls. *)
RecordsInOrder == Tls!RecordsInOrder
(* A response is what its handler appended: see HttpService. *)
BodyAsAppended == Http!BodyAsAppended
Begun(c) == \/ part = "connect" /\ AttemptPending
            \/ part = "service" /\ stopping
            \/ part = "rpc" /\ Rpc!InFlight(c)
Ended(c) == \/ part = "connect" /\ co = "returned"
            \/ part = "service" /\ Svc!Settled
            \/ part = "rpc" /\ Rpc!Ended(c)

(* What was begun ends: a connect attempt that has a deadline or was       *)
(* cancelled returns; an RPC call ends with its response or its connection;*)
(* and once Stop is called every worker stops accepting for good, whether  *)
(* it was about to bind, was listening or refused the notice.              *)
NetworkEnds == \A c \in Caller : Begun(c) ~> Ended(c)
=============================================================================
