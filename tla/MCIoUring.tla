----------------------------- MODULE MCIoUring -----------------------------
(***************************************************************************)
(* The io_uring backend and, beside it, the SPDK backend: `part' names the *)
(* one a behaviour exercises, the other keeps its initial state.           *)
(***************************************************************************)
EXTENDS IoUring

CONSTANTS t1, t2, c1, f1,
          d1, d2, n1, n2, SpdkTag, File, Controller, Paths, Depth, Budget, Big,
          Vwc, NoFile

VARIABLES part, mode, files, channels, spdkDeferred, outstanding, cursor, busy,
          done, poll, spdkLive, waiting

MCPaths == {<<d1, n1>>, <<d2, n2>>, <<d2, n1>>}
Spdk == INSTANCE SpdkStorage WITH
            Tag <- SpdkTag, deferred <- spdkDeferred, live <- spdkLive
spdkVars == <<mode, files, channels, spdkDeferred, outstanding, cursor, busy, done,
              poll, spdkLive, waiting>>

MCInit == part \in {"ring", "spdk"} /\ Init /\ Spdk!Init
MCNext == \/ part = "ring" /\ Next /\ UNCHANGED <<part, spdkVars>>
          \/ part = "spdk" /\ Spdk!Next /\ UNCHANGED <<part, vars>>

(* The fairness of the two modules, of the one that runs.                  *)
RingFairness == /\ WF_vars(part = "ring" /\ WorkerStep)
                /\ SF_vars(part = "ring" /\ KernelTakes)
                /\ SF_vars(part = "ring" /\ FinishCancelled)
SpdkFairness == /\ WF_spdkVars(part = "spdk" /\ Spdk!PollStep)
                /\ WF_spdkVars(part = "spdk" /\ Spdk!ShutdownEnd)
                /\ \A n \in Controller, t \in SpdkTag :
                      WF_spdkVars(part = "spdk" /\ Spdk!DeviceFinish(n, t))
MCSpec == MCInit /\ [][MCNext]_<<part, vars, spdkVars>> /\ RingFairness /\ SpdkFairness

(* Every accepted request gets its completion: see RequestsComplete of     *)
(* SpdkStorage.                                                            *)
RequestsComplete == Spdk!RequestsComplete
=============================================================================
