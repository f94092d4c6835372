------------------------------- MODULE MCSync -------------------------------
(***************************************************************************)
(* The mutex and the barrier side by side, each with three coroutines on   *)
(* two workers: `part' names the one a behaviour exercises.                *)
(***************************************************************************)
EXTENDS CrossWorkerMutex

CONSTANTS c1, c2, c3, w1, w2

VARIABLES part, participant, arrived, completed, failed, parked, waking, result

HomeOf == [c \in {c1, c2, c3} |-> IF c = c3 THEN w2 ELSE w1]

Barrier == INSTANCE CoroutineBarrier WITH
              Participant <- Coroutine, participants_ <- 3,
              state <- participant, waiters <- parked

barrierVars == <<participant, arrived, completed, failed, parked, waking, result>>

MCInit == part \in {"mutex", "barrier"} /\ Init /\ Barrier!Init
MCNext == \/ part = "mutex" /\ Next /\ UNCHANGED <<part, barrierVars>>
          \/ part = "barrier" /\ Barrier!Next /\ UNCHANGED <<part, vars>>
MCSpec == /\ MCInit /\ [][MCNext]_<<part, vars, barrierVars>>
          /\ Fairness /\ Barrier!Fairness

(* Nobody passes the barrier early, is forgotten or is resumed twice, and  *)
(* nobody who has not passed yet passes once somebody aborted: see         *)
(* PassesTogether, ResumedOnce and AbortIsFinal of CoroutineBarrier.       *)
BarrierIsSafe == /\ [](Barrier!PassesTogether /\ Barrier!ResumedOnce)
                 /\ Barrier!AbortIsFinal
(* Whoever asks for the mutex gets it, and the waiters of an open or       *)
(* aborted barrier are resumed (BarrierOpens of CoroutineBarrier).         *)
NobodyIsLeft == EveryLockIsGranted /\ Barrier!BarrierOpens
=============================================================================
