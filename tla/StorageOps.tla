----------------------------- MODULE StorageOps -----------------------------
(***************************************************************************)
(* The awaitable storage operations of one worker, over either storage     *)
(* backend: submission from await_suspend, the terminal completion that    *)
(* makes the coroutine ready, and the accounting await_resume does.  Bytes *)
(* are counted in writes.                                                  *)
(***************************************************************************)
EXTENDS Naturals, FiniteSets, FiniteSetsExt

CONSTANTS Op,           \* coroutines with one storage operation at a time
          Slot,         \* fixed files
          MaxWrites     \* bound on writes per file

VARIABLES op,           \* per coroutine: [pc, kind, file, target, ok]
          submitted,    \* submitted_write_bytes_ of each file
          durable,      \* durable_write_bytes_ of each file
          syncedBytes,  \* fdatasync_bytes_
          barriers      \* history: per file, targets of the successful barriers

opsVars == <<op, submitted, durable, syncedBytes, barriers>>

Ready == [pc |-> "running", kind |-> "read", file |-> CHOOSE f \in Slot : TRUE,
          target |-> 0, ok |-> FALSE]

Init == /\ op = [o \in Op |-> Ready]
        /\ submitted = [f \in Slot |-> 0] /\ durable = [f \in Slot |-> 0]
        /\ syncedBytes = 0 /\ barriers = [f \in Slot |-> {}]

(* OneShotIoAwaitable::Suspend of an accepted request; a refused one does  *)
(* not suspend.                                                            *)
Suspend(o, kind, f, target) ==
    /\ op[o].pc = "running"
    /\ op' = [op EXCEPT ![o] = [pc |-> "suspended", kind |-> kind, file |-> f,
                                target |-> target, ok |-> FALSE]]

(* An accepted write counts when it is submitted.                          *)
SubmitWrite(f) == /\ submitted[f] < MaxWrites
                  /\ submitted' = [submitted EXCEPT ![f] = @ + 1]
SuspendSizeIo(o, f) ==
    /\ \/ Suspend(o, "write", f, 0) /\ SubmitWrite(f)
       \/ Suspend(o, "read", f, 0) /\ UNCHANGED submitted
    /\ UNCHANGED <<durable, syncedBytes, barriers>>

SuspendOpen(o, f) == Suspend(o, "open", f, 0)
                     /\ UNCHANGED <<submitted, durable, syncedBytes, barriers>>

(* An accepted fdatasync covers what was submitted before it.              *)
StorageWriteSubmissionBytes(f) == submitted[f]
SuspendFileStatus(o, f) ==
    /\ \/ Suspend(o, "close", f, 0)
       \/ Suspend(o, "fdatasync", f, StorageWriteSubmissionBytes(f))
    /\ UNCHANGED <<submitted, durable, syncedBytes, barriers>>

(* OneShotIoAwaitable::Complete, in any order between operations *)
Complete(o, ok) == /\ op[o].pc = "suspended"
                   /\ op' = [op EXCEPT ![o].pc = "ready", ![o].ok = ok]
                   /\ UNCHANGED <<submitted, durable, syncedBytes, barriers>>

(* Mutant: the bytes are added, not the difference.                      *)
RecordLatest(f, target) == /\ syncedBytes' = syncedBytes + target
                           /\ durable' = [durable EXCEPT ![f] = target]

(* RecordFdatasyncCompletion *)
RecordFdatasync(f, target) ==
    IF target > durable[f]
    THEN /\ syncedBytes' = syncedBytes + (target - durable[f])
         /\ durable' = [durable EXCEPT ![f] = target]
    ELSE UNCHANGED <<syncedBytes, durable>>

(* OneShotIoAwaitable::Resume                                              *)
Resume(o) == op[o].pc = "ready" /\ op' = [op EXCEPT ![o] = Ready]

ResumeSizeIo(o) == /\ Resume(o) /\ op[o].kind \in {"read", "write", "open"}
                   /\ UNCHANGED <<submitted, durable, syncedBytes, barriers>>
ResumeFileStatus(o) ==
    LET f == op[o].file
    IN /\ Resume(o) /\ op[o].kind \in {"close", "fdatasync"}
       /\ IF op[o].ok /\ op[o].kind = "fdatasync"
          THEN /\ RecordFdatasync(f, op[o].target)
               /\ barriers' = [barriers EXCEPT ![f] = @ \cup {op[o].target}]
          ELSE UNCHANGED <<syncedBytes, durable, barriers>>
       /\ UNCHANGED submitted

Next == \E o \in Op :
           \/ \E f \in Slot : SuspendSizeIo(o, f) \/ SuspendOpen(o, f)
                              \/ SuspendFileStatus(o, f)
           \/ \E ok \in BOOLEAN : Complete(o, ok)
           \/ ResumeSizeIo(o) \/ ResumeFileStatus(o)

(* fdatasync_bytes_ counts every byte submitted before a successful        *)
(* barrier once, when barriers overlap and complete in any order.          *)
DurableOnce ==
    /\ \A f \in Slot : /\ durable[f] = Max(barriers[f] \cup {0})
                       /\ durable[f] <= submitted[f]
    /\ syncedBytes = MapThenSumSet(LAMBDA f : durable[f], Slot)
=============================================================================
