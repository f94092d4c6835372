------------------------------ MODULE SpdkSync ------------------------------
(***************************************************************************)
(* Blocking startup I/O on NVMe metadata (bycorf::spdk::sync) from several *)
(* threads, the registry of controllers and namespaces it discovers, and   *)
(* the release of the metadata queue pairs.  g_spdk_mutex guards the       *)
(* registry, a controller's sync_mutex_ guards its metadata queue pair.    *)
(***************************************************************************)
EXTENDS Naturals, FiniteSets

CONSTANTS Thread, Ctlr, Namespace, Nobody

VARIABLES known,        \* g_spdk_controllers: controllers attached so far
          devices,      \* g_spdk_devices: namespaces <<c, n>> discovered
          qpair,        \* sync_qpair_ of each controller: "none", "live", "null"
          global,       \* owner of g_spdk_mutex
          lock,         \* owner of each controller's sync_mutex_
          call,         \* the call each thread is in
          command,      \* per controller: threads with a command on its qpair
          durable       \* history: per thread, what its last call made durable

syncVars == <<known, devices, qpair, global, lock, call, command, durable>>

Releaser == "releaser"          \* the thread in ReleaseSpdkStorageMetadataQpairs
NoCall == [pc |-> "idle", ctl |-> Nobody, ns |-> Nobody, write |-> FALSE,
           flush |-> FALSE, ok |-> FALSE]

Init == /\ known = {} /\ devices = {} /\ qpair = [c \in Ctlr |-> "none"]
        /\ global = Nobody /\ lock = [c \in Ctlr |-> Nobody]
        /\ call = [p \in Thread |-> NoCall]
        /\ command = [c \in Ctlr |-> {}]
        /\ durable = [p \in Thread |-> "no"]

Goto(p, pc) == call' = [call EXCEPT ![p].pc = pc]
Return(p, ok) == call' = [call EXCEPT ![p] = [@ EXCEPT !.pc = "idle", !.ok = ok]]

(* Read, Write, ReadDma, WriteDma *)
Call(p) == /\ call[p].pc = "idle"
           /\ \E c \in Ctlr, n \in Namespace, w, f \in BOOLEAN :
                /\ f => w
                /\ call' = [call EXCEPT ![p] = [pc |-> "lookup", ctl |-> c,
                              ns |-> n, write |-> w, flush |-> f, ok |-> FALSE]]
           /\ durable' = [durable EXCEPT ![p] = "no"]
           /\ UNCHANGED <<known, devices, qpair, global, lock, command>>

(* GetDevice, one critical section of g_spdk_mutex: a known namespace, or  *)
(* the namespace of a controller that is attached on its first use.  The   *)
(* probe, the queue pair, or the namespace may be refused; the controller  *)
(* stays registered when only the namespace is.                            *)
GetDevice(p) ==
    LET c == call[p].ctl
        attach == c \notin known
    IN /\ call[p].pc = "lookup" /\ global = Nobody
       /\ \/ /\ <<c, call[p].ns>> \in devices
             /\ Goto(p, "lock") /\ UNCHANGED <<known, devices, qpair>>
          \/ /\ <<c, call[p].ns>> \notin devices
             /\ \/ attach /\ Return(p, FALSE) /\ UNCHANGED <<known, devices, qpair>>
                \/ /\ known' = known \cup {c}
                   /\ qpair' = IF attach THEN [qpair EXCEPT ![c] = "live"] ELSE qpair
                   /\ \/ Return(p, FALSE) /\ UNCHANGED devices
                      \/ /\ devices' = devices \cup {<<c, call[p].ns>>}
                         /\ Goto(p, "lock")
       /\ UNCHANGED <<global, lock, command, durable>>

(* sync_mutex_ is held from before SubmitSync until its return. *)
LockController(p) == LET c == call[p].ctl
                     IN /\ call[p].pc = "lock" /\ lock[c] = Nobody
                        /\ lock' = [lock EXCEPT ![c] = p]
                        /\ Goto(p, "submit")
                        /\ UNCHANGED <<known, devices, qpair, global, command, durable>>

Unlock(p) == lock' = [lock EXCEPT ![call[p].ctl] = Nobody]

(* Mutant: the queue pair is not looked at again.                        *)
SubmitUnchecked(p) ==
    LET c == call[p].ctl
    IN /\ call[p].pc = "submit"
       /\ command' = [command EXCEPT ![c] = @ \cup {p}]
       /\ Goto(p, "wait")
       /\ UNCHANGED <<known, devices, qpair, global, durable, lock>>

(* SubmitSync: a released queue pair or a refused submission ends the      *)
(* call; the request itself is not empty.                                  *)
SubmitSync(p) ==
    LET c == call[p].ctl
    IN /\ call[p].pc = "submit"
       /\ \/ /\ qpair[c] # "null"
             /\ command' = [command EXCEPT ![c] = @ \cup {p}]
             /\ Goto(p, "wait") /\ UNCHANGED lock
          \/ Return(p, FALSE) /\ Unlock(p) /\ UNCHANGED command
       /\ UNCHANGED <<known, devices, qpair, global, durable>>

(* The call polls its own queue pair until the command is done.  A write   *)
(* with flush then submits the flush; a failed flush fails the call.  A    *)
(* queue pair that fails (external) drops its command.                     *)
CommandDone(p, error) ==
    LET c == call[p].ctl
        more == call[p].write /\ call[p].flush /\ call[p].pc = "wait"
    IN /\ call[p].pc \in {"wait", "flush"} /\ p \in command[c]
       /\ IF ~error /\ more
          THEN Goto(p, "flush") /\ UNCHANGED <<command, lock>>
          ELSE /\ Return(p, ~error) /\ Unlock(p)
               /\ command' = [command EXCEPT ![c] = @ \ {p}]
       /\ durable' = [durable EXCEPT ![p] =
             IF error THEN @ ELSE IF call[p].pc = "flush" THEN "flushed" ELSE "written"]
       /\ UNCHANGED <<known, devices, qpair, global>>

(* ReleaseSpdkStorageMetadataQpairs: under g_spdk_mutex, each controller   *)
(* in turn under its sync_mutex_.                                          *)
ReleaseBegin == /\ global = Nobody /\ \E c \in known : qpair[c] = "live"
                /\ global' = Releaser
                /\ UNCHANGED <<known, devices, qpair, lock, call, command, durable>>
ReleaseOne(c) == /\ global = Releaser /\ c \in known /\ qpair[c] = "live"
                 /\ lock[c] = Nobody
                 /\ qpair' = [qpair EXCEPT ![c] = "null"]
                 /\ UNCHANGED <<known, devices, global, lock, call, command, durable>>
ReleaseEnd == /\ global = Releaser /\ \A c \in known : qpair[c] # "live"
              /\ global' = Nobody
              /\ UNCHANGED <<known, devices, qpair, lock, call, command, durable>>

Next == \/ \E p \in Thread : \/ Call(p) \/ GetDevice(p) \/ LockController(p)
                             \/ SubmitSync(p)
                             \/ \E error \in BOOLEAN : CommandDone(p, error)
        \/ ReleaseBegin \/ ReleaseEnd
        \/ \E c \in Ctlr : ReleaseOne(c)

(* Metadata queue pairs are not thread safe: one command at a time, never  *)
(* on a released queue pair, and a write asked to flush reports success    *)
(* only after its flush completed.                                         *)
MetadataSafe ==
    /\ \A c \in Ctlr : /\ Cardinality(command[c]) <= 1
                       /\ command[c] # {} => qpair[c] = "live"
    /\ \A p \in Thread : call[p].ok /\ call[p].flush => durable[p] = "flushed"
=============================================================================
