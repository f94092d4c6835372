----------------------------- MODULE MCBackends -----------------------------
(***************************************************************************)
(* The frame pool, the storage components, and those of the DPDK backend   *)
(* with its FreeBSD port, side by side: `part' names the one a behaviour   *)
(* exercises, the others keep their initial state.                         *)
(***************************************************************************)
EXTENDS Naturals, Sequences

CONSTANTS Tag, File, Controller, Paths, Depth, Budget, Big, Vwc, NoFile,
          f1, f2, f3, c1, c2, c3, Thread, Namespace, Nobody, Op, MaxWrites,
          workers, queues, RingSize, MaxPackets, MaxSockets, capacity, None,
          SocketTag,
          kClientPortFirst, kClientPortLast, Port, MaxEnds, Placement,
          MaxDepth, Item, maximum, Task, MaxTime, MaxCallouts, MaxTasks, Null,
          FrameThread, FrameBlock, Size, kMinClassBytes, kClassCount,
          kMaxFramesPerClass, kMaxCachedBytes

VARIABLES part, free, count, cached, class, frame,
          mode, files, channels, deferred, outstanding, cursor, busy, done, poll,
          live, waiting,
          known, devices, qpair, global, lock, call, command, durable,
          op, submitted, durableBytes, syncedBytes, barriers, timer,
          pc, startup, packets, out, pub, staged, lane, inWait, work, left,
          table, pending, completions, batch, scan, closing, made, up,
          fabric, placement, owner, ends, nextPort,
          word, lo_data, held,
          state, before, current, reader, inside, zonePc,
          now, callouts, nextEntry, tail, ta_pending, bsdPoll

MCPaths == {<<f1, c1>>, <<f2, c2>>, <<f3, c3>>, <<f2, c1>>}
MCPlacement == {<<0>>, <<1, 0>>}

Pool == INSTANCE FramePool WITH Thread <- FrameThread, Block <- FrameBlock
Spdk == INSTANCE SpdkStorage
Sync == INSTANCE SpdkSync WITH Ctlr <- {c1, c2}
Ops == INSTANCE StorageOps WITH Slot <- {f1}, durable <- durableBytes
Tim == INSTANCE Timers
Fab == INSTANCE DpdkFabric
Sock == INSTANCE DpdkSockets WITH Tag <- SocketTag
Ports == INSTANCE DpdkPorts WITH next <- nextPort
Locks == INSTANCE BsdLocks WITH Worker <- Thread
Zone == INSTANCE BsdZone WITH Worker <- Thread, pc <- zonePc
Work == INSTANCE BsdWork WITH pending <- callouts, next <- nextEntry, poll <- bsdPoll

poolVars == <<free, count, cached, class, frame>>
spdkVars == <<mode, files, channels, deferred, outstanding, cursor, busy, done, poll,
              live, waiting>>
syncVars == <<known, devices, qpair, global, lock, call, command, durable>>
opsVars == <<op, submitted, durableBytes, syncedBytes, barriers>>
storageVars == <<spdkVars, syncVars, opsVars, timer>>
fabricVars == <<pc, startup, packets, out, pub, staged, lane, inWait, work, left>>
sockVars == <<table, pending, completions, batch, scan, closing, made, up>>
portVars == <<fabric, placement, owner, ends, nextPort>>
lockVars == <<word, lo_data, held>>
zoneVars == <<state, before, current, reader, inside, zonePc>>
workVars == <<now, callouts, nextEntry, tail, ta_pending, bsdPoll>>
bsdVars == <<lockVars, zoneVars, workVars>>
dpdkVars == <<fabricVars, sockVars, portVars>>
mcVars == <<part, poolVars, storageVars, dpdkVars, bsdVars>>

MCInit == /\ part \in {"pool", "spdk", "sync", "ops", "timer",
                     "fabric", "sockets", "ports", "locks", "zone", "work"}
          /\ Pool!Init /\ Spdk!Init /\ Sync!Init /\ Ops!Init /\ Tim!Init
          /\ Fab!Init /\ Sock!Init /\ Ports!Init
          /\ Locks!Init /\ Zone!Init /\ Work!Init

(* What may stop: a runtime whose workers are down, a worker's sockets     *)
(* after Shutdown, the ports after StopRuntime.                            *)
Over == \/ part = "fabric" /\ \A w \in DOMAIN pc : pc[w] \in {"down", "failed"}
        \/ part = "sockets" /\ up = "down"
        \/ part = "ports" /\ fabric.stopped

StorageNext ==
    \/ part = "spdk" /\ Spdk!Next /\ UNCHANGED <<syncVars, opsVars, timer>>
    \/ part = "sync" /\ Sync!Next /\ UNCHANGED <<spdkVars, opsVars, timer>>
    \/ part = "ops" /\ Ops!Next /\ UNCHANGED <<spdkVars, syncVars, timer>>
    \/ part = "timer" /\ Tim!Next /\ UNCHANGED <<spdkVars, syncVars, opsVars>>
DpdkNext ==
    \/ part = "fabric" /\ Fab!Next /\ UNCHANGED <<sockVars, portVars>>
    \/ part = "sockets" /\ Sock!Next /\ UNCHANGED <<fabricVars, portVars>>
    \/ part = "ports" /\ Ports!Next /\ UNCHANGED <<fabricVars, sockVars>>
BsdNext ==
    \/ part = "locks" /\ Locks!Next /\ UNCHANGED <<zoneVars, workVars>>
    \/ part = "zone" /\ Zone!Next /\ UNCHANGED <<lockVars, workVars>>
    \/ part = "work" /\ Work!Next /\ UNCHANGED <<lockVars, zoneVars>>
MCNext == \/ /\ part = "pool" /\ Pool!Next
             /\ UNCHANGED <<part, storageVars, dpdkVars, bsdVars>>
          \/ StorageNext /\ UNCHANGED <<part, poolVars, dpdkVars, bsdVars>>
          \/ DpdkNext /\ UNCHANGED <<part, poolVars, storageVars, bsdVars>>
          \/ BsdNext /\ UNCHANGED <<part, poolVars, storageVars, dpdkVars>>
          \/ Over /\ UNCHANGED mcVars

MCSpec == MCInit /\ [][MCNext]_mcVars

(* The books of the SPDK channels balance: every accepted tag is in        *)
(* exactly one place, outstanding_ counts the unfinished requests, and     *)
(* every open file names its controller's channel (TagsExact and           *)
(* ChannelsAgree of SpdkStorage); and requests are issued in the order     *)
(* they were accepted (KeepsOrder of SpdkStorage).                         *)
ChannelsAreSafe == /\ [](part = "spdk" => Spdk!TagsExact /\ Spdk!ChannelsAgree)
                   /\ Spdk!KeepsOrder
(* Metadata I/O from several threads: see MetadataSafe of SpdkSync. *)
MetadataSafe == part = "sync" => Sync!MetadataSafe
(* What an awaitable reports is true: every byte is counted durable once,  *)
(* and a cancelled timer does not say that it fired (DurableOnce of        *)
(* StorageOps, CancelIsFinal of Timers).                                   *)
ReportsAreTrue == /\ part = "ops" => Ops!DurableOnce
                  /\ part = "timer" => Tim!CancelIsFinal
(* No DPDK worker sleeps on a packet or a start nobody will wake it for:   *)
(* see NoSleepInVain of DpdkFabric.                                        *)
NoSleepInVain == part = "fabric" => Fab!NoSleepInVain
(* A socket number is not reused while somebody may use it, and every      *)
(* request is answered once: see PinsHold and OneAnswerEach of DpdkSockets. *)
PinsHold == part = "sockets" => Sock!PinsHold /\ Sock!OneAnswerEach
(* Segments reach the worker that holds their connection: see              *)
(* SegmentsReachOwner of DpdkPorts.                                        *)
SegmentsReachOwner == part = "ports" => Ports!SegmentsReachOwner
(* What FreeBSD code relies on holds without its kernel: a writer is alone *)
(* until its last release, no reader holds a released item, and no task or *)
(* callout is lost or slept through (LockExcludes of BsdLocks,             *)
(* ReadersKeepItems of BsdZone, NoWorkIsLost of BsdWork).                  *)
HostPortIsSafe == /\ part = "locks" => Locks!LockExcludes
                  /\ part = "zone" => Zone!ReadersKeepItems
                  /\ part = "work" => Work!NoWorkIsLost
(* Frames fit their blocks and are cached once: see FramesFit of FramePool. *)
FramesFit == part = "pool" => Pool!FramesFit
=============================================================================
