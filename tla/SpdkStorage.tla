---------------------------- MODULE SpdkStorage ----------------------------
(***************************************************************************)
(* The polled storage backend of one worker (SpdkBackend): fixed files,    *)
(* one channel (queue pair) per NVMe controller, the per-channel FIFO of   *)
(* requests that found no descriptor, the completions deferred to the next *)
(* Poll, and Poll itself.  Everything runs on the worker's thread; what    *)
(* interleaves is the device, and the completion callbacks, which may call *)
(* every submit function while Poll is in the middle of its traversal.     *)
(* Poll is therefore one step per callback it dispatches.                  *)
(*                                                                         *)
(* A queue pair is named by its controller: at most one channel of a       *)
(* controller exists at a time.  channel_generation_ is only compared with *)
(* a value saved by the same Poll, so the model keeps the comparison:      *)
(* `moved' says the table changed since Poll saved the generation.         *)
(***************************************************************************)
EXTENDS Naturals, Sequences, FiniteSets, SequencesExt

CONSTANTS Tag,          \* completion tags; each stands for one request
          File,         \* slots of the fixed-file table
          Controller,   \* NVMe controllers
          Paths,        \* <<f, c>>: the callers open a device of c in slot f
          Depth,        \* commands a queue pair holds before ENOMEM
          Budget,       \* spdk_max_completions_per_poll_, 0 for no limit
          Big,          \* tags of requests no empty queue pair can take
          Vwc,          \* controllers with a volatile write cache
          NoFile        \* a closed slot; no queue pair

VARIABLES mode,         \* "fresh", "bound", "draining" (in Shutdown), "retired"
          files,        \* [File -> NoFile or [ctl, index]]
          channels,     \* channels_: sequence of [ctl, open, pending]
          deferred,     \* pending_completions_
          outstanding,  \* outstanding_
          cursor,       \* next_poll_channel_
          busy, done,   \* per controller: commands at the device, completed ones
          poll,         \* the running Poll: its program counter and locals
          live,         \* history: tags accepted and not yet completed
          waiting       \* history: accepted, not issued, in acceptance order

spdkVars == <<mode, files, channels, deferred, outstanding, cursor, busy, done,
              poll, live, waiting>>

Closed(f) == files[f] = NoFile
Lookup(f) == files[f] # NoFile
InFlight(c) == Cardinality(busy[c] \cup done[c])
HasOutstanding == outstanding # 0 \/ deferred # <<>>
NeedsPolling == mode \in {"bound", "draining"} /\ HasOutstanding
Limit == IF mode = "draining" THEN 0 ELSE Budget
Capped(n) == IF n > Budget THEN Budget ELSE n   \* counts are only compared with it
IdlePoll == [pc |-> "idle", ret |-> "idle", batch |-> <<>>, first |-> 0,
             visited |-> 0, count |-> 0, at |-> 0, qpair |-> NoFile,
             quota |-> 0, used |-> 0, tries |-> 0, moved |-> FALSE]

Init == /\ mode = "fresh" /\ files = [f \in File |-> NoFile]
        /\ channels = <<>> /\ deferred = <<>> /\ outstanding = 0 /\ cursor = 0
        /\ busy = [c \in Controller |-> {}] /\ done = [c \in Controller |-> {}]
        /\ poll = IdlePoll /\ live = {} /\ waiting = <<>>

(* Worker::Init binds the backend, then RegisterFixedFiles sizes the table. *)
Bind == /\ mode = "fresh" /\ mode' = "bound"
        /\ UNCHANGED <<files, channels, deferred, outstanding, cursor, busy,
                       done, poll, live, waiting>>

(***************************************************************************)
(* Submission: from a coroutine between two polls, or from a callback.     *)
(***************************************************************************)
MaySubmit(t) == /\ t \notin live
                /\ \/ mode = "bound" /\ poll.pc = "idle"
                   \/ poll.pc = "callback"

Traversing == poll.pc = "callback" /\ poll.ret # "batch"
ChannelOf(c) == {i \in DOMAIN channels : channels[i].ctl = c}

Defer(t) == deferred' = Append(deferred, t) /\ live' = live \cup {t}

(* The file's device is found under controller c; its channel is reused or *)
(* allocated.  The completion is deferred to the next Poll.                *)
SubmitOpenDirect(t, f, c) ==
    /\ MaySubmit(t) /\ Closed(f)
    /\ LET known == ChannelOf(c) # {}
           i == IF known THEN CHOOSE j \in ChannelOf(c) : TRUE
                         ELSE Len(channels) + 1
           table == IF known THEN channels
                    ELSE Append(channels, [ctl |-> c, open |-> 0, pending |-> <<>>])
       IN /\ channels' = [table EXCEPT ![i].open = @ + 1]
          /\ files' = [files EXCEPT ![f] = [ctl |-> c, index |-> i]]
          /\ poll' = [poll EXCEPT !.moved = @ \/ (Traversing /\ ~known)]
    /\ Defer(t)
    /\ UNCHANGED <<mode, outstanding, cursor, busy, done, waiting>>

(* Mutant: the files behind the erased channel keep their index.           *)
Unshifted(i, f) == [files EXCEPT ![f] = NoFile]
(* The channel indices of the open files after channel i has left the table *)
Shifted(i, f) == [g \in File |-> IF g = f THEN NoFile
                                 ELSE IF Lookup(g) /\ files[g].index > i
                                      THEN [files[g] EXCEPT !.index = @ - 1]
                                      ELSE files[g]]

(* Refused while any accepted request is unfinished.  The last file of a   *)
(* channel frees its queue pair and shifts the channels behind it.         *)
SubmitCloseDirect(t, f) ==
    /\ MaySubmit(t) /\ Lookup(f) /\ outstanding = 0
    /\ LET i == files[f].index
           last == channels[i].open = 1
           rest == RemoveAt(channels, i)
       IN IF last
          THEN /\ channels' = rest
               /\ files' = Shifted(i, f)
               /\ cursor' = IF rest = <<>> THEN 0 ELSE cursor % Len(rest)
               /\ poll' = [poll EXCEPT !.moved = @ \/ Traversing,
                              !.qpair = IF @ = channels[i].ctl THEN NoFile ELSE @]
          ELSE /\ channels' = [channels EXCEPT ![i].open = @ - 1]
               /\ files' = [files EXCEPT ![f] = NoFile]
               /\ UNCHANGED <<cursor, poll>>
    /\ Defer(t)
    /\ UNCHANGED <<mode, outstanding, busy, done, waiting>>

(* What spdk_nvme_ns_cmd_* may return for t on c's queue pair. *)
TrySubmit(t, c) == IF t \in Big \/ InFlight(c) >= Depth THEN {"nomem"}
                   ELSE {"ok", "fault"}

(* Mutant: only commands at the device are counted.                        *)
QueueUncounted(t, i, f) ==
    /\ channels' = [channels EXCEPT ![i].pending = Append(@, [tag |-> t, file |-> f])]
    /\ waiting' = Append(waiting, [tag |-> t, ctl |-> channels[i].ctl])
    /\ live' = live \cup {t}
    /\ UNCHANGED <<busy, outstanding>>
QueuePending(t, i, f) ==
    /\ channels' = [channels EXCEPT ![i].pending = Append(@, [tag |-> t, file |-> f])]
    /\ waiting' = Append(waiting, [tag |-> t, ctl |-> channels[i].ctl])
    /\ outstanding' = outstanding + 1
    /\ live' = live \cup {t}
    /\ busy' = busy

(* Mutant: the device is tried although requests wait.                     *)
SubmitEagerly(t, f) ==
    LET i == files[f].index
        c == channels[i].ctl
    IN \/ /\ InFlight(c) < Depth /\ t \notin Big
          /\ busy' = [busy EXCEPT ![c] = @ \cup {t}]
          /\ outstanding' = outstanding + 1
          /\ live' = live \cup {t}
          /\ UNCHANGED <<channels, waiting>>
       \/ /\ InFlight(c) >= Depth \/ (t \in Big /\ InFlight(c) # 0)
          /\ QueuePending(t, i, f)
(* A request joins the FIFO behind the ones already there, or when the     *)
(* queue pair is full; it is refused when waiting could not help.          *)
SubmitOrDefer(t, f) ==
    LET i == files[f].index
        c == channels[i].ctl
    IN \/ channels[i].pending # <<>> /\ QueuePending(t, i, f)
       \/ /\ channels[i].pending = <<>>
          /\ \E rc \in TrySubmit(t, c) :
               \/ /\ rc = "ok"
                  /\ busy' = [busy EXCEPT ![c] = @ \cup {t}]
                  /\ outstanding' = outstanding + 1
                  /\ live' = live \cup {t}
                  /\ UNCHANGED <<channels, waiting>>
               \/ rc = "nomem" /\ InFlight(c) # 0 /\ QueuePending(t, i, f)

SubmitIo(t, f) == /\ MaySubmit(t) /\ Lookup(f) /\ SubmitOrDefer(t, f)
                  /\ UNCHANGED <<mode, files, deferred, cursor, done, poll>>

(* Without a volatile write cache a flush completes at the next Poll; with *)
(* one it is a command like a read or a write (SubmitIo).                  *)
SubmitFdatasync(t, f) ==
    /\ MaySubmit(t) /\ Lookup(f) /\ files[f].ctl \notin Vwc /\ Defer(t)
    /\ UNCHANGED <<mode, files, channels, outstanding, cursor, busy, done, poll,
                   waiting>>

(* External: the device finishes a command. *)
DeviceFinish(c, t) == /\ t \in busy[c]
                      /\ busy' = [busy EXCEPT ![c] = @ \ {t}]
                      /\ done' = [done EXCEPT ![c] = @ \cup {t}]
                      /\ UNCHANGED <<mode, files, channels, deferred, outstanding,
                                     cursor, poll, live, waiting>>

(***************************************************************************)
(* Poll                                                                    *)
(***************************************************************************)
PollBegin == /\ poll.pc = "idle" /\ NeedsPolling
             /\ poll' = [IdlePoll EXCEPT !.pc = "batch", !.batch = deferred,
                                         !.used = Capped(Len(deferred))]
             /\ deferred' = <<>>
             /\ UNCHANGED <<mode, files, channels, outstanding, cursor, busy,
                            done, live, waiting>>

(* The completions that were deferred before this Poll, one by one. *)
CompleteDeferred ==
    /\ poll.pc = "batch" /\ poll.batch # <<>>
    /\ live' = live \ {Head(poll.batch)}
    /\ poll' = [poll EXCEPT !.pc = "callback", !.ret = "batch", !.batch = Tail(@)]
    /\ UNCHANGED <<mode, files, channels, deferred, outstanding, cursor, busy,
                   done, waiting>>

StartTraversal ==
    /\ poll.pc = "batch" /\ poll.batch = <<>>
    /\ poll' = [poll EXCEPT !.pc = "visit", !.count = Len(channels),
                            !.first = cursor, !.moved = FALSE]
    /\ UNCHANGED <<mode, files, channels, deferred, outstanding, cursor, busy,
                   done, live, waiting>>

(* Mutant: every pass starts at the first channel.                         *)
FromTheFirst == poll.visited
(* Channel `visited' of this pass, counted from the origin saved at its start. *)
VisitIndex == (poll.first + poll.visited) % poll.count

Visit ==
    /\ poll.pc = "visit" /\ poll.visited < poll.count
    /\ LET index == VisitIndex
       IN IF Limit # 0 /\ poll.used >= Limit
          THEN /\ cursor' = index
               /\ poll' = IdlePoll
          ELSE /\ cursor' = (index + 1) % poll.count
               /\ poll' = [poll EXCEPT
                     !.pc = "reap", !.at = index + 1,
                     !.qpair = channels[index + 1].ctl,
                     !.quota = IF Limit = 0 THEN Depth ELSE Limit - poll.used]
    /\ UNCHANGED <<mode, files, channels, deferred, outstanding, busy, done,
                   live, waiting>>

PollEnd == /\ poll.pc = "visit" /\ poll.visited = poll.count
           /\ poll' = IdlePoll
           /\ UNCHANGED <<mode, files, channels, deferred, outstanding, cursor,
                          busy, done, live, waiting>>

MoreToReap == IF poll.quota = 0 \/ poll.qpair = NoFile THEN FALSE
              ELSE done[poll.qpair] # {}

(* spdk_nvme_qpair_process_completions calls CompleteAsync for one command *)
CompleteAsync ==
    /\ poll.pc = "reap" /\ MoreToReap
    /\ \E t \in done[poll.qpair] :
         /\ done' = [done EXCEPT ![poll.qpair] = @ \ {t}]
         /\ live' = live \ {t}
    /\ outstanding' = outstanding - 1
    /\ poll' = [poll EXCEPT !.pc = "callback", !.ret = "reap",
                            !.quota = @ - 1, !.used = Capped(@ + 1)]
    /\ UNCHANGED <<mode, files, channels, deferred, cursor, busy, waiting>>

NextChannel == [poll EXCEPT !.pc = "visit", !.visited = @ + 1, !.tries = 0,
                            !.at = 0, !.qpair = NoFile, !.quota = 0]

(* After the queue pair: give up the pass if the table changed, otherwise  *)
(* retry the requests waiting in this channel's FIFO.                      *)
Reaped ==
    /\ poll.pc = "reap" /\ ~MoreToReap
    /\ poll' = IF poll.moved THEN IdlePoll
               ELSE IF channels[poll.at].pending # <<>>
                    THEN [poll EXCEPT !.pc = "retry"]
                    ELSE NextChannel
    /\ UNCHANGED <<mode, files, channels, deferred, outstanding, cursor, busy,
                   done, live, waiting>>

RetryDeferred ==
    /\ poll.pc = "retry"
    /\ LET pending == channels[poll.at].pending
           stop == pending = <<>> \/ (Limit # 0 /\ poll.tries >= Limit)
           t == Head(pending).tag
           c == files[Head(pending).file].ctl
       IN \/ /\ stop
             /\ poll' = NextChannel
             /\ UNCHANGED <<channels, busy, outstanding, live, waiting>>
          \/ /\ ~stop
             /\ \E rc \in TrySubmit(t, c) :
                  \/ /\ rc = "nomem" /\ InFlight(c) # 0
                     /\ poll' = NextChannel
                     /\ UNCHANGED <<channels, busy, outstanding, live, waiting>>
                  \/ /\ rc = "ok"
                     /\ busy' = [busy EXCEPT ![c] = @ \cup {t}]
                     /\ channels' = [channels EXCEPT ![poll.at].pending = Tail(@)]
                     /\ waiting' = SelectSeq(waiting, LAMBDA w : w.tag # t)
                     /\ poll' = [poll EXCEPT !.tries = Capped(@ + 1)]
                     /\ UNCHANGED <<outstanding, live>>
                  \/ /\ rc = "fault" \/ (rc = "nomem" /\ InFlight(c) = 0)
                     /\ channels' = [channels EXCEPT ![poll.at].pending = Tail(@)]
                     /\ waiting' = SelectSeq(waiting, LAMBDA w : w.tag # t)
                     /\ outstanding' = outstanding - 1
                     /\ live' = live \ {t}
                     /\ poll' = [poll EXCEPT !.pc = "callback", !.ret = "retry",
                                             !.used = Capped(@ + 1), !.tries = Capped(@ + 1)]
                     /\ busy' = busy
    /\ UNCHANGED <<mode, files, deferred, cursor, done>>

(* A callback returns into Poll; RetryDeferred, too, gives up on a changed table. *)
CallbackReturns ==
    /\ poll.pc = "callback"
    /\ poll' = IF poll.ret = "retry" /\ poll.moved THEN IdlePoll
               ELSE [poll EXCEPT !.pc = poll.ret, !.ret = "idle"]
    /\ UNCHANGED <<mode, files, channels, deferred, outstanding, cursor, busy,
                   done, live, waiting>>

(***************************************************************************)
(* Shutdown polls until nothing is outstanding, then frees the channels.   *)
(***************************************************************************)
ShutdownBegin == /\ mode = "bound" /\ poll.pc = "idle" /\ mode' = "draining"
                 /\ UNCHANGED <<files, channels, deferred, outstanding, cursor,
                                busy, done, poll, live, waiting>>

ShutdownEnd == /\ mode = "draining" /\ poll.pc = "idle" /\ ~HasOutstanding
               /\ mode' = "retired"
               /\ files' = [f \in File |-> NoFile]
               /\ channels' = <<>> /\ deferred' = <<>> /\ cursor' = 0
               /\ UNCHANGED <<outstanding, busy, done, poll, live, waiting>>

Retired == mode = "retired" /\ UNCHANGED spdkVars

Client == \E t \in Tag, f \in File :
             \/ \E c \in Controller : <<f, c>> \in Paths /\ SubmitOpenDirect(t, f, c)
             \/ SubmitCloseDirect(t, f)
             \/ SubmitIo(t, f)
             \/ SubmitFdatasync(t, f)
Device == \E c \in Controller, t \in Tag : DeviceFinish(c, t)
PollStep == PollBegin \/ CompleteDeferred \/ StartTraversal \/ Visit \/ PollEnd
            \/ CompleteAsync \/ Reaped \/ RetryDeferred \/ CallbackReturns

Next == Bind \/ Client \/ Device \/ PollStep \/ ShutdownBegin \/ ShutdownEnd \/ Retired

(* The worker's loop polls while NeedsPolling; the device finishes what it *)
(* was given; a callback returns.                                          *)
Fairness == /\ WF_spdkVars(PollStep) /\ WF_spdkVars(ShutdownEnd)
            /\ \A c \in Controller, t \in Tag : WF_spdkVars(DeviceFinish(c, t))

Spec == Init /\ [][Next]_spdkVars /\ Fairness

(* Where tag t is: how many places of the backend hold it. *)
Occurrences(t, s) == Cardinality({i \in DOMAIN s : s[i] = t})
Pending(t, i) == Cardinality({k \in DOMAIN channels[i].pending :
                                channels[i].pending[k].tag = t})
Total(S, g) == FoldSet(LAMBDA x, n : g[x] + n, 0, S)
Held(t) == Occurrences(t, deferred) + Occurrences(t, poll.batch)
           + Total(DOMAIN channels, [i \in DOMAIN channels |-> Pending(t, i)])
           + Cardinality({c \in Controller : t \in busy[c]})
           + Cardinality({c \in Controller : t \in done[c]})

(* Every accepted request is held in exactly one place (deferred, waiting, *)
(* at the device, or completed by it) and a finished one in none, also     *)
(* after Shutdown; outstanding_ counts the waiting and the issued ones.    *)
TagsExact ==
    /\ \A t \in Tag : Held(t) = (IF t \in live THEN 1 ELSE 0)
    /\ outstanding = Total(DOMAIN channels,
                           [i \in DOMAIN channels |-> Len(channels[i].pending)])
                     + Total(Controller, [c \in Controller |-> InFlight(c)])

(* The cached channel index of every open file names the channel of its    *)
(* controller, open_files_ counts those files, and no queue pair is freed  *)
(* with a command in flight: closes shift the table under a running Poll.  *)
ChannelsAgree ==
    /\ \A f \in File : Lookup(f) => /\ files[f].index \in DOMAIN channels
                                    /\ channels[files[f].index].ctl = files[f].ctl
    /\ \A i \in DOMAIN channels :
         channels[i].open = Cardinality({f \in File : Lookup(f) /\ files[f].index = i})
    /\ \A c \in Controller : InFlight(c) # 0 => ChannelOf(c) # {}

(* Commands reach a queue pair in the order their requests were accepted:  *)
(* a request is issued only when no older one waits for the same           *)
(* controller, whatever callbacks submit while Poll retries the FIFO.      *)
KeepsOrder ==
    [][\A c \in Controller, t \in Tag :
         t \in busy'[c] \ busy[c] =>
           LET older == SelectSeq(waiting, LAMBDA w : w.ctl = c)
           IN older = <<>> \/ Head(older).tag = t]_spdkVars

(* Every accepted request completes, provided the completions deferred     *)
(* before each Poll do not use up its whole budget from some point on.     *)
Starved == poll.pc = "visit" /\ poll.visited = 0 /\ Limit # 0 /\ poll.used >= Limit
RequestsComplete ==
    ([]<>Starved => []<>(poll.pc = "reap"))
      => \A t \in Tag : (t \in live) ~> (t \notin live)
=============================================================================
