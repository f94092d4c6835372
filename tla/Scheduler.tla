----------------------------- MODULE Scheduler ------------------------------
(***************************************************************************)
(* The rounds of one worker (src/runtime/worker.cpp): its queues of ready  *)
(* coroutines and of remote work, foreground and background, the slices of *)
(* a round, sleeping, and the registries of coroutine frames.  A frame     *)
(* stands for an address, so it is used again after it was destroyed.      *)
(* What a coroutine does between two suspensions is any sequence of        *)
(* spawns, calls of child tasks and wakes.                                 *)
(***************************************************************************)
EXTENDS Naturals, Sequences, FiniteSets, Functions

CONSTANTS
    Frame, Call, None,
    ForegroundBudget, BackgroundBudget, PrePollBudget,
    WarrantPercent, Window,
    MaxCost             \* bound: the cycles of a dispatch

ASSUME FiniteAssumption ==
    Frame # {} /\ Cardinality(Frame) \in Nat /\ Cardinality(Call) \in Nat
ASSUME NamesAssumption == None \notin Frame \cup Call /\ Frame \cap Call = {}
ASSUME BudgetAssumption ==
    /\ ForegroundBudget \in Nat \ {0} /\ BackgroundBudget \in Nat \ {0}
    /\ PrePollBudget \in Nat /\ Window \in Nat \ {0} /\ MaxCost \in Nat \ {0}
    /\ WarrantPercent \in 0..100

Class == {"fg", "bg"}

VARIABLES
    use,        \* per frame: "free", "root" or "child"
    class,      \* per frame: the class it was created in
    child,      \* per frame: the child task it awaits
    at,         \* per frame: where its coroutine is
    ready,      \* per class: ready_, background_ready_
    next,       \* per class: next_ready_, next_background_ready_
    remote,     \* per class: foreground_ and background_remote_work_
    turn,       \* per class: ..._remote_turn_
    cycles,     \* per class: ..._runtime_cycles_
    tasks,      \* background_tasks_
    detached,   \* detached_tasks_
    index,      \* per frame: detached_index_; 0 is kNotDetached
    pc, did,    \* the position in RunOnce; did_work
    slice,      \* the slice that runs: its cycles, and what it dispatched
    fresh,      \* history: frames that yielded since the last poll
    passed      \* history, per class: a kind of work that was preferred

frameVars == <<use, class, child, at>>
queueVars == <<ready, next, remote>>
registryVars == <<tasks, detached, index>>
history == <<fresh, passed>>
vars == <<frameVars, queueVars, turn, cycles, registryVars, pc, did, slice,
          history>>

NoSlice == [spent |-> 0, running |-> None]
NotPassed == [kind |-> "none", n |-> 0]

(* The roots of the services are spawned before the loop starts.           *)
Init ==
    /\ LET f == CHOOSE g \in Frame : TRUE
       IN /\ use = [g \in Frame |-> IF g = f THEN "root" ELSE "free"]
          /\ at = [g \in Frame |-> IF g = f THEN "queued" ELSE "none"]
          /\ ready = [c \in Class |-> IF c = "fg" THEN <<f>> ELSE <<>>]
          /\ detached = <<f>>
          /\ index = [g \in Frame |-> IF g = f THEN 1 ELSE 0]
    /\ class = [f \in Frame |-> "fg"] /\ child = [f \in Frame |-> None]
    /\ next = [c \in Class |-> <<>>] /\ remote = [c \in Class |-> <<>>]
    /\ turn = [c \in Class |-> TRUE] /\ cycles = [c \in Class |-> 0]
    /\ tasks = {}
    /\ pc = "top" /\ did = FALSE /\ slice = NoSlice
    /\ fresh = {} /\ passed = [c \in Class |-> NotPassed]

-----------------------------------------------------------------------------
(* IsBackground: the class of a handle, by the registry t.                 *)
ClassIn(t, f) == IF f \in t THEN "bg" ELSE "fg"

Enqueue(q, t, f) == [q EXCEPT ![ClassIn(t, f)] = Append(@, f)]

Waiting(where) == {f \in Frame : at[f] = where}
NeedsPolling == Waiting("storage") # {}
Away == {r \in Call : r # slice.running /\
            \A c \in Class : r \notin Range(remote[c])}
Runnable(c) == ready[c] # <<>> \/ remote[c] # <<>>
HasWork == \E c \in Class : Runnable(c) \/ next[c] # <<>>

(* Some of a set, in any order, divided between the queues of the classes. *)
Lengths == 0..(Cardinality(Frame) + Cardinality(Call))
Some(S) == {s \in UNION {[1..n -> S] : n \in Lengths} : IsInjective(s)}
Batch(S) == {b \in [Class -> Some(S)] : Range(b["fg"]) \cap Range(b["bg"]) = {}}
Nothing == [c \in Class |-> <<>>]
Joined(q, b) == [c \in Class |-> q[c] \o b[c]]

(* The same of coroutines, each enqueued in its class.                     *)
Woken(S) ==
    {b \in Batch(S) : \A c \in Class : \A f \in Range(b[c]) : ClassIn(tasks, f) = c}

Place(fs) ==
    at' = [f \in Frame |-> IF \E c \in Class : f \in Range(fs[c]) THEN "queued"
                           ELSE at[f]]

(* Coroutines that wait become ready.                                      *)
Wake(fs) == ready' = Joined(ready, fs) /\ Place(fs)

MergeDeferred(q) == Joined(q, next)
NoneDeferred == next' = Nothing

(* What DrainCrossCore does with requests, each of the class of its sender;*)
(* replies and notifications wake coroutines.                              *)
Schedule(rs) == remote' = Joined(remote, rs)

-----------------------------------------------------------------------------
(* RunOnce.  What is left over counts as work; the mailbox is drained...   *)
DrainCrossCore ==
    /\ pc = "top"
    /\ \E fs \in Woken(Waiting("peer")), rs \in Batch(Away) :
          /\ Wake(fs) /\ Schedule(rs)
          /\ did' = (HasWork \/ fs # Nothing \/ rs # Nothing)
    /\ pc' = "poll"
    /\ UNCHANGED <<use, class, child, next, turn, cycles, registryVars, slice, history>>

(* ... the network is polled...                                            *)
Poll ==
    /\ pc = "poll"
    /\ \E fs \in Woken(Waiting("net")) : Wake(fs) /\ did' = (did \/ fs # Nothing)
    /\ fresh' = {}
    /\ pc' = "pre"
    /\ UNCHANGED <<use, class, child, next, remote, turn, cycles, registryVars,
                   slice, passed>>

(* ... the foreground runs ahead of storage completions ...                *)
PrePoll ==
    /\ pc = "pre"
    /\ IF NeedsPolling /\ PrePollBudget # 0 /\ (Runnable("fg") \/ next["fg"] # <<>>)
       THEN /\ ready' = MergeDeferred(ready) /\ NoneDeferred
            /\ pc' = "prepoll"
       ELSE pc' = "storage" /\ UNCHANGED <<ready, next>>
    /\ UNCHANGED <<frameVars, remote, turn, cycles, registryVars, did, slice, history>>

(* ... storage is polled if it has anything outstanding, and coroutines    *)
(* that yielded come behind the others.                                    *)
PollStorage ==
    /\ pc = "storage"
    /\ \E fs \in Woken(Waiting("storage")) :
          /\ ready' = MergeDeferred(Joined(ready, fs)) /\ Place(fs)
          /\ did' = (did \/ fs # Nothing)
    /\ NoneDeferred
    /\ fresh' = IF NeedsPolling THEN {} ELSE fresh
    /\ pc' = "fg"
    /\ UNCHANGED <<use, class, child, remote, turn, cycles, registryVars, slice, passed>>

(* Mutant: background work waits for an idle foreground.                   *)
ShouldRunWhenIdle == Runnable("bg") /\ ~Runnable("fg")

ShouldRunBackground ==
    /\ Runnable("bg")
    /\ \/ ~Runnable("fg")
       \/ cycles["fg"] = 0
       \/ cycles["bg"] <= ((cycles["fg"] + cycles["bg"]) * WarrantPercent) \div 100

(* Background work gets a slice, after a Flush.                            *)
Background ==
    /\ pc = "should"
    /\ pc' = IF ShouldRunBackground THEN "bg" ELSE "end"
    /\ UNCHANGED <<frameVars, queueVars, turn, cycles, registryVars, did, slice, history>>

MaybeResetRuntimeWindow ==
    LET total == cycles["fg"] + cycles["bg"]
    IN  cycles' = IF total >= Window /\ (\/ cycles["bg"] <= cycles["fg"]
                                         \/ total >= 5 * Window)
                  THEN [c \in Class |-> 0] ELSE cycles

(* The end of a round: Flush, and another one if there was work or the     *)
(* ring has operations pending.                                            *)
EndRound ==
    /\ pc = "end"
    /\ MaybeResetRuntimeWindow
    /\ \E pending \in BOOLEAN :
          pc' = IF did \/ pending THEN "top" ELSE "busy"
    /\ UNCHANGED <<frameVars, queueVars, turn, registryVars, did, slice, history>>

(* BusyPoll: a look at all sources again, for a while.  Nothing came, or   *)
(* what came gets a foreground slice.                                      *)
BusyPoll ==
    /\ pc = "busy"
    /\ \E ps \in Woken(Waiting("peer")), ns \in Woken(Waiting("net")),
          ss \in Woken(Waiting("storage")), rs \in Batch(Away) :
          LET fs == Joined(Joined(ps, ns), ss)
          IN  IF fs # Nothing \/ rs # Nothing
              THEN /\ ready' = MergeDeferred(Joined(ready, fs)) /\ Place(fs)
                   /\ Schedule(rs) /\ NoneDeferred /\ fresh' = {}
                   /\ pc' = "busyfg"
              ELSE /\ UNCHANGED <<at, queueVars, fresh>>
                   /\ pc' = IF NeedsPolling THEN "top" ELSE "idle"
    /\ UNCHANGED <<use, class, child, turn, cycles, registryVars, did, slice, passed>>

EndBusy ==
    /\ pc = "endbusy"
    /\ MaybeResetRuntimeWindow
    /\ pc' = "top"
    /\ UNCHANGED <<frameVars, queueVars, turn, registryVars, did, slice, history>>

(* Mutant: what the mailbox held is not looked at again.                   *)
ParkAnyway ==
    /\ pc = "idle"
    /\ \E idleTimeout \in BOOLEAN, fs \in Woken(Waiting("peer")), rs \in Batch(Away) :
          \E closed \in Woken(IF idleTimeout THEN Waiting("net") ELSE {}) :
              /\ Wake(Joined(closed, fs)) /\ Schedule(rs)
              /\ pc' \in {"top", IF idleTimeout THEN "naps" ELSE "sleeps"}
    /\ UNCHANGED <<use, class, child, next, turn, cycles, registryVars, did,
                   slice, history>>

(* With an idle timeout CheckIdleConnections may close connections, which  *)
(* wakes their readers, and the worker sleeps for a bounded time.  The     *)
(* handshake with producers is in CrossCore: work arrived, or it sleeps.   *)
Park ==
    /\ pc = "idle"
    /\ \E idleTimeout \in BOOLEAN, fs \in Woken(Waiting("peer")), rs \in Batch(Away) :
          \E closed \in Woken(IF idleTimeout THEN Waiting("net") ELSE {}) :
              /\ Wake(Joined(closed, fs)) /\ Schedule(rs)
              /\ \/ pc' = "top"
                 \/ /\ fs = Nothing /\ rs = Nothing
                    /\ pc' = IF idleTimeout THEN "naps" ELSE "sleeps"
    /\ UNCHANGED <<use, class, child, next, turn, cycles, registryVars, did,
                   slice, history>>

Wait ==
    /\ pc \in {"naps", "sleeps"}
    /\ \E fs \in Woken(Waiting("net")) : Wake(fs)
    /\ pc' = "top"
    /\ UNCHANGED <<use, class, child, next, remote, turn, cycles, registryVars,
                   did, slice, history>>

-----------------------------------------------------------------------------
Slices == {"prepoll", "fg", "bg", "busyfg"}
SliceClass == IF pc = "bg" THEN "bg" ELSE "fg"
Budget == CASE pc = "prepoll" -> PrePollBudget
            [] pc = "bg" -> BackgroundBudget
            [] OTHER -> ForegroundBudget
Expired == slice.spent >= Budget
Running == pc \in Slices /\ slice.running # None

(* Mutant: the entry that moves is not told.                               *)
ForgetUntold(f) ==
    LET i == index[f]
        n == Len(detached)
    IN  IF i = 0 THEN UNCHANGED <<detached, index>>
        ELSE /\ detached' = SubSeq([detached EXCEPT ![i] = detached[n]], 1, n - 1)
             /\ index' = [index EXCEPT ![f] = 0]

(* ForgetDetached: the last entry takes the place of the one removed.      *)
ForgetDetached(f) ==
    LET i == index[f]
        n == Len(detached)
        moved == detached[n]
    IN  IF i = 0 THEN UNCHANGED <<detached, index>>
        ELSE /\ detached' = SubSeq([detached EXCEPT ![i] = moved], 1, n - 1)
             /\ index' = [index EXCEPT ![moved] = i, ![f] = 0]

Remember(c, kind, otherWaits) ==
    passed' = [passed EXCEPT ![c] =
                  IF ~otherWaits THEN NotPassed
                  ELSE [kind |-> kind, n |-> IF @.kind = kind THEN @.n + 1 ELSE 1]]

(* Mutant: remote work always goes first.                                  *)
RemoteFirst(c) == remote[c] # <<>>

(* A step of DrainReadyUntil or DrainBackgroundUntil: remote work is run...*)
RunRemote(c) == remote[c] # <<>> /\ (ready[c] = <<>> \/ turn[c])

Dispatches(c) ==
    /\ pc \in Slices /\ c = SliceClass
    /\ slice.running = None /\ Runnable(c) /\ ~Expired
    /\ turn' = [turn EXCEPT ![c] = ~@]

RunRemoteWork(c) ==
    /\ Dispatches(c) /\ RunRemote(c)
    /\ remote' = [remote EXCEPT ![c] = Tail(@)]
    /\ \E cost \in 1..MaxCost :
          slice' = [spent |-> slice.spent + cost, running |-> Head(remote[c])]
    /\ Remember(c, "remote", ready[c] # <<>>)
    /\ UNCHANGED <<frameVars, ready, next, cycles, registryVars, pc, did, fresh>>

(* ... or a coroutine resumed, unless it is done and to be destroyed.      *)
ResumeReady(c) ==
    LET f == Head(ready[c])
        done == at[f] = "done"
    IN  /\ Dispatches(c) /\ ~RunRemote(c)
        /\ ready' = [ready EXCEPT ![c] = Tail(@)]
        /\ \E cost \in 1..MaxCost :
              slice' = [spent |-> slice.spent + cost,
                        running |-> IF done THEN None ELSE f]
        /\ at' = [at EXCEPT ![f] = IF done THEN "none" ELSE "running"]
        /\ use' = [use EXCEPT ![f] = IF done THEN "free" ELSE @]
        /\ IF done THEN tasks' = tasks \ {f} /\ ForgetDetached(f)
           ELSE UNCHANGED registryVars
        /\ Remember(c, "ready", remote[c] # <<>>)
        /\ class' = [class EXCEPT ![f] = IF done THEN "fg" ELSE @]
        /\ UNCHANGED <<child, next, remote, cycles, pc, did, fresh>>

(* The slice is over and its time is accounted for.                        *)
EndSlice ==
    /\ pc \in Slices /\ slice.running = None
    /\ ~Runnable(SliceClass) \/ Expired
    /\ cycles' = [cycles EXCEPT ![SliceClass] = @ + slice.spent]
    /\ did' = (did \/ slice.spent > 0)
    /\ pc' = CASE pc = "prepoll" -> "storage" [] pc = "fg" -> "should"
               [] pc = "bg" -> "end" [] OTHER -> "endbusy"
    /\ slice' = NoSlice
    /\ UNCHANGED <<frameVars, queueVars, turn, registryVars, history>>

-----------------------------------------------------------------------------
(* What runs in a slice.  Spawn and SpawnBackground register the class;    *)
(* SpawnRoot leaves the registry as it is.                                 *)
Spawn(f, c) ==
    /\ Running /\ use[f] = "free"
    /\ use' = [use EXCEPT ![f] = "root"] /\ class' = [class EXCEPT ![f] = c]
    /\ at' = [at EXCEPT ![f] = "queued"]
    /\ tasks' \in IF c = "bg" THEN {tasks \cup {f}} ELSE {tasks \ {f}, tasks}
    /\ detached' = Append(detached, f)
    /\ index' = [index EXCEPT ![f] = Len(detached) + 1]
    /\ ready' = Enqueue(ready, tasks', f)
    /\ UNCHANGED <<child, next, remote, turn, cycles, pc, did, slice, history>>

(* Mutant: a child is not registered.                                      *)
WithoutChild(f) == tasks

(* RegisterBackgroundTask of a child, if the current class is background.  *)
WithChild(f) == IF SliceClass = "bg" THEN tasks \cup {f} ELSE tasks

(* co_await of a child Task, which runs at once...                         *)
AwaitTask(f) ==
    LET p == slice.running
    IN  /\ Running /\ p \in Frame /\ use[f] = "free"
        /\ use' = [use EXCEPT ![f] = "child"]
        /\ class' = [class EXCEPT ![f] = class[p]]
        /\ child' = [child EXCEPT ![p] = f]
        /\ at' = [at EXCEPT ![p] = "awaits", ![f] = "running"]
        /\ tasks' = WithChild(f)
        /\ slice' = [slice EXCEPT !.running = f]
        /\ UNCHANGED <<queueVars, turn, cycles, detached, index, pc, did, history>>

(* ... and returns to its parent, which destroys it.                       *)
ReturnTask(p) ==
    LET f == slice.running
    IN  /\ Running /\ f \in Frame /\ child[p] = f
        /\ use' = [use EXCEPT ![f] = "free"]
        /\ child' = [child EXCEPT ![p] = None]
        /\ at' = [at EXCEPT ![p] = "running", ![f] = "none"]
        /\ tasks' = tasks \ {f}
        /\ slice' = [slice EXCEPT !.running = p]
        /\ class' = [class EXCEPT ![f] = "fg"]
        /\ UNCHANGED <<queueVars, turn, cycles, detached, index, pc, did, history>>

(* A lock is released, a notification sent: a local coroutine is ready.    *)
Resume(f) ==
    /\ Running /\ at[f] = "peer"
    /\ ready' = Enqueue(ready, tasks, f) /\ at' = [at EXCEPT ![f] = "queued"]
    /\ UNCHANGED <<use, class, child, next, remote, turn, cycles, registryVars,
                   pc, did, slice, history>>

Suspends == slice' = [slice EXCEPT !.running = None]

(* Mutant: a coroutine that yields is ready at once.                       *)
EnqueueNow(f) == ready' = Enqueue(ready, tasks, f) /\ UNCHANGED next

EnqueueNext(f) == next' = Enqueue(next, tasks, f) /\ UNCHANGED ready

(* Yield.  Background coroutines go on while their slice lasts.            *)
Yield ==
    LET f == slice.running
    IN  /\ Running /\ f \in Frame /\ (SliceClass = "bg" => Expired)
        /\ Suspends /\ EnqueueNext(f)
        /\ at' = [at EXCEPT ![f] = "queued"]
        /\ fresh' = fresh \cup {f}
        /\ UNCHANGED <<use, class, child, remote, turn, cycles, registryVars, pc,
                       did, passed>>

(* An operation, a call of another worker or a lock is awaited.            *)
Await(where) ==
    /\ Running /\ slice.running \in Frame
    /\ Suspends
    /\ at' = [at EXCEPT ![slice.running] = where]
    /\ UNCHANGED <<use, class, child, queueVars, turn, cycles, registryVars, pc,
                   did, history>>

(* A root is done: its completion enqueues it to be destroyed.             *)
Finish ==
    LET f == slice.running
    IN  /\ Running /\ f \in Frame /\ use[f] = "root"
        /\ Suspends
        /\ at' = [at EXCEPT ![f] = "done"]
        /\ ready' = Enqueue(ready, tasks, f)
        /\ UNCHANGED <<use, class, child, next, remote, turn, cycles, registryVars,
                       pc, did, history>>

(* Remote work ends with its reply.                                        *)
Reply ==
    /\ Running /\ slice.running \in Call
    /\ Suspends
    /\ UNCHANGED <<frameVars, queueVars, turn, cycles, registryVars, pc, did, history>>

Where == {"net", "storage", "peer"}
Ends == Yield \/ (\E where \in Where : Await(where)) \/ Finish \/ Reply
Runs == \E f \in Frame : \/ \E c \in Class : Spawn(f, c)
                         \/ AwaitTask(f) \/ ReturnTask(f) \/ Resume(f)
Loop == \/ DrainCrossCore \/ Poll \/ PrePoll \/ PollStorage \/ Background
        \/ EndRound \/ BusyPoll \/ EndBusy \/ Park \/ Wait \/ EndSlice
        \/ \E c \in Class : RunRemoteWork(c) \/ ResumeReady(c)

Next == Loop \/ Ends \/ Runs

Spec == Init /\ [][Next]_vars

(* The thread runs, unless it sleeps: nothing need ever end that.          *)
(* Coroutines suspend in the end: scheduling is cooperative.               *)
Works == pc # "sleeps" /\ Loop
FairSpec == Spec /\ WF_vars(Works) /\ WF_vars(Ends)

-----------------------------------------------------------------------------
(* The worker sleeps without a limit only if none of its six queues holds  *)
(* anything.  Closing idle connections before it sleeps may fill one, but  *)
(* then it only naps.                                                      *)
SleepsWithoutWork == pc = "sleeps" => ~HasWork

(* A coroutine that yields is not resumed before the worker polled.        *)
YieldReachesPoll == slice.running \notin fresh

(* Membership follows nested frames and ends with them: whatever address a *)
(* frame has, its coroutine is queued and runs in the class it was created *)
(* in.                                                                     *)
ClassIsKept ==
    /\ tasks = {f \in Frame : use[f] # "free" /\ class[f] = "bg"}
    /\ \A c \in Class : \A f \in Range(ready[c] \o next[c]) :
          use[f] # "free" /\ class[f] = c
    /\ slice.running \in Frame => class[slice.running] = SliceClass

(* DestroyDetachedTasks would leave no frame: the registry has every root, *)
(* once, at the place the root knows, and every child has a parent.        *)
EveryFrameIsOwned ==
    /\ Range(detached) = {f \in Frame : use[f] = "root"}
    /\ \A i \in 1..Len(detached) : index[detached[i]] = i
    /\ \A f \in Frame : use[f] = "child" =>
          \E p \in Frame : use[p] # "free" /\ child[p] = f

(* Local and remote work take turns: neither is dispatched twice while the *)
(* other waits.                                                            *)
TakesTurns == \A c \in Class : passed[c].n <= 1

(* Whatever is ready runs, in the background too.                          *)
ReadyRuns == \A f \in Frame : at[f] = "queued" ~> at[f] # "queued"

(* A coroutine gives way when it yields, and local and remote work give    *)
(* way to each other.                                                      *)
GivesWay == YieldReachesPoll /\ TakesTurns

(* The registries of detached frames and of background coroutines hold the *)
(* frames they should, however frames end and addresses are reused.        *)
FramesAreKnown == ClassIsKept /\ EveryFrameIsOwned
=============================================================================
