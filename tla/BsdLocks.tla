------------------------------ MODULE BsdLocks ------------------------------
(***************************************************************************)
(* One recursable lock of the FreeBSD port, shared by the workers: the     *)
(* reader/writer word of rwlock and sx, of which a mutex, and the mutex of *)
(* a read-mostly lock, is the writer half.  The kernel's inline fast paths *)
(* release a word that carries no flag, so the recursion flag decides      *)
(* whether lo_data is looked at.  One step is one atomic access; a failed  *)
(* try changes nothing and a lock operation spins until it succeeds.       *)
(***************************************************************************)
EXTENDS Naturals

CONSTANTS Worker, MaxDepth, Nobody

VARIABLES word,    \* [owner, recursed, readers]: rw_lock, sx_lock, mtx_lock
          lo_data, \* depth of the recursion beyond the first acquisition
          held     \* [Worker -> [w, r]]: what each worker has yet to release

lockVars == <<word, lo_data, held>>

Unlocked == [owner |-> Nobody, recursed |-> FALSE, readers |-> 0]
Owned(w) == [Unlocked EXCEPT !.owner = w]
Readers(n) == [Unlocked EXCEPT !.readers = n]
IsRead == word.owner = Nobody        \* RW_LOCK_READ, also with no reader

Init == word = Unlocked /\ lo_data = 0 /\ held = [w \in Worker |-> [w |-> 0, r |-> 0]]

Hold(w, dw, dr) == held' = [held EXCEPT ![w] = [w |-> dw, r |-> dr]]

(* Mutant: another level is not marked as one.                           *)
TryWriterUnflagged(w) ==
    IF word = Unlocked THEN word' = Owned(w) /\ UNCHANGED lo_data
    ELSE word.owner = w /\ lo_data' = lo_data + 1 /\ UNCHANGED word

(* try_writer, _mtx_trylock_flags_: the word, or one more level of ours. *)
TryWriter(w) ==
    IF word = Unlocked THEN word' = Owned(w) /\ UNCHANGED lo_data
    ELSE /\ word.owner = w
         /\ lo_data' = lo_data + 1
         /\ word' = [word EXCEPT !.recursed = TRUE]
WriteLock(w) == /\ held[w].w < MaxDepth /\ held[w].r = 0
                /\ TryWriter(w) /\ Hold(w, held[w].w + 1, 0)

(* The inline release of an unflagged word. *)
ReleaseFast(w) == word = Owned(w) /\ word' = Unlocked /\ UNCHANGED lo_data
(* release_writer, __mtx_unlock_sleep *)
ReleaseWriter(w) ==
    /\ word # Owned(w) /\ word.owner = w
    /\ IF lo_data > 0
       THEN /\ lo_data' = lo_data - 1
            /\ word' = [word EXCEPT !.recursed = lo_data # 1]
       ELSE word' = Unlocked /\ UNCHANGED lo_data
WriteUnlock(w) == /\ held[w].w > 0
                  /\ ReleaseFast(w) \/ ReleaseWriter(w)
                  /\ Hold(w, held[w].w - 1, 0)

(* try_reader, release_reader *)
ReadLock(w) == /\ held[w].w = 0 /\ held[w].r < MaxDepth
               /\ IsRead /\ word' = Readers(word.readers + 1)
               /\ Hold(w, 0, held[w].r + 1) /\ UNCHANGED lo_data
ReadUnlock(w) == /\ held[w].r > 0
                 /\ IsRead /\ word' = Readers(word.readers - 1)
                 /\ Hold(w, 0, held[w].r - 1) /\ UNCHANGED lo_data

(* __rw_try_upgrade_int by the only reader; __rw_downgrade_int *)
Upgrade(w) == /\ held[w].r = 1 /\ word = Readers(1) /\ word' = Owned(w)
              /\ Hold(w, 1, 0) /\ UNCHANGED lo_data
Downgrade(w) == /\ held[w].w = 1 /\ word.owner = w /\ word' = Readers(1)
                /\ Hold(w, 0, 1) /\ UNCHANGED lo_data

Next == \E w \in Worker : \/ WriteLock(w) \/ WriteUnlock(w) \/ ReadLock(w)
                          \/ ReadUnlock(w) \/ Upgrade(w) \/ Downgrade(w)

(* A writer is alone until its last release, however often it locked       *)
(* again, upgraded or downgraded; and a lock all have released is free.    *)
LockExcludes ==
    /\ \A v, w \in Worker : v # w /\ held[v].w > 0 => held[w] = [w |-> 0, r |-> 0]
    /\ (\A w \in Worker : held[w] = [w |-> 0, r |-> 0]) => word = Unlocked /\ lo_data = 0
=============================================================================
