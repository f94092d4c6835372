------------------------------ MODULE BsdZone -------------------------------
(***************************************************************************)
(* A limited UMA zone of the FreeBSD port whose items are looked up under  *)
(* safe memory reclamation (SMR), as protocol control blocks are: an item  *)
(* that is freed is retired, and released only once every reader that may  *)
(* hold it has left.  SMR itself is FreeBSD's.  retire_lock makes a walk   *)
(* of the retired list one step.                                           *)
(***************************************************************************)
EXTENDS Naturals, FiniteSets

CONSTANTS Worker, Item, maximum

VARIABLES
  state,      \* [Item -> "none" | "linked" | "unlinked" | "advanced" | "retired"]
  before,     \* [Item -> SUBSET Worker]: readers smr_advance found inside
  current,    \* z->current
  reader,     \* [Worker -> SUBSET Item]: what a read section may still use
  inside,     \* workers in a read section
  pc          \* [Worker -> "idle" | "reaped" | "counted"]: in uma_zalloc_smr

zoneVars == <<state, before, current, reader, inside, pc>>

Init == /\ state = [i \in Item |-> "none"] /\ before = [i \in Item |-> {}]
        /\ current = 0
        /\ reader = [w \in Worker |-> {}] /\ inside = {}
        /\ pc = [w \in Worker |-> "idle"]

Goto(w, from, to) == pc[w] = from /\ pc' = [pc EXCEPT ![w] = to]
Change(i, from, to) == state[i] = from /\ state' = [state EXCEPT ![i] = to]

(* smr_enter, a lookup, smr_exit; external.  Leaving, a reader is no       *)
(* longer one of those a sequence number waits for.                        *)
Enter(w) == /\ w \notin inside /\ pc[w] = "idle" /\ inside' = inside \cup {w}
            /\ UNCHANGED <<state, before, current, reader, pc>>
Lookup(w, i) == /\ w \in inside /\ state[i] = "linked"
                /\ reader' = [reader EXCEPT ![w] = @ \cup {i}]
                /\ UNCHANGED <<state, before, current, inside, pc>>
Exit(w) == /\ w \in inside /\ inside' = inside \ {w}
           /\ reader' = [reader EXCEPT ![w] = {}]
           /\ before' = [i \in Item |-> before[i] \ {w}]
           /\ UNCHANGED <<state, current, pc>>
smr_poll(i) == before[i] = {}

(* Mutant: every retired item is released.                               *)
ReapAll == {i \in Item : state[i] = "retired"}

(* uma_zalloc_smr: zone_reap releases the retired items no reader holds, *)
Reapable == {i \in Item : state[i] = "retired" /\ smr_poll(i)}
Reap(w) == /\ w \notin inside /\ Goto(w, "idle", "reaped")
           /\ state' = [i \in Item |-> IF i \in Reapable THEN "none" ELSE state[i]]
           /\ current' = current - Cardinality(Reapable)
           /\ UNCHANGED <<before, reader, inside>>
(* uma_zalloc_arg counts, and gives the count back at the limit or when    *)
(* the allocation or a constructor fails.                                  *)
Count(w) == /\ Goto(w, "reaped", "counted") /\ current' = current + 1
            /\ UNCHANGED <<state, before, reader, inside>>
Allocate(w) ==
    /\ Goto(w, "counted", "idle")
    /\ \/ /\ current <= maximum
          /\ \E i \in Item : Change(i, "none", "linked")
          /\ UNCHANGED current
       \/ current' = current - 1 /\ UNCHANGED state
    /\ UNCHANGED <<before, reader, inside>>

(* The owner takes the item off the lists a lookup walks; uma_zfree_smr    *)
(* takes a sequence number for it, then retires it.                        *)
Unlink(i) == /\ Change(i, "linked", "unlinked")
             /\ UNCHANGED <<before, current, reader, inside, pc>>
Advance(i) == /\ Change(i, "unlinked", "advanced")
              /\ before' = [before EXCEPT ![i] = inside]
              /\ UNCHANGED <<current, reader, inside, pc>>
Retire(i) == /\ Change(i, "advanced", "retired")
             /\ UNCHANGED <<before, current, reader, inside, pc>>

Next == \/ \E w \in Worker : Enter(w) \/ Exit(w) \/ Reap(w) \/ Count(w) \/ Allocate(w)
        \/ \E w \in Worker, i \in Item : Lookup(w, i)
        \/ \E i \in Item : Unlink(i) \/ Advance(i) \/ Retire(i)

(* No reader holds an item that was released, and the zone never holds     *)
(* more items, retired ones included, than its limit: the counter counts   *)
(* them and the allocations under way.                                     *)
ReadersKeepItems ==
    /\ \A w \in Worker : \A i \in reader[w] : state[i] # "none"
    /\ LET items == Cardinality({i \in Item : state[i] # "none"}) IN
       /\ items <= maximum
       /\ current = items + Cardinality({w \in Worker : pc[w] = "counted"})
=============================================================================
