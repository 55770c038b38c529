----------------------------- MODULE HashTable -----------------------------
(***************************************************************************)
(* hashtable_t of include/tupai/util/hashtable.hpp: open addressing with   *)
(* linear probing in a fixed array.  A table is a record of the arrays of  *)
(* the C++ object; the operators are its member functions.                 *)
(***************************************************************************)
EXTENDS Integers, FiniteSets, FiniteSetsExt, Sequences

CONSTANT HASHTABLE_CAPACITY

ASSUME CapacityAssumption == HASHTABLE_CAPACITY \in Nat \ {0}

Slots == 0 .. HASHTABLE_CAPACITY - 1

NoSlot == -1    \* the loops over the probe sequence end without a hit

\* A static table: zeroed memory.
EmptyTable(item) == [used |-> [s \in Slots |-> FALSE], keys |-> [s \in Slots |-> 0],
                     data |-> [s \in Slots |-> item], item_count |-> 0]

hash(x) == x

\* The slot that the loops of add, remove and get visit in round i.
Probe(key, i) == ((hash(key) % HASHTABLE_CAPACITY) + i) % HASHTABLE_CAPACITY

\* The first slot of the probe sequence of key that is in S.
FirstSlot(key, S) ==
    LET hits == {i \in Slots : Probe(key, i) \in S}
    IN  IF hits = {} THEN NoSlot ELSE Probe(key, Min(hits))

Unused(t) == {s \in Slots : ~t.used[s]}

\* Mutant of Holding: the flag of a removed entry is not looked at.
HoldingStale(t, key) == {s \in Slots : t.keys[s] = key}

Holding(t, key) == {s \in Slots : t.keys[s] = key /\ t.used[s]}

add(t, key, item) ==
    LET s == FirstSlot(key, Unused(t))
    IN  IF s = NoSlot THEN t
        ELSE [t EXCEPT !.used[s] = TRUE, !.keys[s] = key, !.data[s] = item,
                       !.item_count = @ + 1]

remove(t, key) ==
    LET s == FirstSlot(key, Holding(t, key))
    IN  IF s = NoSlot THEN t ELSE [t EXCEPT !.used[s] = FALSE, !.item_count = @ - 1]

\* Mutant of Find: probing stops at an unused slot, which a remove leaves.
FindStops(t, key) ==
    LET s == FirstSlot(key, Unused(t) \cup Holding(t, key))
    IN  IF s = NoSlot THEN s ELSE IF t.used[s] THEN s ELSE NoSlot

\* Where get(key) finds its entry; NoSlot stands for nullptr.
Find(t, key) == FirstSlot(key, Holding(t, key))

has(t, key) == Find(t, key) # NoSlot
get(t, key) == t.data[Find(t, key)]

\* A write through the pointer that get(key) returned.
put(t, key, item) == [t EXCEPT !.data[Find(t, key)] = item]

size(t) == t.item_count

\* The map that a table stands for.
Entries(t, keys) == [k \in {j \in keys : has(t, j)} |-> get(t, k)]
=============================================================================
