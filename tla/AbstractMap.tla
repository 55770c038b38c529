---------------------------- MODULE AbstractMap ----------------------------
(***************************************************************************)
(* What hashtable_t (include/tupai/util/hashtable.hpp) promises: a map of  *)
(* at most Capacity entries.  An add on a full map changes nothing, and    *)
(* says so only through its result.                                        *)
(***************************************************************************)
EXTENDS Naturals, FiniteSets

CONSTANTS Key, Capacity

VARIABLE map

Init == DOMAIN map = {}

\* Every key of S has the same entry before and after the step.
Keeps(S) == \A k \in S : map'[k] = map[k]

Add(k) ==
    /\ k \notin DOMAIN map
    /\ Cardinality(DOMAIN map) < Capacity
    /\ DOMAIN map' = DOMAIN map \cup {k}
    /\ Keeps(DOMAIN map)

\* A caller writes through the pointer that get() returned.
Update(k) ==
    /\ k \in DOMAIN map
    /\ DOMAIN map' = DOMAIN map
    /\ Keeps(DOMAIN map \ {k})

Delete(k) ==
    /\ k \in DOMAIN map
    /\ DOMAIN map' = DOMAIN map \ {k}
    /\ Keeps(DOMAIN map \ {k})

Next == \E k \in Key : Add(k) \/ Update(k) \/ Delete(k)

Spec == Init /\ [][Next]_map
=============================================================================
