------------------------------ MODULE MCUnits ------------------------------
(***************************************************************************)
(* The components that need no other, ring and heap among them: the first  *)
(* step, or the initial state, chooses one, which then runs alone.         *)
(***************************************************************************)
EXTENDS Queue, PoolScan, RingRace, PathScan, Vector, Format, Clock, BootMem, Intr

VARIABLE unit           \* the component that runs

\* Times around the end of a year, noon and a minute, and the last year
\* that the clock can tell.
Chains ==
    {<< <<58, 59, 23, 31, 12, 2017>>, <<59, 59, 23, 31, 12, 2017>>,
        <<0, 0, 0, 1, 1, 2018>>, <<1, 0, 0, 1, 1, 2018>> >>,
     << <<59, 59, 11, 9, 10, 2019>>, <<0, 0, 12, 9, 10, 2019>>, <<1, 0, 12, 9, 10, 2019>> >>,
     << <<59, 9, 20, 28, 2, 2116>>, <<0, 10, 20, 28, 2, 2116>> >>}

\* Modules just behind the kernel, over one another's destination, far away,
\* and more tags than are read.
Module(s, n) == [type |-> 3, start |-> s, size |-> n]
Other == [type |-> 4, start |-> 0, size |-> 0]
Loaded ==
    {<<>>,
     <<Other, Module(8, 5)>>,
     <<Module(6, 3), Other, Module(12, 4)>>,
     <<Module(8, 3), Module(12, 6)>>,
     <<Module(40, 2), Module(8, 4), Module(12, 1)>>,
     <<Module(8, 2), Other, Other, Module(16, 2)>>}

\* No module tells one vector from another, or one item.
Alike == Permutations(Vectors) \cup Permutations(Items) \cup Permutations(Item)

vars == <<unit, queue_vars, pool_vars, path, asked, ring_vars, vector_vars, clock_vars, bootmem_vars, intr_vars>>

Init ==
    /\ unit \in {"none", "queue"}
    /\ queue_init /\ (unit # "queue" => \E item \in Item : items = [s \in Slots |-> item])
    /\ pool_init /\ path_init /\ format_init
    /\ ring_init /\ vector_init /\ clock_init /\ bootmem_init /\ intr_init

Only(u) == unit \in {"none", u} /\ unit' = u

Next ==
    \/ /\ unit = "queue" /\ unit' = unit /\ queue_next
       /\ UNCHANGED <<pool_vars, path, asked, ring_vars, vector_vars, clock_vars,
                      bootmem_vars, intr_vars>>
    \/ /\ Only("pool") /\ pool_next
       /\ UNCHANGED <<queue_vars, path, asked, ring_vars, vector_vars, clock_vars,
                      bootmem_vars, intr_vars>>
    \/ /\ unit = "none" /\ unit' = "path" /\ path_next
       /\ UNCHANGED <<queue_vars, pool_vars, asked, ring_vars, vector_vars, clock_vars,
                      bootmem_vars, intr_vars>>
    \/ /\ Only("format") /\ format_next
       /\ UNCHANGED <<queue_vars, pool_vars, path, ring_vars, vector_vars, clock_vars,
                      bootmem_vars, intr_vars>>
    \/ /\ Only("ring") /\ ring_next
       /\ UNCHANGED <<queue_vars, pool_vars, path, asked, vector_vars, clock_vars,
                      bootmem_vars, intr_vars>>
    \/ /\ Only("vector") /\ vector_next
       /\ UNCHANGED <<queue_vars, pool_vars, path, asked, ring_vars, clock_vars,
                      bootmem_vars, intr_vars>>
    \/ /\ Only("clock") /\ clock_next
       /\ UNCHANGED <<queue_vars, pool_vars, path, asked, ring_vars, vector_vars,
                      bootmem_vars, intr_vars>>
    \/ /\ Only("bootmem") /\ bootmem_next
       /\ UNCHANGED <<queue_vars, pool_vars, path, asked, ring_vars, vector_vars,
                      clock_vars, intr_vars>>
    \/ /\ Only("intr") /\ intr_next
       /\ UNCHANGED <<queue_vars, pool_vars, path, asked, ring_vars, vector_vars,
                      clock_vars, bootmem_vars>>

Spec == Init /\ [][Next]_vars
=============================================================================
