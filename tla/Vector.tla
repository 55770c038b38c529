------------------------------- MODULE Vector -------------------------------
(***************************************************************************)
(* vector_t of include/tupai/util/vector.hpp, the growing array behind the *)
(* log and the children of an inode, for elements without a destructor.    *)
(* Vectors are objects with a pointer into a heap of arrays; an array that *)
(* is deleted may be handed out again.                                     *)
(***************************************************************************)
EXTENDS Integers, FiniteSetsExt, Sequences

CONSTANTS Vectors, Items,
          MaxArrays,    \* bound: arrays that exist at a time
          MaxItems      \* bound: the length of a vector

ASSUME VectorAssumption == MaxArrays \in Nat /\ "freed" \notin Items

VARIABLES heap,     \* array -> its cells, or Freed
          vec,      \* the fields of each vector; arr = nullptr if it is empty
          alive,    \* the vectors constructed and not destroyed
          seq       \* history: the sequence each vector should hold, Junk for lost items

vector_vars == <<heap, vec, alive, seq>>

Arrays == 1 .. MaxArrays
nullptr == 0
Junk == "junk"          \* memory that was not written
Freed == <<"freed">>    \* an array that is not allocated
free == {a \in Arrays : heap[a] = Freed}
Fresh == [arr |-> nullptr, ccapacity |-> 0, csize |-> 0]

vector_init ==
    /\ heap = [a \in Arrays |-> Freed]
    /\ vec = [v \in Vectors |-> Fresh]
    /\ alive = {}
    /\ seq = [v \in Vectors |-> <<>>]

\* The first n cells of an array of that capacity are those of array a.
Cells(a, n, capacity) == [i \in 1 .. capacity |-> IF i <= n THEN heap[a][i] ELSE Junk]

\* new, with these cells, and then delete of old; nullptr is not deleted.
Replace(cells, old) ==
    /\ free # {}
    /\ heap' = [a \in Arrays |-> IF a = Min(free) THEN cells
                                 ELSE IF a = old THEN Freed ELSE heap[a]]

Delete(old) == heap' = [a \in Arrays |-> IF a = old THEN Freed ELSE heap[a]]

\* __copy: the fields of v are overwritten, its old array is not deleted.  A
\* vector that is copied to itself reads its items from the new array.
__copy(v, other) ==
    LET o == vec[other]
        there == IF v = other THEN 0 ELSE o.csize
    IN  IF o.csize > 0
        THEN /\ Replace(Cells(o.arr, there, o.ccapacity), nullptr)
             /\ vec' = [vec EXCEPT ![v] = [o EXCEPT !.arr = Min(free)]]
        ELSE /\ vec' = [vec EXCEPT ![v] = Fresh]
             /\ UNCHANGED heap

CopySeq(v, other) ==
    seq' = [seq EXCEPT ![v] = IF v = other THEN [i \in 1 .. Len(@) |-> Junk] ELSE seq[other]]

Take(v, other) == vec' = [vec EXCEPT ![v] = vec[other], ![other] = Fresh]
TakeSeq(v, other) == seq' = [seq EXCEPT ![v] = seq[other], ![other] = <<>>]

construct(v) ==
    /\ v \notin alive /\ alive' = alive \cup {v}
    /\ vec' = [vec EXCEPT ![v] = Fresh]
    /\ UNCHANGED <<heap, seq>>

copy_construct(v, other) ==
    /\ v \notin alive /\ other \in alive /\ alive' = alive \cup {v}
    /\ __copy(v, other) /\ CopySeq(v, other)

move_construct(v, other) ==
    /\ v \notin alive /\ other \in alive /\ alive' = alive \cup {v}
    /\ Take(v, other) /\ TakeSeq(v, other)
    /\ UNCHANGED heap

destroy(v) ==
    /\ v \in alive /\ alive' = alive \ {v}
    /\ Delete(vec[v].arr)
    /\ vec' = [vec EXCEPT ![v] = Fresh]
    /\ seq' = [seq EXCEPT ![v] = <<>>]

\* The two assignments, from another vector or from the vector itself.
copy_assign(v, other) ==
    /\ {v, other} \subseteq alive
    /\ __copy(v, other) /\ CopySeq(v, other)
    /\ UNCHANGED alive

\* Mutant of move_assign: other keeps its pointer.
move_assign_shares(v, other) ==
    /\ {v, other} \subseteq alive
    /\ Delete(vec[v].arr)
    /\ vec' = [vec EXCEPT ![v] = vec[other]]
    /\ seq' = [seq EXCEPT ![v] = seq[other]]
    /\ UNCHANGED alive

move_assign(v, other) ==
    /\ {v, other} \subseteq alive
    /\ Delete(vec[v].arr)
    /\ Take(v, other) /\ TakeSeq(v, other)
    /\ UNCHANGED alive

\* push, with the resize to twice the capacity when there is no room.
vector_push(v, item) ==
    LET o == vec[v]
        capacity == Max({o.ccapacity * 2, 1})
    IN  /\ v \in alive /\ o.csize < MaxItems
        /\ seq' = [seq EXCEPT ![v] = Append(@, item)]
        /\ IF o.csize >= o.ccapacity
           THEN /\ Replace([Cells(o.arr, o.csize, capacity) EXCEPT ![o.csize + 1] = item], o.arr)
                /\ vec' = [vec EXCEPT ![v] = [arr |-> Min(free), ccapacity |-> capacity,
                                              csize |-> o.csize + 1]]
           ELSE /\ heap' = [heap EXCEPT ![o.arr][o.csize + 1] = item]
                /\ vec' = [vec EXCEPT ![v].csize = @ + 1]
        /\ UNCHANGED alive

\* pop, with the resize to half the capacity.  A pop of an empty vector is a
\* panic and ends the kernel.
vector_pop(v) ==
    LET o == vec[v]
        half == o.ccapacity \div 2
    IN  /\ v \in alive /\ o.csize > 0
        /\ seq' = [seq EXCEPT ![v] = SubSeq(@, 1, Len(@) - 1)]
        /\ IF o.csize - 1 <= half
           THEN /\ Replace(Cells(o.arr, o.csize - 1, half), o.arr)
                /\ vec' = [vec EXCEPT ![v] = [arr |-> Min(free), ccapacity |-> half,
                                              csize |-> o.csize - 1]]
           ELSE /\ vec' = [vec EXCEPT ![v].csize = @ - 1]
                /\ UNCHANGED heap
        /\ UNCHANGED alive

vector_next ==
    \E v \in Vectors :
        \/ construct(v) \/ destroy(v)
        \/ \E other \in Vectors :
              \/ copy_construct(v, other) \/ move_construct(v, other)
              \/ copy_assign(v, other) \/ move_assign(v, other)
        \/ vector_pop(v)
        \/ \E item \in Items : vector_push(v, item)

vector_spec == vector_init /\ [][vector_next]_vector_vars

\* Through any sequence of copies, moves, pushes and pops every vector has the
\* items that were given to it, in an array of its capacity that is allocated
\* and that no other vector points to.  A move empties the other vector, and
\* itself if it is the same.  A copy of a vector to itself, against which
\* the code has no test, loses its items: it leaves as many of Junk.
VectorIsSeq ==
    \A v \in alive :
        /\ vec[v].csize = Len(seq[v]) /\ vec[v].csize <= vec[v].ccapacity
        /\ vec[v].arr # nullptr =>
              /\ vec[v].arr \notin free
              /\ Len(heap[vec[v].arr]) = vec[v].ccapacity
              /\ SubSeq(heap[vec[v].arr], 1, vec[v].csize) = seq[v]
              /\ \A w \in alive \ {v} : vec[w].arr # vec[v].arr
=============================================================================
