-------------------------------- MODULE Pool --------------------------------
(***************************************************************************)
(* The kernel heap: the block pool of kernel/sys/pool.cpp behind           *)
(* kmem_alloc and kmem_dealloc (kernel/sys/kmem.cpp), on which operator    *)
(* new and delete rest.  The pool keeps two bits per block and nothing     *)
(* else: no allocation is recorded, so what a dealloc frees is what the    *)
(* map says.  The ghost variable live holds what the callers were given.   *)
(*                                                                         *)
(* Every operation runs under the pool's spinlock and is one step.         *)
(***************************************************************************)
EXTENDS Naturals

CONSTANTS BlockCount,   \* pool->block_count
          BlockSize,    \* pool->block_size
          HeapRequests  \* the sizes in bytes that callers ask for

ASSUME PoolAssumption ==
    /\ BlockCount \in Nat \ {0}     \* else kmem_init panics
    /\ BlockSize \in Nat \ {0}
    /\ HeapRequests \subseteq Nat

VARIABLES map,     \* the block map, two bits per block
          live,    \* ghost: the allocations the callers hold
          panic    \* the panic the kernel hangs in, "none" while it runs

pool_vars == <<map, live, panic>>

Blocks == 0 .. BlockCount - 1
Status == {"UNUSED", "TAIL", "HEAD"}
Allocation == [start : Blocks, blocks : Nat \ {0}, bytes : HeapRequests]

\* The blocks of an allocation.
Extent(a) == a.start .. a.start + a.blocks - 1

\* pool_construct clears the map.
pool_init ==
    /\ map = [i \in Blocks |-> "UNUSED"]
    /\ live = {}
    /\ panic = "none"

\* Mutant of align_ceiling: an off-by-one that drops the last partial block.
align_floor(n, align) == IF n = 0 THEN align ELSE align * ((n + align - 2) \div align)

\* Mutant of align_ceiling: without the case n = 0 a request for nothing
\* takes no block.
align_without_zero(n, align) == IF n = 0 THEN 0 ELSE align + align * ((n - 1) \div align)

align_ceiling(n, align) == IF n = 0 THEN align ELSE align + align * ((n - 1) \div align)

blocks_needed(n) == align_ceiling(n, BlockSize) \div BlockSize

-----------------------------------------------------------------------------
\* The starts of the free runs that hold k blocks.
FitsAt(k) == {s \in Blocks : /\ s + k <= BlockCount
                           /\ \A i \in s .. s + k - 1 : map[i] = "UNUSED"}

\* The run that the search of pool_alloc ends at: the first that is long
\* enough.  PoolScan has the loop itself.
FirstFit(k) == {s \in FitsAt(k) : \A t \in FitsAt(k) : s <= t}

\* The map once the run is taken.
Mark(s, k) ==
    [i \in Blocks |-> IF i = s THEN "HEAD"
                      ELSE IF i \in s + 1 .. s + k - 1 THEN "TAIL" ELSE map[i]]

pool_alloc(n) ==
    LET k == blocks_needed(n)
    IN  \E s \in FirstFit(k) :
            /\ map' = Mark(s, k)
            /\ live' = live \cup {[start |-> s, blocks |-> k, bytes |-> n]}
            /\ panic' = panic

\* The search panics when the run it measures meets the end of the pool;
\* with no free run left there it ends, and kmem_alloc panics on nullptr.
alloc_panic(n) ==
    /\ FitsAt(blocks_needed(n)) = {}
    /\ panic' = IF map[BlockCount - 1] = "UNUSED" THEN "no space"
                                                  ELSE "failed to allocate"
    /\ UNCHANGED <<map, live>>

kmem_alloc(n) ==
    /\ panic = "none"
    /\ pool_alloc(n) \/ alloc_panic(n)

\* The blocks that the loop of pool_dealloc frees: the head and the tails
\* that follow it without a break.
FreedWith(index) ==
    {index} \cup {j \in Blocks : j > index /\ \A i \in index + 1 .. j : map[i] = "TAIL"}

\* Mutant of pool_dealloc: the test for a head block only rejects free ones.
dealloc_any_used(index, offset) ==
    /\ offset = 0
    /\ map[index] # "UNUSED"
    /\ map' = [i \in Blocks |-> IF i \in FreedWith(index) THEN "UNUSED" ELSE map[i]]
    /\ live' = {a \in live : a.start # index}
    /\ panic' = panic

\* ptr = body + index * block_size + offset names the head of an allocation.
pool_dealloc(index, offset) ==
    /\ offset = 0
    /\ map[index] = "HEAD"
    /\ map' = [i \in Blocks |-> IF i \in FreedWith(index) THEN "UNUSED" ELSE map[i]]
    /\ live' = {a \in live : a.start # index}
    /\ panic' = panic

dealloc_panic(index, offset) ==
    /\ offset # 0 \/ map[index] # "HEAD"
    /\ panic' = IF offset # 0 THEN "unaligned" ELSE "unallocated"
    /\ UNCHANGED <<map, live>>

kmem_dealloc(index, offset) ==
    /\ panic = "none"
    /\ pool_dealloc(index, offset) \/ dealloc_panic(index, offset)

pool_next ==
    \/ \E n \in HeapRequests : kmem_alloc(n)
    \/ \E index \in Blocks, offset \in 0 .. BlockSize - 1 : kmem_dealloc(index, offset)

pool_spec == pool_init /\ [][pool_next]_pool_vars

-----------------------------------------------------------------------------
\* The state of the pool; no block is ever in the ERROR state.
PoolTypeOK ==
    /\ map \in [Blocks -> Status]
    /\ live \subseteq Allocation
    /\ panic \in {"none", "no space", "failed to allocate", "unaligned", "unallocated"}

\* An allocation lies inside the pool and is marked by one head and tails.
LiveMarked ==
    \A a \in live :
        /\ a.start + a.blocks <= BlockCount
        /\ map[a.start] = "HEAD"
        /\ \A i \in a.start + 1 .. a.start + a.blocks - 1 : map[i] = "TAIL"

\* A used block belongs to an allocation, and a head block starts one.
UsedIsLive ==
    \A i \in Blocks :
        /\ map[i] # "UNUSED" => \E a \in live : i \in Extent(a)
        /\ map[i] = "HEAD" => \E a \in live : a.start = i

\* No two callers hold the same block.
LiveDisjoint ==
    \A a, b \in live : a # b => Extent(a) \cap Extent(b) = {}

\* The two bits per block that pool_alloc and pool_dealloc keep always
\* describe exactly the allocations in the callers' hands: no block is
\* handed out twice, none leaks, and a free that is not of a live allocation
\* is caught by the panic and changes nothing.
MapMatchesLive == LiveMarked /\ UsedIsLive /\ LiveDisjoint

\* pool_alloc never hands out less memory than it was asked for.
LiveLargeEnough == \A a \in live : a.blocks * BlockSize >= a.bytes
=============================================================================
