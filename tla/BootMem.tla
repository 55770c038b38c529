------------------------------ MODULE BootMem ------------------------------
(***************************************************************************)
(* Memory at boot: the modules of the boot loader are moved behind the     *)
(* kernel (kernel/x86/multiboot.cpp) into memory that arch_kernel_alloc    *)
(* (kernel/arch.cpp) hands out, and the kernel heap is laid out in the     *)
(* last such allocation (kmem_init, pool_construct).  Addresses count the  *)
(* cells of a small memory and arch_get_offset() is 0.                     *)
(***************************************************************************)
EXTENDS Integers, FiniteSets, FiniteSetsExt, Sequences, SequencesExt

CONSTANTS kernel_end,       \* where the linker says the kernel ends
          ARCH_PAGE_SIZE, KMEM_SIZE, KMEM_BLOCK_SIZE,
          POOL_ALIGN,       \* 16
          MAX_TAGS,
          Tags,             \* what a loader may pass: sequences of tags
          MemSize           \* bound: cells of memory

ASSUME BootAssumption ==
    /\ kernel_end \in Nat \ {0}
    /\ {ARCH_PAGE_SIZE, KMEM_SIZE, KMEM_BLOCK_SIZE, POOL_ALIGN} \subseteq Nat \ {0}
    /\ POOL_ALIGN <= ARCH_PAGE_SIZE
    /\ KMEM_BLOCK_SIZE < KMEM_SIZE
    /\ MAX_TAGS \in Nat /\ MemSize \in Nat

Span(start, n) == start .. start + n - 1
ModulesIn(t) == {n \in 1 .. Len(t) : t[n].type = 3}

\* A loader puts modules into memory, apart from one another and from the
\* kernel.
ASSUME LoaderAssumption == \A t \in Tags :
    /\ t \in Seq([type : Nat, start : Nat, size : Nat])
    /\ \A m \in ModulesIn(t) :
          /\ t[m].start + t[m].size <= MemSize
          /\ t[m].start >= kernel_end \/ t[m].start + t[m].size <= kernel_end
          /\ \A n \in ModulesIn(t) \ {m} :
                Span(t[m].start, t[m].size) \cap Span(t[n].start, t[n].size) = {}

VARIABLES kernel_end_offset,
          tags,         \* the tags, the address of a module in its tag
          mem,          \* cell -> <<module, offset>>, or Nothing
          pool,         \* kmem_pool
          bootmem,      \* where boot is
          loaded,       \* history: the tags as the loader passed them
          regions,      \* history: what was allocated, as [start, bytes]
          harmed        \* history: modules overwritten before they were moved

bootmem_vars == <<kernel_end_offset, tags, mem, pool, bootmem, loaded, regions, harmed>>

Nothing == <<0, 0>>
Modules == ModulesIn(tags)

bootmem_init ==
    /\ kernel_end_offset = 0
    /\ tags = <<>>
    /\ mem = [c \in 0 .. MemSize - 1 |-> Nothing]
    /\ pool = [body |-> 0, block_count |-> 0, map |-> 0]
    /\ bootmem = [at |-> "loader", tag |-> 0]
    /\ loaded = <<>>
    /\ regions = <<>>
    /\ harmed = {}

ceiling(n, align) == IF n = 0 THEN align ELSE align + align * ((n - 1) \div align)

\* arch_kernel_alloc: the offset is raised by the whole distance from the
\* kernel's end, not only by the padding.
OffsetOfNext == kernel_end_offset + ceiling(kernel_end + kernel_end_offset, ARCH_PAGE_SIZE)
                - kernel_end

\* Mutant of arch_kernel_alloc: the end does not move.
alloc_in_place(bytes) ==
    /\ kernel_end_offset' = OffsetOfNext
    /\ regions' = Append(regions, [start |-> kernel_end + OffsetOfNext,
                                   bytes |-> ceiling(bytes, ARCH_PAGE_SIZE)])

arch_kernel_alloc(bytes) ==
    /\ kernel_end_offset' = OffsetOfNext + ceiling(bytes, ARCH_PAGE_SIZE)
    /\ regions' = Append(regions, [start |-> kernel_end + OffsetOfNext,
                                   bytes |-> ceiling(bytes, ARCH_PAGE_SIZE)])

\* The loader: modules lie where their tags say.
load(t, magic) ==
    /\ bootmem.at = "loader"
    /\ tags' = t /\ loaded' = t
    /\ mem' = [c \in DOMAIN mem |->
                  LET inside == {n \in ModulesIn(t) : c \in Span(t[n].start, t[n].size)}
                  IN  IF inside = {} THEN Nothing
                      ELSE <<Min(inside), c - t[Min(inside)].start>>]
    /\ bootmem' = [at |-> IF magic THEN "tags" ELSE "kmem", tag |-> 1]
    /\ UNCHANGED <<kernel_end_offset, pool, regions, harmed>>

More == bootmem.tag <= Len(tags) /\ bootmem.tag <= MAX_TAGS
NextTag == bootmem' = [bootmem EXCEPT !.tag = @ + 1]

\* A tag that is only printed or kept.
multiboot_parse_other ==
    /\ bootmem.at = "tags" /\ More /\ tags[bootmem.tag].type # 3
    /\ NextTag
    /\ UNCHANGED <<kernel_end_offset, tags, mem, pool, loaded, regions, harmed>>

\* mem_copy, from the first cell up.
mem_copy(src, dest, n) ==
    LET copied[i \in 0 .. n] ==
            IF i = 0 THEN mem
            ELSE [copied[i - 1] EXCEPT ![dest + i - 1] = copied[i - 1][src + i - 1]]
    IN  copied[n]

\* A module is moved behind the kernel, and its tag says where it is now.
\* Memory is large enough for it.
multiboot_parse_module ==
    LET t == bootmem.tag
        src == tags[t].start
        n == tags[t].size
        dest == kernel_end + OffsetOfNext
        later == {u \in Modules : u > t}
    IN  /\ bootmem.at = "tags" /\ More /\ tags[t].type = 3
        /\ dest + n <= MemSize
        /\ arch_kernel_alloc(n)
        /\ mem' = mem_copy(src, dest, n)
        /\ tags' = [tags EXCEPT ![t].start = dest]
        /\ harmed' = harmed
              \cup {u \in later : Span(dest, n) \cap Span(tags[u].start, tags[u].size) # {}}
              \cup (IF src < dest /\ dest < src + n THEN {t} ELSE {})
        /\ NextTag
        /\ UNCHANGED <<pool, loaded>>

multiboot_done ==
    /\ bootmem.at = "tags" /\ ~More
    /\ bootmem' = [bootmem EXCEPT !.at = "kmem"]
    /\ UNCHANGED <<kernel_end_offset, tags, mem, pool, loaded, regions, harmed>>

\* pool_construct: start is moved down, not up, when it is not aligned, and
\* clearing the map writes a byte per block, four times what the map has.
pool_construct(start, size, block_size) ==
    LET diff == start - ceiling(start, POOL_ALIGN)
        body == start + diff
        count == (4 * (size - diff)) \div (4 * block_size + 1)
        map == body + block_size * count
    IN  /\ pool' = [body |-> body, block_count |-> count, map |-> map]
        /\ mem' = [c \in DOMAIN mem |-> IF c \in Span(map, count) THEN Nothing ELSE mem[c]]

kmem_init ==
    /\ bootmem.at = "kmem"
    /\ arch_kernel_alloc(KMEM_SIZE)
    /\ pool_construct(kernel_end + OffsetOfNext, KMEM_SIZE, KMEM_BLOCK_SIZE)
    /\ bootmem' = [bootmem EXCEPT !.at = "ready"]
    /\ UNCHANGED <<tags, loaded, harmed>>

bootmem_next ==
    \/ \E t \in Tags, magic \in BOOLEAN : load(t, magic)
    \/ multiboot_parse_other \/ multiboot_parse_module \/ multiboot_done
    \/ kmem_init

bootmem_spec == bootmem_init /\ [][bootmem_next]_bootmem_vars

\* What the pool keeps: its blocks, and behind them two bits a block; and what
\* it writes: pool_construct clears a byte a block from the map on.
PoolOwn == Span(pool.body, KMEM_BLOCK_SIZE * pool.block_count + (pool.block_count + 3) \div 4)
PoolCells == PoolOwn \cup Span(pool.map, pool.block_count)

\* The allocation of the heap, with the cells below it that alignment takes.
HeapCells == LET last == regions[Len(regions)]
             IN  Span(last.start - POOL_ALIGN + 1, last.bytes + POOL_ALIGN - 1)

Moved == {t \in Modules : t < bootmem.tag}

\* A module is where its tag says, whole.
Intact(t) == \A i \in 0 .. tags[t].size - 1 : mem[tags[t].start + i] = <<t, i>>

\* What is allocated lies behind the kernel and apart from every other
\* allocation.  A module that was not overwritten before its turn (see
\* ModulesKept) is intact where its tag says, also after the heap has been
\* laid out; a single module on a page boundary always is.  The blocks and
\* the map of the heap keep within its allocation and, when that is not
\* aligned, the cells below it.  pool_construct clears more than the map, past
\* the end of the allocation: all of that is nobody else's.
BootLayout ==
    /\ \A r \in 1 .. Len(regions) :
          /\ regions[r].start >= kernel_end
          /\ \A s \in 1 .. r - 1 : Span(regions[r].start, regions[r].bytes)
                                     \cap Span(regions[s].start, regions[s].bytes) = {}
    /\ \A t \in Moved \ harmed : Intact(t)
    /\ Cardinality(Modules) = 1 /\ (\A t \in Modules : loaded[t].start % ARCH_PAGE_SIZE = 0)
          => harmed = {}
    /\ bootmem.at = "ready" =>
          /\ pool.block_count > 0
          /\ PoolOwn \subseteq HeapCells
          /\ \A r \in 1 .. Len(regions) - 1 :
                PoolCells \cap Span(regions[r].start, regions[r].bytes) = {}

\* What "Relocate the module to avoid conflicts" (multiboot.cpp:116) says:
\* every module that was moved is intact.
ModulesKept == \A t \in Moved : Intact(t)
=============================================================================
