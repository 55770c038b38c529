----------------------------- MODULE PoolProofs -----------------------------
(***************************************************************************)
(* For every pool size, block size and set of requests: the block map of   *)
(* kernel/sys/pool.cpp describes exactly the live allocations, every       *)
(* allocation is as large as its request, and the loops of pool_alloc,     *)
(* which read the map from its bytes, find the first run that fits.        *)
(***************************************************************************)
EXTENDS PoolScan, Recursion, TLAPS

\* The inductive invariant.  PoolTypeOK is needed to know that the map is total
\* and that every allocation has at least one block; MapMatchesLive is then
\* inductive as it stands.
IInv == PoolTypeOK /\ MapMatchesLive /\ LiveLargeEnough

\* A request always needs at least one block, and the blocks it needs hold it.
LEMMA BlocksNeeded ==
    ASSUME NEW n \in HeapRequests
    PROVE  /\ blocks_needed(n) \in Nat \ {0}
           /\ blocks_needed(n) * BlockSize >= n
<1> DEFINE q == IF n = 0 THEN 0 ELSE (n - 1) \div BlockSize
<1>1. n \in Nat /\ BlockSize \in Nat \ {0}
    BY PoolAssumption
<1>2. q \in Nat
    BY <1>1
<1>3. n # 0 => n - 1 < BlockSize * (q + 1)
    BY <1>1
<1>4. align_ceiling(n, BlockSize) = BlockSize * (q + 1)
    BY <1>1, <1>2 DEF align_ceiling
<1>5. ASSUME NEW b \in Nat \ {0}, NEW m \in Nat PROVE (b * m) \div b = m
    OBVIOUS
<1>6. blocks_needed(n) = q + 1
    BY <1>1, <1>2, <1>4, <1>5 DEF blocks_needed
<1>7. (q + 1) * BlockSize = BlockSize * (q + 1)
    BY <1>1, <1>2
<1> HIDE DEF q
<1>8. BlockSize * (q + 1) \in Nat /\ BlockSize * (q + 1) >= n
    BY <1>1, <1>2, <1>3
<1> QED BY <1>2, <1>6, <1>7, <1>8

\* The constructor leaves an empty map and nobody holds a block.
LEMMA InitIInv == pool_init => IInv
    BY PoolAssumption
    DEF pool_init, IInv, PoolTypeOK, MapMatchesLive, LiveMarked, UsedIsLive, LiveDisjoint,
        LiveLargeEnough, Status, Blocks

\* pool_alloc takes a free run, so it meets no live allocation.
LEMMA AllocIInv ==
    ASSUME IInv, NEW n \in HeapRequests, pool_alloc(n)
    PROVE  IInv'
<1> DEFINE k == blocks_needed(n)
<1>1. PICK s \in FirstFit(k) :
            /\ map' = Mark(s, k)
            /\ live' = live \cup {[start |-> s, blocks |-> k, bytes |-> n]}
            /\ panic' = panic
    BY DEF pool_alloc
<1>2. k \in Nat \ {0} /\ k * BlockSize >= n
    BY BlocksNeeded
<1> HIDE DEF k
<1> DEFINE a == [start |-> s, blocks |-> k, bytes |-> n]
<1>3. /\ s \in Blocks /\ s \in Nat /\ s + k <= BlockCount /\ BlockCount \in Nat
      /\ \A i \in s .. s + k - 1 : i \in Blocks /\ map[i] = "UNUSED"
    BY <1>1, <1>2, PoolAssumption DEF FirstFit, FitsAt, Blocks
<1>4. a \in Allocation /\ a.start = s /\ a.blocks = k /\ a.bytes = n
    BY <1>2, <1>3 DEF Allocation
<1>5. Extent(a) = s .. s + k - 1
    BY <1>4 DEF Extent
<1>6. live' = live \cup {a}
    BY <1>1
<1> HIDE DEF a
<1>7. /\ map \in [Blocks -> Status]
      /\ live \subseteq Allocation
      /\ map' = Mark(s, k)
    BY <1>1 DEF IInv, PoolTypeOK
<1>8. /\ map' \in [Blocks -> Status]
      /\ map'[s] = "HEAD"
      /\ \A i \in s + 1 .. s + k - 1 : map'[i] = "TAIL"
      /\ \A i \in Blocks : i \notin s .. s + k - 1 => map'[i] = map[i]
    BY <1>2, <1>3, <1>7 DEF Mark, Status, Blocks
<1>9. ASSUME NEW b \in live
      PROVE  /\ Extent(b) \subseteq Blocks
             /\ Extent(b) \cap (s .. s + k - 1) = {}
             /\ b.start \in Nat /\ b.blocks \in Nat \ {0} /\ b.start \in Extent(b)
             /\ \A i \in b.start + 1 .. b.start + b.blocks - 1 : i \in Extent(b)
  <2>1. b \in Allocation /\ b.start + b.blocks <= BlockCount
    BY <1>7 DEF IInv, MapMatchesLive, LiveMarked
  <2>2. b.start \in Nat /\ b.blocks \in Nat \ {0} /\ b.start \in Extent(b)
    BY <2>1 DEF Allocation, Blocks, Extent
  <2>3. \A i \in b.start + 1 .. b.start + b.blocks - 1 : i \in Extent(b)
    BY <2>2 DEF Extent
  <2>4. Extent(b) \subseteq Blocks
    BY <1>3, <2>1, <2>2 DEF Extent, Blocks
  <2>5. \A i \in Extent(b) : map[i] # "UNUSED"
    BY <2>2 DEF IInv, MapMatchesLive, LiveMarked, Extent
  <2> QED BY <1>3, <2>2, <2>3, <2>4, <2>5
<1>10. PoolTypeOK'
    BY <1>1, <1>4, <1>6, <1>7, <1>8 DEF IInv, PoolTypeOK
<1>11. LiveMarked'
  <2> SUFFICES ASSUME NEW b \in live'
               PROVE  /\ b.start + b.blocks <= BlockCount
                      /\ map'[b.start] = "HEAD"
                      /\ \A i \in b.start + 1 .. b.start + b.blocks - 1 : map'[i] = "TAIL"
    BY DEF LiveMarked
  <2>1. CASE b \in live
    <3>1. /\ b.start + b.blocks <= BlockCount
          /\ map[b.start] = "HEAD"
          /\ \A i \in b.start + 1 .. b.start + b.blocks - 1 : map[i] = "TAIL"
        BY <2>1 DEF IInv, MapMatchesLive, LiveMarked
    <3>2. \A i \in Extent(b) : map'[i] = map[i]
        BY <1>8, <1>9, <2>1
    <3> QED BY <1>9, <2>1, <3>1, <3>2
  <2>2. CASE b = a
    BY <1>3, <1>4, <1>8, <2>2
  <2> QED BY <1>6, <2>1, <2>2
<1>12. UsedIsLive'
  <2> SUFFICES ASSUME NEW i \in Blocks
               PROVE  /\ map'[i] # "UNUSED" => \E b \in live' : i \in Extent(b)
                      /\ map'[i] = "HEAD" => \E b \in live' : b.start = i
    BY DEF UsedIsLive
  <2>1. CASE i \in s .. s + k - 1
    <3>1. i \in Extent(a) /\ a \in live'
        BY <1>5, <1>6, <2>1
    <3>2. map'[i] = "HEAD" => i = s
        BY <1>2, <1>3, <1>8, <2>1
    <3> QED BY <1>4, <3>1, <3>2
  <2>2. CASE i \notin s .. s + k - 1
    BY <1>6, <1>8, <2>2 DEF IInv, MapMatchesLive, UsedIsLive
  <2> QED BY <2>1, <2>2
<1>13. LiveDisjoint'
  <2> SUFFICES ASSUME NEW b \in live', NEW c \in live', b # c
               PROVE  Extent(b) \cap Extent(c) = {}
    BY DEF LiveDisjoint
  <2>1. CASE b \in live /\ c \in live
    BY <2>1 DEF IInv, MapMatchesLive, LiveDisjoint
  <2>2. CASE b = a /\ c \in live
    BY <1>5, <1>9, <2>2
  <2>3. CASE b \in live /\ c = a
    BY <1>5, <1>9, <2>3
  <2> QED BY <1>6, <2>1, <2>2, <2>3
<1>14. LiveLargeEnough'
    BY <1>2, <1>4, <1>6 DEF IInv, LiveLargeEnough
<1> QED BY <1>10, <1>11, <1>12, <1>13, <1>14 DEF IInv, MapMatchesLive

\* The loop of pool_dealloc frees exactly the blocks of the allocation that
\* starts at index: the block after it is no tail of it, nor of another.
LEMMA FreedIsExtent ==
    ASSUME IInv, NEW a \in live
    PROVE  FreedWith(a.start) = Extent(a)
<1>1. /\ a.start \in Nat /\ a.blocks \in Nat \ {0} /\ BlockCount \in Nat
      /\ a.start + a.blocks <= BlockCount
      /\ map[a.start] = "HEAD"
      /\ \A i \in a.start + 1 .. a.start + a.blocks - 1 : map[i] = "TAIL"
  <2>1. a \in Allocation
    BY DEF IInv, PoolTypeOK
  <2>2. a.start \in Nat /\ a.blocks \in Nat \ {0} /\ BlockCount \in Nat
    BY <2>1, PoolAssumption DEF Allocation, Blocks
  <2> QED BY <2>2 DEF IInv, MapMatchesLive, LiveMarked
<1>2. Extent(a) \subseteq FreedWith(a.start)
    BY <1>1 DEF Extent, FreedWith, Blocks
<1>3. ASSUME NEW j \in Blocks, map[j] = "TAIL", j = a.start + a.blocks
      PROVE  FALSE
  <2>1. PICK b \in live : j \in Extent(b)
    BY <1>3 DEF IInv, MapMatchesLive, UsedIsLive
  <2>2. b.start \in Nat /\ b.blocks \in Nat \ {0} /\ map[b.start] = "HEAD"
    <3>1. b \in Allocation
        BY DEF IInv, PoolTypeOK
    <3>2. b.start \in Nat /\ b.blocks \in Nat \ {0}
        BY <3>1 DEF Allocation, Blocks
    <3> QED BY <3>2 DEF IInv, MapMatchesLive, LiveMarked
  <2>3. b.start # j
    BY <1>3, <2>2
  <2>4. j - 1 \in Extent(b) /\ j - 1 \in Extent(a) /\ j \notin Extent(a)
    BY <1>1, <1>3, <2>1, <2>2, <2>3 DEF Extent
  <2>5. a # b
    BY <2>1, <2>4
  <2> QED BY <2>4, <2>5 DEF IInv, MapMatchesLive, LiveDisjoint
<1>4. ASSUME NEW j \in FreedWith(a.start)
      PROVE  j \in Extent(a)
  <2>1. CASE j = a.start
    BY <1>1, <2>1 DEF Extent
  <2>2. CASE j # a.start
    <3>1. /\ j \in Blocks /\ j \in Nat /\ j > a.start
          /\ \A i \in a.start + 1 .. j : map[i] = "TAIL"
        BY <2>2 DEF FreedWith, Blocks
    <3>2. SUFFICES ASSUME j >= a.start + a.blocks PROVE FALSE
        BY <1>1, <3>1 DEF Extent
    <3>3. /\ a.start + a.blocks \in a.start + 1 .. j
          /\ a.start + a.blocks \in Blocks
        BY <1>1, <3>1, <3>2 DEF Blocks
    <3> QED BY <1>3, <3>1, <3>3
  <2> QED BY <2>1, <2>2
<1> QED BY <1>2, <1>4

\* pool_dealloc frees one allocation and touches no other.
LEMMA DeallocIInv ==
    ASSUME IInv, NEW index \in Blocks, NEW offset, pool_dealloc(index, offset)
    PROVE  IInv'
<1>1. PICK a \in live : a.start = index
    BY DEF pool_dealloc, IInv, MapMatchesLive, UsedIsLive
<1>2. ASSUME NEW b \in live
      PROVE  /\ b \in Allocation /\ b.start \in Nat /\ b.blocks \in Nat \ {0}
             /\ b.start \in Extent(b) /\ Extent(b) \subseteq Blocks
             /\ b.start + b.blocks <= BlockCount
             /\ map[b.start] = "HEAD"
             /\ \A i \in b.start + 1 .. b.start + b.blocks - 1 :
                    map[i] = "TAIL" /\ i \in Extent(b)
  <2>1. /\ b \in Allocation /\ b.start + b.blocks <= BlockCount
        /\ map[b.start] = "HEAD"
        /\ \A i \in b.start + 1 .. b.start + b.blocks - 1 : map[i] = "TAIL"
    BY DEF IInv, PoolTypeOK, MapMatchesLive, LiveMarked
  <2>2. b.start \in Nat /\ b.blocks \in Nat \ {0} /\ BlockCount \in Nat
    BY <2>1, PoolAssumption DEF Allocation, Blocks
  <2> QED BY <2>1, <2>2 DEF Extent, Blocks
<1>3. FreedWith(index) = Extent(a)
    BY <1>1, FreedIsExtent
<1>4. /\ map \in [Blocks -> Status] /\ map' \in [Blocks -> Status]
      /\ \A i \in Extent(a) : map'[i] = "UNUSED"
      /\ \A i \in Blocks : i \notin Extent(a) => map'[i] = map[i]
    BY <1>1, <1>2, <1>3 DEF pool_dealloc, IInv, PoolTypeOK, Status
<1>5. ASSUME NEW b \in live, b # a
      PROVE  /\ Extent(b) \cap Extent(a) = {}
             /\ b.start # index
             /\ \A i \in Extent(b) : map'[i] = map[i]
  <2>1. Extent(b) \cap Extent(a) = {}
    BY <1>5 DEF IInv, MapMatchesLive, LiveDisjoint
  <2> QED BY <1>1, <1>2, <1>4, <2>1
<1>6. live' = live \ {a}
    BY <1>1, <1>5 DEF pool_dealloc
<1>7. PoolTypeOK'
    BY <1>4, <1>6 DEF IInv, PoolTypeOK, pool_dealloc
<1>8. LiveMarked'
  <2> SUFFICES ASSUME NEW b \in live'
               PROVE  /\ b.start + b.blocks <= BlockCount
                      /\ map'[b.start] = "HEAD"
                      /\ \A i \in b.start + 1 .. b.start + b.blocks - 1 : map'[i] = "TAIL"
    BY DEF LiveMarked
  <2>1. b \in live /\ b # a
    BY <1>6
  <2> QED BY <1>2, <1>5, <2>1
<1>9. UsedIsLive'
  <2> SUFFICES ASSUME NEW i \in Blocks, map'[i] # "UNUSED"
               PROVE  /\ \E b \in live' : i \in Extent(b)
                      /\ map'[i] = "HEAD" => \E b \in live' : b.start = i
    BY DEF UsedIsLive
  <2>1. i \notin Extent(a) /\ map'[i] = map[i]
    BY <1>4
  <2>2. PICK b \in live : i \in Extent(b)
    BY <2>1 DEF IInv, MapMatchesLive, UsedIsLive
  <2>3. map[i] = "HEAD" => \E c \in live : c.start = i
    BY DEF IInv, MapMatchesLive, UsedIsLive
  <2>4. i # index
    BY <1>1, <1>2, <2>1
  <2> QED BY <1>1, <1>6, <2>1, <2>2, <2>3, <2>4
<1>10. LiveDisjoint' /\ LiveLargeEnough'
    BY <1>6 DEF IInv, MapMatchesLive, LiveDisjoint, LiveLargeEnough
<1> QED BY <1>7, <1>8, <1>9, <1>10 DEF IInv, MapMatchesLive

\* A panic changes neither the map nor what the callers hold.
LEMMA PanicIInv ==
    ASSUME IInv, UNCHANGED <<map, live>>,
           panic' \in {"none", "no space", "failed to allocate", "unaligned", "unallocated"}
    PROVE  IInv'
    BY DEF IInv, PoolTypeOK, MapMatchesLive, LiveMarked, UsedIsLive, LiveDisjoint,
           LiveLargeEnough, Extent

\* Every step of the heap keeps the invariant.
LEMMA NextIInv == IInv /\ [pool_next]_pool_vars => IInv'
<1> SUFFICES ASSUME IInv, [pool_next]_pool_vars PROVE IInv'
    OBVIOUS
<1>1. ASSUME NEW n \in HeapRequests, kmem_alloc(n) PROVE IInv'
  <2>1. CASE pool_alloc(n)
    BY <2>1, AllocIInv
  <2>2. CASE alloc_panic(n)
    BY <2>2, PanicIInv DEF alloc_panic
  <2> QED BY <1>1, <2>1, <2>2 DEF kmem_alloc
<1>2. ASSUME NEW index \in Blocks, NEW offset \in 0 .. BlockSize - 1,
             kmem_dealloc(index, offset)
      PROVE  IInv'
  <2>1. CASE pool_dealloc(index, offset)
    BY <2>1, DeallocIInv
  <2>2. CASE dealloc_panic(index, offset)
    BY <2>2, PanicIInv DEF dealloc_panic
  <2> QED BY <1>2, <2>1, <2>2 DEF kmem_dealloc
<1>3. CASE UNCHANGED pool_vars
    BY <1>3, PanicIInv DEF pool_vars, IInv, PoolTypeOK
<1> QED BY <1>1, <1>2, <1>3 DEF pool_next

\* The block map never leaves its three legal states, for every pool.
THEOREM PoolTypeCorrect == pool_spec => []PoolTypeOK
<1>1. pool_spec => []IInv
    BY InitIInv, NextIInv, PTL DEF pool_spec
<1>2. IInv => PoolTypeOK
    BY DEF IInv
<1> QED BY <1>1, <1>2, PTL

\* After any sequence of allocations and frees, bad frees included, the map
\* of the pool describes exactly the live allocations: no block has two
\* owners and none leaks, for every pool size, block size and request.
THEOREM PoolMapMatchesLive == pool_spec => []MapMatchesLive
<1>1. pool_spec => []IInv
    BY InitIInv, NextIInv, PTL DEF pool_spec
<1>2. IInv => MapMatchesLive
    BY DEF IInv
<1> QED BY <1>1, <1>2, PTL

\* The rounding of align_ceiling never makes an allocation too small.
THEOREM PoolLiveLargeEnough == pool_spec => []LiveLargeEnough
<1>1. pool_spec => []IInv
    BY InitIInv, NextIInv, PTL DEF pool_spec
<1>2. IInv => LiveLargeEnough
    BY DEF IInv
<1> QED BY <1>1, <1>2, PTL

-----------------------------------------------------------------------------
(* The map as bytes. *)

\* The weights of the four fields of a byte.
W(p) == <<1, 4, 16, 64>>[p + 1]
FieldOf(y, p) == (y \div W(p)) % 4
Replaced(y, p, v) == y + (v - FieldOf(y, p)) * W(p)

\* A byte is its four fields.
LEMMA ByteParts ==
    ASSUME NEW y \in 0 .. 255
    PROVE  /\ \A p \in 0 .. 3 : FieldOf(y, p) \in 0 .. 3
           /\ y = FieldOf(y, 0) + 4 * FieldOf(y, 1) + 16 * FieldOf(y, 2) + 64 * FieldOf(y, 3)
<1>1. W(0) = 1 /\ W(1) = 4 /\ W(2) = 16 /\ W(3) = 64
    BY DEF W
<1>2. /\ FieldOf(y, 0) = y % 4 /\ FieldOf(y, 1) = (y \div 4) % 4
      /\ FieldOf(y, 2) = (y \div 16) % 4 /\ FieldOf(y, 3) = (y \div 64) % 4
    BY <1>1 DEF FieldOf
<1>3. /\ y % 4 \in 0 .. 3 /\ (y \div 4) % 4 \in 0 .. 3
      /\ (y \div 16) % 4 \in 0 .. 3 /\ (y \div 64) % 4 \in 0 .. 3
      /\ y = (y % 4) + 4 * ((y \div 4) % 4) + 16 * ((y \div 16) % 4) + 64 * ((y \div 64) % 4)
    OBVIOUS
<1>4. \A p \in 0 .. 3 : p = 0 \/ p = 1 \/ p = 2 \/ p = 3
    OBVIOUS
<1> QED BY <1>2, <1>3, <1>4

\* Four fields make a byte that has them.
LEMMA PartsByte ==
    ASSUME NEW a \in 0 .. 3, NEW b \in 0 .. 3, NEW c \in 0 .. 3, NEW d \in 0 .. 3
    PROVE  LET y == a + 4 * b + 16 * c + 64 * d
           IN  /\ y \in 0 .. 255
               /\ FieldOf(y, 0) = a /\ FieldOf(y, 1) = b /\ FieldOf(y, 2) = c /\ FieldOf(y, 3) = d
<1> DEFINE y == a + 4 * b + 16 * c + 64 * d
<1>1. W(0) = 1 /\ W(1) = 4 /\ W(2) = 16 /\ W(3) = 64
    BY DEF W
<1>2. y \in 0 .. 255
    OBVIOUS
<1>3. /\ y % 4 = a
      /\ y \div 4 = b + 4 * c + 16 * d
      /\ y \div 16 = c + 4 * d
      /\ y \div 64 = d
    OBVIOUS
<1> QED BY <1>1, <1>2, <1>3 DEF FieldOf

\* Replacing one field leaves the others alone.
LEMMA ReplaceAny ==
    ASSUME NEW y \in 0 .. 255, NEW p \in 0 .. 3, NEW v \in 0 .. 3, NEW q \in 0 .. 3
    PROVE  FieldOf(Replaced(y, p, v), q) = IF q = p THEN v ELSE FieldOf(y, q)
<1> DEFINE z == y + (v - FieldOf(y, p)) * W(p)
           a == FieldOf(y, 0)
           b == FieldOf(y, 1)
           c == FieldOf(y, 2)
           d == FieldOf(y, 3)
<1>1. a \in 0 .. 3 /\ b \in 0 .. 3 /\ c \in 0 .. 3 /\ d \in 0 .. 3
    BY SMTT(30), ByteParts
<1>2. y = a + 4 * b + 16 * c + 64 * d
    BY ByteParts
<1>3. W(0) = 1 /\ W(1) = 4 /\ W(2) = 16 /\ W(3) = 64
    BY DEF W
<1> SUFFICES FieldOf(z, q) = IF q = p THEN v ELSE FieldOf(y, q)
    BY DEF Replaced
<1>q. q = 0 \/ q = 1 \/ q = 2 \/ q = 3
    OBVIOUS
<1>4. CASE p = 0
  <2>1. z = v + 4 * b + 16 * c + 64 * d
      BY <1>1, <1>2, <1>3, <1>4
  <2>2. /\ z \in 0 .. 255
        /\ FieldOf(z, 0) = v /\ FieldOf(z, 1) = b /\ FieldOf(z, 2) = c /\ FieldOf(z, 3) = d
      BY <1>1, <2>1, PartsByte
  <2> QED BY <1>q, <1>4, <2>2
<1>5. CASE p = 1
  <2>1. z = a + 4 * v + 16 * c + 64 * d
      BY <1>1, <1>2, <1>3, <1>5
  <2>2. /\ z \in 0 .. 255
        /\ FieldOf(z, 0) = a /\ FieldOf(z, 1) = v /\ FieldOf(z, 2) = c /\ FieldOf(z, 3) = d
      BY <1>1, <2>1, PartsByte
  <2> QED BY <1>q, <1>5, <2>2
<1>6. CASE p = 2
  <2>1. z = a + 4 * b + 16 * v + 64 * d
      BY <1>1, <1>2, <1>3, <1>6
  <2>2. /\ z \in 0 .. 255
        /\ FieldOf(z, 0) = a /\ FieldOf(z, 1) = b /\ FieldOf(z, 2) = v /\ FieldOf(z, 3) = d
      BY <1>1, <2>1, PartsByte
  <2> QED BY <1>q, <1>6, <2>2
<1>7. CASE p = 3
  <2>1. z = a + 4 * b + 16 * c + 64 * v
      BY <1>1, <1>2, <1>3, <1>7
  <2>2. /\ z \in 0 .. 255
        /\ FieldOf(z, 0) = a /\ FieldOf(z, 1) = b /\ FieldOf(z, 2) = c /\ FieldOf(z, 3) = v
      BY <1>1, <2>1, PartsByte
  <2> QED BY <1>q, <1>7, <2>2
<1> QED BY <1>4, <1>5, <1>6, <1>7

LEMMA ReplaceByte ==
    ASSUME NEW y \in 0 .. 255, NEW p \in 0 .. 3, NEW v \in 0 .. 3
    PROVE  Replaced(y, p, v) \in 0 .. 255
<1> DEFINE a == FieldOf(y, 0)
           b == FieldOf(y, 1)
           c == FieldOf(y, 2)
           d == FieldOf(y, 3)
<1>1. /\ a \in 0 .. 3 /\ b \in 0 .. 3 /\ c \in 0 .. 3 /\ d \in 0 .. 3
      /\ y = a + 4 * b + 16 * c + 64 * d
    BY SMTT(30), ByteParts
<1>2. W(0) = 1 /\ W(1) = 4 /\ W(2) = 16 /\ W(3) = 64
    BY DEF W
<1>3. p = 0 \/ p = 1 \/ p = 2 \/ p = 3
    OBVIOUS
<1>4. Replaced(y, p, v) = y + (v - FieldOf(y, p)) * W(p)
    BY DEF Replaced
<1>5. CASE p = 0
  <2>1. FieldOf(y, p) = a /\ W(p) = 1
      BY <1>2, <1>5
  <2> HIDE DEF a, b, c, d
  <2>2. Replaced(y, p, v) = v + 4 * b + 16 * c + 64 * d
      BY <1>1, <1>4, <2>1
  <2> QED BY <1>1, <2>2
<1>6. CASE p = 1
  <2>1. FieldOf(y, p) = b /\ W(p) = 4
      BY <1>2, <1>6
  <2> HIDE DEF a, b, c, d
  <2>2. Replaced(y, p, v) = a + 4 * v + 16 * c + 64 * d
      BY <1>1, <1>4, <2>1
  <2> QED BY <1>1, <2>2
<1>7. CASE p = 2
  <2>1. FieldOf(y, p) = c /\ W(p) = 16
      BY <1>2, <1>7
  <2> HIDE DEF a, b, c, d
  <2>2. Replaced(y, p, v) = a + 4 * b + 16 * v + 64 * d
      BY <1>1, <1>4, <2>1
  <2> QED BY <1>1, <2>2
<1>8. CASE p = 3
  <2>1. FieldOf(y, p) = d /\ W(p) = 64
      BY <1>2, <1>8
  <2> HIDE DEF a, b, c, d
  <2>2. Replaced(y, p, v) = a + 4 * b + 16 * c + 64 * v
      BY <1>1, <1>4, <2>1
  <2> QED BY <1>1, <2>2
<1> QED BY <1>3, <1>5, <1>6, <1>7, <1>8

LEMMA ReplaceField ==
    ASSUME NEW y \in 0 .. 255, NEW p \in 0 .. 3, NEW v \in 0 .. 3
    PROVE  FieldOf(Replaced(y, p, v), p) = v
BY ReplaceAny

LEMMA KeepField ==
    ASSUME NEW y \in 0 .. 255, NEW p \in 0 .. 3, NEW v \in 0 .. 3, NEW q \in 0 .. 3, q # p
    PROVE  FieldOf(Replaced(y, p, v), q) = FieldOf(y, q)
BY ReplaceAny

ByteMap == [0 .. (BlockCount - 1) \div 4 -> 0 .. 255]

\* The place of a block in the bytes: no two blocks share a field.
LEMMA Place ==
    ASSUME NEW i \in Blocks
    PROVE  /\ i \div 4 \in 0 .. (BlockCount - 1) \div 4
           /\ i % 4 \in 0 .. 3
           /\ BitOf(i) = W(i % 4)
           /\ \A j \in Blocks : i \div 4 = j \div 4 /\ i % 4 = j % 4 => i = j
BY PoolAssumption DEF Blocks, BitOf, W

LEMMA Codes ==
    /\ \A s \in Status : Code[s] \in 0 .. 3
    /\ \A s, t \in DOMAIN Code : Code[s] = Code[t] => s = t
    /\ Status \subseteq DOMAIN Code
    /\ ClearByte = 85
BY DEF Code, Status, ClearByte

\* pool_set writes the field of one block.
LEMMA SetBlock ==
    ASSUME NEW bytes \in ByteMap, NEW i \in Blocks, NEW s \in Status
    PROVE  /\ pool_set(bytes, i, s) \in ByteMap
           /\ Field(pool_set(bytes, i, s), i) = Code[s]
           /\ \A j \in Blocks : j # i =>
                 Field(pool_set(bytes, i, s), j) = Field(bytes, j)
<1> DEFINE new == pool_set(bytes, i, s)
           y == bytes[i \div 4]
           z == Replaced(y, i % 4, Code[s])
<1>1. \A j \in Blocks : Field(bytes, j) = FieldOf(bytes[j \div 4], j % 4)
    BY Place DEF Field, FieldOf
<1>2. y \in 0 .. 255
    BY Place DEF ByteMap
<1>3. new = [bytes EXCEPT ![i \div 4] = z]
    BY <1>1, Place DEF pool_set, Replaced
<1>4. /\ z \in 0 .. 255
      /\ FieldOf(z, i % 4) = Code[s]
      /\ \A q \in 0 .. 3 : q # i % 4 => FieldOf(z, q) = FieldOf(y, q)
  <2>1. i % 4 \in 0 .. 3 /\ Code[s] \in 0 .. 3
      BY Codes, Place
  <2> DEFINE p == i % 4
             v == Code[s]
  <2>2. p \in 0 .. 3 /\ v \in 0 .. 3 /\ y \in 0 .. 255 /\ z = Replaced(y, p, v)
      BY SMTT(30), <1>2, <2>1
  <2> HIDE DEF p, v, y
  <2>3. Replaced(y, p, v) \in 0 .. 255
      BY <2>2, ReplaceByte
  <2>4. FieldOf(Replaced(y, p, v), p) = v
      BY <2>2, ReplaceField
  <2>5. \A q \in 0 .. 3 : q # p => FieldOf(Replaced(y, p, v), q) = FieldOf(y, q)
      BY <2>2, KeepField
  <2> QED BY <2>2, <2>3, <2>4, <2>5 DEF p, v
<1> HIDE DEF z
<1>5. new \in ByteMap
    BY ZenonT(40), <1>3, <1>4 DEF ByteMap
<1>6. new[i \div 4] = z /\ \A b \in 0 .. (BlockCount - 1) \div 4 : b # i \div 4 => new[b] = bytes[b]
    BY <1>3, Place DEF ByteMap
<1> HIDE DEF new
<1>7. \A j \in Blocks : Field(new, j) = FieldOf(new[j \div 4], j % 4)
    BY Place DEF Field, FieldOf
<1>8. ASSUME NEW j \in Blocks, j # i PROVE Field(new, j) = Field(bytes, j)
  <2>1. CASE j \div 4 = i \div 4
    <3>1. j % 4 # i % 4 /\ j % 4 \in 0 .. 3
        BY <1>8, <2>1, Place
    <3> QED BY <1>1, <1>4, <1>6, <1>7, <2>1, <3>1
  <2>2. CASE j \div 4 # i \div 4
      BY <1>1, <1>6, <1>7, <2>2, Place
  <2> QED BY <2>1, <2>2
<1>9. Field(new, i) = Code[s]
    BY <1>4, <1>6, <1>7
<1> QED BY <1>5, <1>8, <1>9 DEF new

\* Read back, the bytes are the map.
LEMMA BytesAreMap ==
    ASSUME map \in [Blocks -> Status]
    PROVE  \A i \in Blocks : pool_get(Bytes, i) = map[i]
<1> DEFINE D == 0 .. BlockCount
           Clear == [b \in 0 .. (BlockCount - 1) \div 4 |-> ClearByte]
           Body(h) == [n \in D |-> IF n = 0 THEN Clear
                                   ELSE pool_set(h[n - 1], n - 1, map[n - 1])]
           G == [h \in [D -> ByteMap] |-> Body(h)]
           rank == [n \in D |-> n]
           written == CHOOSE h : h = Body(h)
<1>1. BlockCount \in Nat \ {0} /\ Clear \in ByteMap
    BY PoolAssumption, Codes DEF ByteMap
<1>2. \A n \in D : n # 0 => n - 1 \in Blocks /\ n - 1 \in D
    BY <1>1 DEF Blocks
<1>3. IsRecursion(G, D, ByteMap, rank, BlockCount)
  <2>1. rank \in [D -> 0 .. BlockCount]
      OBVIOUS
  <2>2. ASSUME NEW h \in [D -> ByteMap] PROVE Body(h) \in [D -> ByteMap]
    <3>1. \A n \in D : n # 0 => pool_set(h[n - 1], n - 1, map[n - 1]) \in ByteMap
        BY <1>2, SetBlock
    <3> HIDE DEF Clear
    <3> QED BY <1>1, <3>1
  <2>3. ASSUME NEW n \in D, NEW h1 \in [D -> ByteMap], NEW h2 \in [D -> ByteMap],
               \A m \in D : rank[m] < rank[n] => h1[m] = h2[m]
        PROVE  G[h1][n] = G[h2][n]
    <3>1. n # 0 => h1[n - 1] = h2[n - 1]
        BY <1>1, <1>2, <2>3
    <3> QED BY <3>1
  <2> HIDE DEF Body, rank
  <2>4. G \in [[D -> ByteMap] -> [D -> ByteMap]]
      BY <2>2
  <2> HIDE DEF G, D
  <2> QED BY <2>1, <2>3, <2>4 DEF IsRecursion
<1>4. \E h \in [D -> ByteMap] : h = Body(h)
  <2>1. ByteMap # {}
      BY <1>1
  <2>2. PICK h \in [D -> ByteMap] : h = G[h]
    <3> HIDE DEF G, D, rank
    <3> QED BY <1>1, <1>3, <2>1, RecursiveFunction
  <2>3. h = Body(h)
      BY <2>2
  <2> HIDE DEF Body
  <2> QED BY <2>3
<1>5. written = Body(written)
  <2> HIDE DEF Body
  <2> QED BY <1>4
<1>6. Bytes = written[BlockCount]
    BY DEF Bytes
<1> HIDE DEF written
<1>7. /\ written[0] = Clear
      /\ \A n \in D : n # 0 => written[n] = pool_set(written[n - 1], n - 1, map[n - 1])
  <2>1. \A n \in D : written[n] = IF n = 0 THEN Clear
                                  ELSE pool_set(written[n - 1], n - 1, map[n - 1])
      BY <1>5
  <2> QED BY <1>1, <2>1
<1> DEFINE Done(n) == /\ written[n] \in ByteMap
                      /\ \A i \in 0 .. n - 1 : Field(written[n], i) = Code[map[i]]
           S == {n \in D : Done(n)}
<1>8. Done(0)
    BY <1>1, <1>7
<1>9. ASSUME NEW n \in 0 .. BlockCount - 1, Done(n) PROVE Done(n + 1)
  <2>1. /\ n + 1 \in D /\ n + 1 # 0 /\ n \in Blocks /\ map[n] \in Status
        /\ (n + 1) - 1 = n
      BY <1>1 DEF Blocks
  <2>2. written[n + 1] = pool_set(written[n], n, map[n])
      BY <1>7, <2>1
  <2>3. written[n + 1] \in ByteMap /\ Field(written[n + 1], n) = Code[map[n]]
      BY <1>9, <2>1, <2>2, SetBlock
  <2>4. ASSUME NEW i \in 0 .. n - 1 PROVE Field(written[n + 1], i) = Code[map[i]]
    <3>1. i \in Blocks /\ i # n
        BY <1>1 DEF Blocks
    <3> QED BY <1>9, <2>1, <2>2, <3>1, SetBlock
  <2>5. \A i \in 0 .. (n + 1) - 1 : i = n \/ i \in 0 .. n - 1
      OBVIOUS
  <2> QED BY <2>3, <2>4, <2>5
<1>10. Done(BlockCount)
  <2> HIDE DEF Done
  <2>1. 0 \in S /\ \A n \in 0 .. BlockCount - 1 : n \in S => n + 1 \in S
      BY <1>1, <1>8, <1>9
  <2>2. 0 .. BlockCount \subseteq S
    <3> HIDE DEF S
    <3> QED BY <1>1, <2>1, BoundedInduction
  <2> QED BY <1>1, <2>2
<1>11. ASSUME NEW i \in Blocks PROVE pool_get(Bytes, i) = map[i]
  <2>1. Field(Bytes, i) = Code[map[i]]
      BY <1>1, <1>6, <1>10 DEF Blocks
  <2>2. map[i] \in DOMAIN Code
      BY Codes
  <2>3. \A s \in DOMAIN Code : Code[s] = Field(Bytes, i) => s = map[i]
      BY <2>1, <2>2, Codes
  <2> QED BY <2>1, <2>2, <2>3 DEF pool_get
<1> QED BY <1>11

-----------------------------------------------------------------------------
(* The loops. *)

\* What the inner loop says when it stops at block r.at, having come from i.
RunEnds(r, i, end) ==
    /\ r.at \in i .. BlockCount
    /\ \A j \in i .. r.at - 1 : map[j] = "UNUSED"
    /\ \/ r.stop = "enough" /\ r.at >= end
       \/ r.stop = "panic" /\ r.at = BlockCount /\ r.at < end
       \/ r.stop = "tosmall" /\ r.at < BlockCount /\ map[r.at] # "UNUSED" /\ r.at < end

LEMMA RunStops ==
    ASSUME NEW bytes, \A i \in Blocks : pool_get(bytes, i) = map[i],
           NEW end \in Nat, NEW start \in 0 .. BlockCount
    PROVE  RunEnds(FreeRun(bytes, start, end), start, end)
<1> DEFINE D == 0 .. BlockCount
           V == [stop : {"enough", "panic", "tosmall"}, at : D]
           Body(h) == [i \in D |->
                          IF i >= end THEN [stop |-> "enough", at |-> i]
                          ELSE IF i = BlockCount THEN [stop |-> "panic", at |-> i]
                          ELSE IF pool_get(bytes, i) # "UNUSED" THEN [stop |-> "tosmall", at |-> i]
                          ELSE h[i + 1]]
           G == [h \in [D -> V] |-> Body(h)]
           rank == [i \in D |-> BlockCount - i]
           run == CHOOSE h : h = Body(h)
<1>1. BlockCount \in Nat
    BY PoolAssumption
<1>2. \A i \in D : i # BlockCount => i + 1 \in D /\ i \in Blocks
    BY <1>1 DEF Blocks
<1>3. IsRecursion(G, D, V, rank, BlockCount)
  <2>1. rank \in [D -> 0 .. BlockCount]
      BY <1>1
  <2>2. ASSUME NEW h \in [D -> V] PROVE Body(h) \in [D -> V]
      BY <1>2
  <2>3. ASSUME NEW i \in D, NEW h1 \in [D -> V], NEW h2 \in [D -> V],
               \A m \in D : rank[m] < rank[i] => h1[m] = h2[m]
        PROVE  G[h1][i] = G[h2][i]
    <3> HIDE DEF V
    <3>1. i # BlockCount => i + 1 \in D /\ rank[i + 1] < rank[i]
        BY <1>1
    <3>2. i # BlockCount => h1[i + 1] = h2[i + 1]
        BY <2>3, <3>1
    <3> QED BY <3>2
  <2> HIDE DEF Body, rank, V
  <2>4. G \in [[D -> V] -> [D -> V]]
      BY <2>2
  <2> HIDE DEF G, D
  <2> QED BY <2>1, <2>3, <2>4 DEF IsRecursion
<1>4. \E h : h = Body(h)
  <2>1. V # {}
    <3>1. [stop |-> "panic", at |-> BlockCount] \in V
        BY <1>1
    <3> QED BY <3>1
  <2>2. PICK h \in [D -> V] : h = G[h]
    <3> HIDE DEF G, D, V, rank
    <3> QED BY <1>1, <1>3, <2>1, RecursiveFunction
  <2>3. h = Body(h)
      BY <2>2
  <2> HIDE DEF Body
  <2> QED BY <2>3
<1>5. run = Body(run)
  <2> HIDE DEF Body
  <2> QED BY <1>4
<1>6. FreeRun(bytes, start, end) = run[start]
    BY DEF FreeRun
<1> HIDE DEF run
<1>7. \A i \in D : run[i] = IF i >= end THEN [stop |-> "enough", at |-> i]
                            ELSE IF i = BlockCount THEN [stop |-> "panic", at |-> i]
                            ELSE IF pool_get(bytes, i) # "UNUSED" THEN [stop |-> "tosmall", at |-> i]
                            ELSE run[i + 1]
    BY <1>5
<1>8. RunEnds(run[BlockCount], BlockCount, end)
  <2>1. BlockCount \in D
      BY <1>1
  <2>2. run[BlockCount] = IF BlockCount >= end THEN [stop |-> "enough", at |-> BlockCount]
                          ELSE [stop |-> "panic", at |-> BlockCount]
      BY <1>7, <2>1
  <2>3. CASE BlockCount >= end
    <3>1. run[BlockCount] = [stop |-> "enough", at |-> BlockCount]
        BY <2>2, <2>3
    <3>2. run[BlockCount].stop = "enough" /\ run[BlockCount].at = BlockCount
        BY <3>1
    <3> QED BY <1>1, <2>3, <3>2 DEF RunEnds
  <2>4. CASE ~(BlockCount >= end)
    <3>1. run[BlockCount] = [stop |-> "panic", at |-> BlockCount]
        BY <2>2, <2>4
    <3>2. run[BlockCount].stop = "panic" /\ run[BlockCount].at = BlockCount
        BY <3>1
    <3>3. BlockCount < end
        BY <1>1, <2>4
    <3> QED BY <1>1, <3>2, <3>3 DEF RunEnds
  <2> QED BY <2>3, <2>4
<1>9. ASSUME NEW i \in 0 .. BlockCount - 1, RunEnds(run[i + 1], i + 1, end)
      PROVE  RunEnds(run[i], i, end)
  <2>1. i \in D /\ i # BlockCount /\ i + 1 \in D /\ pool_get(bytes, i) = map[i] /\ i \in Nat
      BY <1>1, <1>2
  <2>2. CASE i >= end
    <3>1. run[i] = [stop |-> "enough", at |-> i]
        BY <1>7, <2>1, <2>2
    <3>2. run[i].stop = "enough" /\ run[i].at = i
        BY <3>1
    <3>3. i \in i .. BlockCount /\ \A j \in i .. i - 1 : FALSE
        BY <1>1
    <3> QED BY <2>2, <3>2, <3>3 DEF RunEnds
  <2>3. CASE ~(i >= end) /\ map[i] # "UNUSED"
    <3>1. run[i] = [stop |-> "tosmall", at |-> i]
        BY <1>7, <2>1, <2>3
    <3> QED BY <1>1, <2>1, <2>3, <3>1 DEF RunEnds
  <2>4. CASE ~(i >= end) /\ map[i] = "UNUSED"
    <3>1. run[i] = run[i + 1]
        BY <1>7, <2>1, <2>4
    <3> DEFINE r == run[i + 1]
    <3> HIDE DEF r
    <3>2. r.at \in i + 1 .. BlockCount /\ \A j \in i + 1 .. r.at - 1 : map[j] = "UNUSED"
        BY <1>9 DEF RunEnds, r
    <3>3. r.at \in i .. BlockCount /\ \A j \in i .. r.at - 1 : map[j] = "UNUSED"
      <4>1. \A j \in i .. r.at - 1 : j = i \/ j \in i + 1 .. r.at - 1
          BY <2>1, <3>2
      <4> QED BY <1>1, <2>1, <2>4, <3>2, <4>1
    <3>4. RunEnds(r, i, end)
        BY <1>9, <3>3 DEF RunEnds, r
    <3> QED BY <3>1, <3>4 DEF r
  <2> QED BY <2>2, <2>3, <2>4
<1>10. RunEnds(run[start], start, end)
  <2> DEFINE S == {i \in D : RunEnds(run[i], i, end)}
  <2>1. BlockCount \in S
      BY <1>1, <1>8
  <2>2. ASSUME NEW i \in 0 .. BlockCount - 1, \A m \in i + 1 .. BlockCount : m \in S
        PROVE  i \in S
    <3>1. i + 1 \in i + 1 .. BlockCount /\ i \in D
        BY <1>1
    <3> QED BY <1>9, <2>2, <3>1
  <2>3. 0 .. BlockCount \subseteq S
    <3> HIDE DEF S
    <3> QED BY <1>1, <2>1, <2>2, DownwardInduction
  <2> QED BY <2>3
<1> QED BY <1>6, <1>10

\* What the outer loop finds from block i on.
ScanEnds(r, i, k) ==
    \/ /\ r.found = "run"
       /\ r.start \in FitsAt(k) /\ r.start >= i
       /\ \A t \in FitsAt(k) : t >= i => r.start <= t
    \/ /\ r.found = IF map[BlockCount - 1] = "UNUSED" THEN "panic" ELSE "nullptr"
       /\ \A t \in FitsAt(k) : t < i

LEMMA ScanFinds ==
    ASSUME NEW bytes, \A i \in Blocks : pool_get(bytes, i) = map[i], NEW k \in Nat \ {0}
    PROVE  ScanEnds(Search(bytes, k), 0, k)
<1> DEFINE D == 0 .. BlockCount
           V == [found : {"run", "panic", "nullptr"}, start : D]
           Stop(i) == FreeRun(bytes, i, i + k)
           Body(h) == [i \in D |->
                          IF i >= BlockCount THEN [found |-> "nullptr", start |-> 0]
                          ELSE IF pool_get(bytes, i) # "UNUSED" THEN h[i + 1]
                          ELSE IF Stop(i).stop = "enough" THEN [found |-> "run", start |-> i]
                          ELSE IF Stop(i).stop = "panic" THEN [found |-> "panic", start |-> 0]
                          ELSE h[Stop(i).at + 1]]
           G == [h \in [D -> V] |-> Body(h)]
           rank == [i \in D |-> BlockCount - i]
           scan == CHOOSE h : h = Body(h)
<1>1. BlockCount \in Nat \ {0}
    BY PoolAssumption
<1>2. ASSUME NEW i \in D PROVE RunEnds(Stop(i), i, i + k)
  <2>1. i + k \in Nat
      BY <1>1
  <2> QED BY <2>1, RunStops
<1>3. ASSUME NEW i \in D, Stop(i).stop # "enough", Stop(i).stop # "panic"
      PROVE  /\ Stop(i).stop = "tosmall" /\ Stop(i).at \in i .. BlockCount - 1
             /\ Stop(i).at + 1 \in D /\ Stop(i).at + 1 > i
    BY <1>1, <1>2, <1>3 DEF RunEnds
<1>4. \A i \in D : i # BlockCount => i + 1 \in D /\ i \in Blocks
    BY <1>1 DEF Blocks
<1> HIDE DEF Stop
<1>5. IsRecursion(G, D, V, rank, BlockCount)
  <2>1. rank \in [D -> 0 .. BlockCount]
      BY <1>1
  <2>2. ASSUME NEW h \in [D -> V] PROVE Body(h) \in [D -> V]
    <3> SUFFICES ASSUME NEW i \in D PROVE Body(h)[i] \in V
        OBVIOUS
    <3>1. /\ [found |-> "nullptr", start |-> 0] \in V
          /\ [found |-> "panic", start |-> 0] \in V
          /\ [found |-> "run", start |-> i] \in V
        BY <1>1
    <3>2. \A j \in D : h[j] \in V
        OBVIOUS
    <3> HIDE DEF V
    <3> QED BY <1>1, <1>3, <1>4, <3>1, <3>2
  <2>3. ASSUME NEW i \in D, NEW h1 \in [D -> V], NEW h2 \in [D -> V],
               \A m \in D : rank[m] < rank[i] => h1[m] = h2[m]
        PROVE  G[h1][i] = G[h2][i]
    <3> HIDE DEF V
    <3>1. \A m \in D : m > i => h1[m] = h2[m]
        BY <1>1, <2>3
    <3>2. i # BlockCount => h1[i + 1] = h2[i + 1]
        BY <1>1, <1>4, <3>1
    <3>3. (Stop(i).stop # "enough" /\ Stop(i).stop # "panic")
             => h1[Stop(i).at + 1] = h2[Stop(i).at + 1]
        BY <1>3, <3>1
    <3>4. G[h1][i] = Body(h1)[i] /\ G[h2][i] = Body(h2)[i]
        OBVIOUS
    <3>5. Body(h1)[i] = Body(h2)[i]
        BY <1>1, <3>2, <3>3
    <3> QED BY <3>4, <3>5
  <2> HIDE DEF Body, rank, V
  <2>4. G \in [[D -> V] -> [D -> V]]
      BY <2>2
  <2> HIDE DEF G, D
  <2> QED BY <2>1, <2>3, <2>4 DEF IsRecursion
<1>6. scan = Body(scan)
  <2>1. V # {}
    <3>1. [found |-> "panic", start |-> 0] \in V
        BY <1>1
    <3> QED BY <3>1
  <2>2. PICK h \in [D -> V] : h = G[h]
    <3> HIDE DEF G, D, V, rank
    <3> QED BY <1>1, <1>5, <2>1, RecursiveFunction
  <2>3. h = Body(h)
      BY <2>2
  <2> HIDE DEF Body
  <2> QED BY <2>3
<1>7. Search(bytes, k) = scan[0]
    BY DEF Search, Stop
<1> HIDE DEF scan, V
<1>8. \A i \in D : scan[i] = IF i >= BlockCount THEN [found |-> "nullptr", start |-> 0]
                             ELSE IF pool_get(bytes, i) # "UNUSED" THEN scan[i + 1]
                             ELSE IF Stop(i).stop = "enough" THEN [found |-> "run", start |-> i]
                             ELSE IF Stop(i).stop = "panic" THEN [found |-> "panic", start |-> 0]
                             ELSE scan[Stop(i).at + 1]
    BY <1>6
<1> DEFINE LastFree == map[BlockCount - 1] = "UNUSED"
           Good(i) == (i = BlockCount => ~LastFree) => ScanEnds(scan[i], i, k)
<1>9. \A t \in FitsAt(k) : /\ t \in Nat /\ t + k <= BlockCount
                         /\ \A j \in t .. t + k - 1 : map[j] = "UNUSED"
    BY DEF FitsAt, Blocks
<1>10. Good(BlockCount)
  <2>1. scan[BlockCount] = [found |-> "nullptr", start |-> 0]
    <3>1. BlockCount \in D /\ BlockCount >= BlockCount
        BY <1>1
    <3> HIDE DEF D
    <3> QED BY <1>8, <3>1
  <2>2. scan[BlockCount].found = "nullptr"
      BY <2>1
  <2>3. \A t \in FitsAt(k) : t < BlockCount
      BY <1>1, <1>9
  <2> QED BY <2>2, <2>3 DEF ScanEnds
<1>11. ASSUME NEW i \in 0 .. BlockCount - 1, \A m \in i + 1 .. BlockCount : Good(m)
       PROVE  Good(i)
  <2>1. /\ i \in D /\ i \in Nat /\ i # BlockCount /\ ~(i >= BlockCount)
        /\ i + 1 \in i + 1 .. BlockCount /\ i \in Blocks
        /\ pool_get(bytes, i) = map[i]
      BY <1>1 DEF Blocks
  <2>2. CASE map[i] # "UNUSED"
    <3>1. scan[i] = scan[i + 1]
        BY <1>8, <2>1, <2>2
    <3>2. \A t \in FitsAt(k) : t # i
      <4>1. i \in i .. i + k - 1
          BY <2>1
      <4> QED BY <1>9, <2>2, <4>1
    <3>3. i + 1 = BlockCount => ~LastFree
        BY <1>1, <2>1, <2>2
    <3>4. ScanEnds(scan[i], i + 1, k)
        BY <1>11, <2>1, <3>1, <3>3
    <3>5. \A t \in FitsAt(k) : (t >= i <=> t >= i + 1) /\ (t < i <=> t < i + 1)
        BY <1>9, <2>1, <3>2
    <3> QED BY <2>1, <3>4, <3>5, <1>9 DEF ScanEnds
  <2>3. CASE map[i] = "UNUSED" /\ Stop(i).stop = "enough"
    <3>1. Stop(i).at >= i + k /\ Stop(i).at \in i .. BlockCount
          /\ \A j \in i .. Stop(i).at - 1 : map[j] = "UNUSED"
        BY <1>2, <2>1, <2>3 DEF RunEnds
    <3>2. i \in FitsAt(k)
        BY <1>1, <2>1, <3>1 DEF FitsAt
    <3>3. scan[i] = [found |-> "run", start |-> i]
        BY <1>8, <2>1, <2>3
    <3>4. scan[i].found = "run" /\ scan[i].start = i
        BY <3>3
    <3> QED BY <2>1, <3>2, <3>4 DEF ScanEnds
  <2>4. CASE map[i] = "UNUSED" /\ Stop(i).stop = "panic"
    <3>1. /\ BlockCount < i + k
          /\ \A j \in i .. BlockCount - 1 : map[j] = "UNUSED"
        BY <1>2, <2>1, <2>4 DEF RunEnds
    <3>2. LastFree
        BY <1>1, <2>1, <3>1
    <3>3. \A t \in FitsAt(k) : t < i
        BY <1>1, <1>9, <2>1, <3>1
    <3>4. scan[i] = [found |-> "panic", start |-> 0]
        BY <1>8, <2>1, <2>4
    <3>5. scan[i].found = "panic"
        BY <3>4
    <3> QED BY <3>2, <3>3, <3>5 DEF ScanEnds
  <2>5. CASE map[i] = "UNUSED" /\ Stop(i).stop # "enough" /\ Stop(i).stop # "panic"
    <3> DEFINE at == Stop(i).at
    <3>1. at \in i .. BlockCount - 1 /\ map[at] # "UNUSED" /\ at < i + k
        BY <1>2, <1>3, <2>1, <2>5 DEF RunEnds
    <3>2. scan[i] = scan[at + 1]
        BY <1>8, <2>1, <2>5
    <3> HIDE DEF at
    <3>3. \A t \in FitsAt(k) : t >= i => t >= at + 1
      <4> SUFFICES ASSUME NEW t \in FitsAt(k), t >= i, t < at + 1 PROVE FALSE
          BY <1>9, <2>1, <3>1
      <4>1. at \in t .. t + k - 1
          BY <1>9, <2>1, <3>1
      <4> QED BY <1>9, <3>1, <4>1
    <3>4. at + 1 = BlockCount => ~LastFree
        BY <1>1, <2>1, <3>1
    <3>5. ScanEnds(scan[at + 1], at + 1, k)
      <4>1. at + 1 \in i + 1 .. BlockCount
          BY <1>1, <2>1, <3>1
      <4> QED BY <1>11, <3>4, <4>1
    <3>6. \A t \in FitsAt(k) : (t >= i <=> t >= at + 1) /\ (t < at + 1 => t < i)
        BY <1>9, <2>1, <3>1, <3>3
    <3>7. \A x : x >= at + 1 /\ x \in FitsAt(k) => x >= i
        BY <3>6
    <3> QED BY <3>2, <3>5, <3>6, <3>7 DEF ScanEnds
  <2> QED BY <2>2, <2>3, <2>4, <2>5
<1>12. Good(0)
  <2> HIDE DEF Good
  <2> DEFINE S == {i \in D : Good(i)}
  <2>1. BlockCount \in S
      BY <1>1, <1>10
  <2>2. ASSUME NEW i \in 0 .. BlockCount - 1, \A m \in i + 1 .. BlockCount : m \in S
        PROVE  i \in S
      BY <1>1, <1>11, <2>2
  <2>3. 0 .. BlockCount \subseteq S
    <3> HIDE DEF S
    <3> QED BY <1>1, <2>1, <2>2, DownwardInduction
  <2> QED BY <1>1, <2>3
<1> QED BY <1>1, <1>7, <1>12

\* ScanIsFirstFit for every size of the pool: the loops of pool_alloc, on the
\* bytes of any map the pool reaches, do what Pool says they do.
THEOREM PoolScanIsFirstFit == pool_spec => []ScanIsFirstFit
<1>1. ASSUME PoolTypeOK PROVE ScanIsFirstFit
  <2> SUFFICES ASSUME NEW k \in {blocks_needed(n) : n \in HeapRequests}
               PROVE  LET r == Search(Bytes, k)
                      IN  IF FitsAt(k) # {}
                          THEN r.found = "run" /\ FirstFit(k) = {r.start}
                          ELSE r.found = IF map[BlockCount - 1] = "UNUSED"
                                         THEN "panic" ELSE "nullptr"
      BY DEF ScanIsFirstFit
  <2> DEFINE r == Search(Bytes, k)
  <2>1. k \in Nat \ {0}
      BY BlocksNeeded
  <2>2. \A i \in Blocks : pool_get(Bytes, i) = map[i]
      BY <1>1, BytesAreMap DEF PoolTypeOK
  <2>3. ScanEnds(r, 0, k)
      BY <2>1, <2>2, ScanFinds
  <2> HIDE DEF r
  <2>4. \A t \in FitsAt(k) : t \in Nat
      BY DEF FitsAt, Blocks
  <2>5. CASE FitsAt(k) # {}
    <3>1. /\ r.found = "run" /\ r.start \in FitsAt(k)
          /\ \A t \in FitsAt(k) : r.start <= t
        BY <2>3, <2>4, <2>5 DEF ScanEnds
    <3>2. FirstFit(k) = {r.start}
      <4>1. \A s \in FirstFit(k) : s = r.start
          BY <2>4, <3>1 DEF FirstFit
      <4>2. r.start \in FirstFit(k)
          BY <3>1 DEF FirstFit
      <4> QED BY <4>1, <4>2
    <3> QED BY <2>5, <3>1, <3>2 DEF r
  <2>6. CASE FitsAt(k) = {}
    <3>1. r.found = IF map[BlockCount - 1] = "UNUSED" THEN "panic" ELSE "nullptr"
        BY <2>3, <2>6 DEF ScanEnds
    <3> QED BY <2>6, <3>1 DEF r
  <2> QED BY <2>5, <2>6
<1> QED BY <1>1, PoolTypeCorrect, PTL
=============================================================================
