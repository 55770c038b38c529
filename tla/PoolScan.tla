------------------------------ MODULE PoolScan ------------------------------
(***************************************************************************)
(* The two nested loops of pool_alloc (kernel/sys/pool.cpp), which share   *)
(* the counter i and read the map as it is stored, four blocks to a byte,  *)
(* compared with the meaning Pool gives them.                              *)
(***************************************************************************)
EXTENDS Pool, Integers

\* block_status
Code == [ERROR |-> 0, UNUSED |-> 1, TAIL |-> 2, HEAD |-> 3]

\* The two bits of block index in its byte.
BitOf(index) == <<1, 4, 16, 64>>[(index % 4) + 1]
Field(bytes, index) == (bytes[index \div 4] \div BitOf(index)) % 4

pool_get(bytes, index) == CHOOSE s \in DOMAIN Code : Code[s] = Field(bytes, index)

pool_set(bytes, index, status) ==
    [bytes EXCEPT ![index \div 4] = @ + (Code[status] - Field(bytes, index)) * BitOf(index)]

\* The bytes of the map: pool_construct marks four unused blocks in each, and
\* then one block after the other is set.
ClearByte == Code["UNUSED"] * (1 + 4 + 16 + 64)
Bytes ==
    LET written[n \in 0 .. BlockCount] ==
            IF n = 0 THEN [b \in 0 .. (BlockCount - 1) \div 4 |-> ClearByte]
            ELSE pool_set(written[n - 1], n - 1, map[n - 1])
    IN  written[BlockCount]

\* The inner loop, from block start to block end.
FreeRun(bytes, start, end) ==
    LET run[i \in 0 .. BlockCount] ==
            IF i >= end THEN [stop |-> "enough", at |-> i]
            ELSE IF i = BlockCount THEN [stop |-> "panic", at |-> i]
            ELSE IF pool_get(bytes, i) # "UNUSED" THEN [stop |-> "tosmall", at |-> i]
            ELSE run[i + 1]
    IN  run[start]

\* Mutant of Search: the search resumes one block too late.
SearchSkips(bytes, k) ==
    LET scan[i \in 0 .. BlockCount + 1] ==
            IF i >= BlockCount THEN [found |-> "nullptr", start |-> 0]
            ELSE IF pool_get(bytes, i) # "UNUSED" THEN scan[i + 1]
            ELSE LET r == FreeRun(bytes, i, i + k)
                 IN  IF r.stop = "enough" THEN [found |-> "run", start |-> i]
                     ELSE IF r.stop = "panic" THEN [found |-> "panic", start |-> 0]
                     ELSE scan[r.at + 2]
    IN  scan[0]

\* The outer loop; after a run that is too small it goes on after the used
\* block that ended it.
Search(bytes, k) ==
    LET scan[i \in 0 .. BlockCount] ==
            IF i >= BlockCount THEN [found |-> "nullptr", start |-> 0]
            ELSE IF pool_get(bytes, i) # "UNUSED" THEN scan[i + 1]
            ELSE LET r == FreeRun(bytes, i, i + k)
                 IN  IF r.stop = "enough" THEN [found |-> "run", start |-> i]
                     ELSE IF r.stop = "panic" THEN [found |-> "panic", start |-> 0]
                     ELSE scan[r.at + 1]
    IN  scan[0]

\* On every map the pool can reach and for every request, the loops of
\* pool_alloc, which unpack the map from its bytes, find the first run that is
\* long enough whenever there is one, and fail only when there is none.
ScanIsFirstFit ==
    \A k \in {blocks_needed(n) : n \in HeapRequests} :
        LET r == Search(Bytes, k)
        IN  IF FitsAt(k) # {}
            THEN r.found = "run" /\ FirstFit(k) = {r.start}
            ELSE r.found = IF map[BlockCount - 1] = "UNUSED" THEN "panic" ELSE "nullptr"
=============================================================================
