------------------------------ MODULE MCSched ------------------------------
\* The boot threads and two more, in the kernel process or in a second one.
EXTENDS IncrementLoop, TLC

\* Some threads are passed over a number of times before they run.
Priorities == [t \in Tids |-> CASE t = 0 -> 0 [] t = 1 -> 1 [] t = 2 -> 2 [] OTHER -> 0]

\* Memory with the given entries of a hash table, slot by slot, in use.
Memory(entries) ==
    [used |-> [s \in Slots |-> s \in DOMAIN entries],
     keys |-> [s \in Slots |-> IF s \in DOMAIN entries THEN entries[s] ELSE 0],
     data |-> [s \in Slots |-> IF s \in DOMAIN entries THEN 7 ELSE 0],
     item_count |-> 0]

\* Clean memory; an entry with the key of the first thread of the process, in
\* front of it; and so many entries that one more fits in, one of them with
\* that key.
Garbage == {EmptyTable(0), Memory(0 :> 0), Memory(0 :> 9 @@ 1 :> 0 @@ 3 :> 8)}
=============================================================================
