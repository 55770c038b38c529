---------------------------- MODULE MCSchedYield ----------------------------
\* The boot threads and one more; every priority is the default.
EXTENDS SchedYield

Priorities == [t \in Tids |-> 0]

\* The memory of the hash tables happens to be clear.
Clean == {EmptyTable(0)}
=============================================================================
