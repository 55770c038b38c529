-------------------------------- MODULE MCFd --------------------------------
\* Two threads, two files, a pipe, a directory and a path that names nothing.
EXTENDS Fd

\* The second thread is one of the same process or of another.
Assignments == {[t \in Threads |-> "p"], [t \in Threads |-> IF t = "t1" THEN "p" ELSE "q"]}
Nodes == 4 .. 7
NodeKind == [i \in Inodes |-> CASE i \in {4, 5} -> "file" [] i = 6 -> "pipe" [] OTHER -> "dir"]
Size == [i \in Inodes |-> CASE i = 4 -> 3 [] i = 5 -> 1 [] OTHER -> 0]
PathSet == {"motd", "conf", "stdout", "dev", "missing"}
Find == [s \in Paths |-> CASE s = "motd" -> 4 [] s = "conf" -> 5 [] s = "stdout" -> 6
                           [] s = "dev" -> 7 [] OTHER -> NONE]
\* An entry left in memory that names an open file of whoever opened it.
Garbage == [p \in Procs |-> IF p = "p" THEN {<<1, 0>>} ELSE {}]

NoGarbage == [p \in Procs |-> {}]
=============================================================================
