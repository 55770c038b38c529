------------------------------ MODULE FdProofs ------------------------------
(***************************************************************************)
(* For every number of threads, processes, files and descriptors: the two  *)
(* tables of open files agree with each other while any threads open, read *)
(* and close, and a system call that is overtaken by a CLOSE never works   *)
(* on a file that is not its own.                                          *)
(***************************************************************************)
EXTENDS Fd, FiniteSetTheorems, TLAPS

\* There is room for the descriptors that calls of OPEN are about to create.
Creating == {u \in Threads : At(u, "create")}
CountInv ==
    /\ fd_counter + Cardinality(Creating) <= MaxFds
    /\ \A p \in Procs : lfd_counter[p] <= fd_counter

\* Numbers that are not given out yet name nothing.
FreshInv ==
    \A f \in Fds : f >= fd_counter => fd_inode[f] = NONE /\ fd_offset[f] = 0 /\ delivered[f] = 0

\* What the locals l of a system call at a place are, whatever the tables held
\* before they were used.
PlaceOK(place, l) ==
    /\ place = "create" => l.inode \in Inodes
    /\ place \in {"delete", "remove", "file", "offset", "store"} => l.fd \in Fds
    /\ place \in {"offset", "store"} => l.inode \in Inodes
    /\ place = "store" => l.offset \in Offsets

PlaceInv == \A t \in Threads : PlaceOK(pc[t], loc[t])

BaseInv == TypeOK /\ CountInv /\ FreshInv /\ PlaceInv

\* An entry of a descriptor table is of the numbers given out, has the inode
\* that was opened, and no other entry has its descriptor or its open file.
EntryInv ==
    \A p \in Procs : \A x \in fds[p] :
        /\ x[1] \in 0 .. lfd_counter[p] - 1
        /\ x[2] \in 0 .. fd_counter - 1
        /\ fd_inode[x[2]] # NONE => fd_inode[x[2]] = opened[p][x[1]]
        /\ \A q \in Procs : \A y \in fds[q] : x[2] = y[2] <=> (p = q /\ x[1] = y[1])

\* An open file has a descriptor.
OwnedInv == \A f \in Live : \E p \in Procs : \E x \in fds[p] : x[2] = f

\* The descriptor and the open file that a system call of process p holds
\* belong together, now and for ever: numbers are not reused.
Held == {"close", "delete", "remove", "read", "file", "offset", "store", "write"}
HeldOK(place, l, p) ==
    place \in Held /\ l.fd # NONE =>
        /\ l.lfd \in 0 .. lfd_counter[p] - 1
        /\ l.fd \in 0 .. fd_counter - 1
        /\ \A q \in Procs : \A x \in fds[q] : x[2] = l.fd <=> (q = p /\ x[1] = l.lfd)

HeldInv == \A t \in Threads : HeldOK(pc[t], loc[t], tproc[t])

\* The file is closed before its descriptor is removed.
ClosingOK(place, l) == place = "remove" => fd_inode[l.fd] = NONE
ClosingInv == \A t \in Threads : ClosingOK(pc[t], loc[t])

DanglingInv ==
    \A p \in Procs : \A x \in fds[p] :
        \/ fd_inode[x[2]] # NONE
        \/ \E t \in Threads : tproc[t] = p /\ At(t, "remove") /\ loc[t].lfd = x[1]

\* A READ works on the inode that its descriptor was opened for, and stores
\* an offset in that file: the next byte after the ones it returns.
ReadOK(place, l, p) ==
    /\ place \in {"offset", "store"} => l.inode = opened[p][l.lfd]
    /\ place = "store" => l.offset <= FileSize[l.inode]
    /\ place = "store" /\ fd_inode[l.fd] # NONE /\ l.fd \notin shared =>
           l.offset = delivered[l.fd] + l.n
ReadInv == \A t \in Threads : ReadOK(pc[t], loc[t], tproc[t])

OverlapInv ==
    \A t, u \in Threads :
        At(t, "store") /\ At(u, "store") /\ t # u /\ loc[t].fd = loc[u].fd => loc[t].fd \in shared

OffsetInv ==
    \A f \in Live :
        /\ fd_offset[f] <= FileSize[fd_inode[f]]
        /\ f \notin shared => fd_offset[f] = delivered[f]

CleanInv ==
    /\ EntryInv /\ OwnedInv /\ HeldInv /\ ClosingInv /\ DanglingInv
    /\ ReadInv /\ OverlapInv /\ OffsetInv

\* The inductive invariant.
IInv == BaseInv /\ (Clean => CleanInv)

Places == {"user", "create", "fopen", "close", "delete", "remove", "read", "file", "offset",
           "store", "write"}
Locals == [lfd : Fds \cup {NONE}, fd : Int, inode : Inodes \cup {NONE}, n : Nat, offset : Nat]

-----------------------------------------------------------------------------
\* ID_INVALID is no descriptor, no open file and no inode.
LEMMA Ids ==
    /\ NONE \notin Fds /\ NONE \notin Inodes /\ NONE \in Int
    /\ Fds \subseteq Nat /\ 0 \in Fds
    BY FdAssumption DEF Fds, NONE

\* A READ copies no more than there is from the offset on.
LEMMA CopiedBounds ==
    ASSUME NEW n \in Nat, NEW offset \in Nat, NEW size \in Nat
    PROVE  /\ Copied(n, offset, size) \in Nat
           /\ offset <= size => offset + Copied(n, offset, size) <= size
           /\ offset > size => Copied(n, offset, size) = 0
<1>1. CASE n = 0 \/ offset >= size
    BY <1>1 DEF Copied
<1>2. CASE ~(n = 0 \/ offset >= size) /\ n - 1 < size - offset
    BY <1>2 DEF Copied
<1>3. CASE ~(n = 0 \/ offset >= size) /\ ~(n - 1 < size - offset)
    BY <1>3 DEF Copied
<1> QED BY <1>1, <1>2, <1>3

\* Places in a file are numbers, and every file has a first one.
LEMMA OffsetsNat ==
    /\ Offsets \subseteq Nat
    /\ \A i \in Inodes : \A k \in 0 .. FileSize[i] : k \in Offsets
    /\ 0 \in Offsets
<1>1. \A i \in Inodes : FileSize[i] \in Nat
    BY FdAssumption
<1>2. \A i \in Inodes : \A k \in 0 .. FileSize[i] : k \in Offsets
    BY DEF Offsets
<1>3. Offsets \subseteq Nat
  <2> SUFFICES ASSUME NEW k \in Offsets PROVE k \in Nat
    OBVIOUS
  <2>1. PICK i \in Inodes : k \in 0 .. FileSize[i]
    BY DEF Offsets
  <2> QED BY <1>1, <2>1
<1>4. PICK i : i \in Inodes
    BY FdAssumption
<1>5. 0 \in 0 .. FileSize[i]
    BY <1>1, <1>4
<1> QED BY <1>2, <1>3, <1>4, <1>5

\* The call of one thread goes on; the others stay where they are.
LEMMA GotoFacts ==
    ASSUME TypeOK, NEW t \in Threads, NEW place, NEW l, Goto(t, place, l)
    PROVE  /\ pc'[t] = place /\ loc'[t] = l
           /\ \A u \in Threads : u # t => pc'[u] = pc[u] /\ loc'[u] = loc[u]
           /\ \A u \in Threads : u # t => \A s : At(u, s)' <=> At(u, s)
    BY DEF TypeOK, Goto, At

LEMMA IdleLocals == Idle \in Locals
    BY Ids DEF Idle, Locals

\* The number of threads that are about to create a descriptor.
LEMMA CreatingFinite ==
    /\ IsFiniteSet(Creating) /\ Cardinality(Creating) \in Nat
    BY FdAssumption, FS_Subset, FS_CardinalityType DEF Creating

\* A step that changes no table leaves them right.
LEMMA QuietBase ==
    ASSUME BaseInv, NEW t \in Threads, NEW place \in Places, NEW l \in Locals,
           Goto(t, place, l), UNCHANGED <<tables, data>>,
           PlaceOK(place, l),
           fd_counter + Cardinality(Creating') <= MaxFds
    PROVE  BaseInv'
<1>1. /\ UNCHANGED <<tproc, fds, lfd_counter, fd_inode, fd_counter, leftover, opened,
                     fd_offset, delivered, shared>>
    BY DEF tables, data
<1>2. pc' \in [Threads -> Places] /\ loc' \in [Threads -> Locals]
    BY DEF BaseInv, TypeOK, Goto, Places, Locals
<1>3. TypeOK'
    BY <1>1, <1>2 DEF BaseInv, TypeOK, Places, Locals
<1>4. CountInv'
    BY <1>1 DEF BaseInv, CountInv
<1>5. FreshInv'
    BY <1>1 DEF BaseInv, FreshInv
<1>6. PlaceInv'
  <2> SUFFICES ASSUME NEW u \in Threads PROVE PlaceOK(pc'[u], loc'[u])
    BY DEF PlaceInv, PlaceOK
  <2>1. CASE u = t
    BY <2>1, GotoFacts DEF BaseInv
  <2>2. CASE u # t
    BY <2>2, GotoFacts DEF BaseInv, PlaceInv
  <2> QED BY <2>1, <2>2
<1> QED BY <1>3, <1>4, <1>5, <1>6 DEF BaseInv

\* The same, for what holds when the tables were empty at first.
LEMMA QuietClean ==
    ASSUME BaseInv, CleanInv, NEW t \in Threads, NEW place \in Places, NEW l \in Locals,
           Goto(t, place, l), UNCHANGED <<tables, data>>,
           HeldOK(place, l, tproc[t]), ClosingOK(place, l), ReadOK(place, l, tproc[t]),
           pc[t] # "remove", place # "store"
    PROVE  CleanInv'
<1>1. /\ UNCHANGED <<tproc, fds, lfd_counter, fd_inode, fd_counter, leftover, opened,
                     fd_offset, delivered, shared>>
    BY DEF tables, data
<1>2. /\ pc'[t] = place /\ loc'[t] = l
      /\ \A u \in Threads : u # t => pc'[u] = pc[u] /\ loc'[u] = loc[u]
    BY GotoFacts DEF BaseInv
<1>3. EntryInv' /\ OwnedInv' /\ OffsetInv'
    BY <1>1 DEF CleanInv, EntryInv, OwnedInv, OffsetInv, Live
<1>4. ASSUME NEW u \in Threads
      PROVE  /\ HeldOK(pc'[u], loc'[u], tproc[u])
             /\ ClosingOK(pc'[u], loc'[u])
             /\ ReadOK(pc'[u], loc'[u], tproc[u])
  <2>1. CASE u = t
    BY <1>2, <2>1
  <2>2. CASE u # t
    BY <1>2, <2>2 DEF CleanInv, HeldInv, ClosingInv, ReadInv
  <2> QED BY <2>1, <2>2
<1>5. HeldInv'
    BY <1>1, <1>4 DEF HeldInv, HeldOK
<1>6. ClosingInv'
    BY <1>1, <1>4 DEF ClosingInv, ClosingOK
<1>7. ReadInv'
    BY <1>1, <1>4 DEF ReadInv, ReadOK
<1>8. DanglingInv'
    BY <1>1, <1>2 DEF CleanInv, DanglingInv, At
<1>9. OverlapInv'
    BY <1>1, <1>2 DEF CleanInv, OverlapInv, At
<1> QED BY <1>3, <1>5, <1>6, <1>7, <1>8, <1>9 DEF CleanInv

\* A quiet step to or from any place but "create" changes no count.
LEMMA QuietIInv ==
    ASSUME IInv, NEW t \in Threads, NEW place \in Places, NEW l \in Locals,
           Goto(t, place, l), UNCHANGED <<tables, data>>,
           PlaceOK(place, l),
           Clean => HeldOK(place, l, tproc[t]) /\ ClosingOK(place, l) /\ ReadOK(place, l, tproc[t]),
           pc[t] \notin {"create", "remove"}, place \notin {"create", "store"}
    PROVE  IInv'
<1>1. Creating' = Creating
    BY GotoFacts DEF IInv, BaseInv, Creating, At
<1>2. BaseInv'
    BY <1>1, QuietBase DEF IInv, BaseInv, CountInv
<1>3. Clean' <=> Clean
    BY DEF Clean, tables
<1>4. ASSUME Clean PROVE CleanInv'
    BY <1>4, QuietClean DEF IInv
<1> QED BY <1>2, <1>3, <1>4 DEF IInv

\* A thread outside a system call, or that waits for nothing, holds nothing.
LEMMA IdleOK ==
    ASSUME NEW l \in Locals, NEW p, NEW place \in {"user", "create", "fopen"}
    PROVE  HeldOK(place, l, p) /\ ClosingOK(place, l) /\ ReadOK(place, l, p)
    BY DEF HeldOK, ClosingOK, ReadOK, Held

LEMMA ReturnIInv ==
    ASSUME IInv, NEW t \in Threads, Return(t), UNCHANGED <<tables, data>>,
           pc[t] \notin {"create", "remove"}
    PROVE  IInv'
<1>1. PlaceOK("user", Idle) /\ "user" \in Places
    BY DEF PlaceOK, Places
<1> QED BY <1>1, IdleLocals, IdleOK, QuietIInv DEF Return

\* OPEN of a path that cannot be opened.
LEMMA OpenFailsIInv ==
    ASSUME IInv, NEW t \in Threads, NEW path \in Paths,
           open_missing(t, path) \/ open_refused(t, path)
    PROVE  IInv'
<1>1. PICK l \in Locals : Goto(t, "fopen", l)
  <2>1. [Idle EXCEPT !.lfd = 0] \in Locals
    BY Ids DEF Idle, Locals
  <2>2. [Idle EXCEPT !.inode = Lookup[path]] \in Locals
    BY Ids, FdAssumption DEF Idle, Locals
  <2> QED BY <2>1, <2>2 DEF open_missing, open_refused
<1>2. UNCHANGED <<tables, data>> /\ pc[t] = "user"
    BY DEF open_missing, open_refused, At
<1>3. PlaceOK("fopen", l) /\ "fopen" \in Places
    BY DEF PlaceOK, Places
<1> QED BY <1>1, <1>2, <1>3, IdleOK, QuietIInv

\* OPEN finds a file and will create a descriptor.
LEMMA OpenFoundIInv ==
    ASSUME IInv, NEW t \in Threads, NEW path \in Paths, open_found(t, path)
    PROVE  IInv'
<1> DEFINE l == [Idle EXCEPT !.inode = Lookup[path]]
<1>1. /\ Goto(t, "create", l) /\ pc[t] = "user" /\ UNCHANGED <<tables, data>>
      /\ fd_counter + Cardinality(Creating) < MaxFds
    BY DEF open_found, At, Creating
<1>2. Lookup[path] \in Inodes
    BY FdAssumption DEF open_found, Opens
<1>3. l \in Locals /\ l.inode = Lookup[path]
    BY <1>2, Ids DEF Idle, Locals
<1> HIDE DEF l
<1>4. Creating' = Creating \cup {t} /\ t \notin Creating
    BY <1>1, GotoFacts DEF IInv, BaseInv, Creating, At
<1>5. fd_counter + Cardinality(Creating') <= MaxFds
  <2>1. Cardinality(Creating') = Cardinality(Creating) + 1
    BY <1>4, CreatingFinite, FS_AddElement
  <2>2. fd_counter \in Int /\ MaxFds \in Int
    BY FdAssumption DEF IInv, BaseInv, TypeOK
  <2> QED BY <1>1, <2>1, <2>2, CreatingFinite
<1>6. PlaceOK("create", l) /\ "create" \in Places
    BY <1>2, <1>3 DEF PlaceOK, Places
<1>7. BaseInv'
    BY <1>1, <1>3, <1>5, <1>6, QuietBase DEF IInv
<1>8. Clean' <=> Clean
    BY <1>1 DEF Clean, tables
<1>9. ASSUME Clean PROVE CleanInv'
    BY <1>1, <1>3, <1>6, <1>9, IdleOK, QuietClean DEF IInv
<1> QED BY <1>7, <1>8, <1>9 DEF IInv

\* CLOSE, READ and WRITE find the open file of a descriptor, or none.
LEMMA LookupIInv ==
    ASSUME IInv, NEW t \in Threads, NEW lfd \in Fds \cup {NONE}, NEW n \in Nat,
           NEW place \in {"close", "read", "write"}, lookup_fd(t, lfd, n, place)
    PROVE  IInv'
<1>1. PICK f \in get_fd(tproc[t], lfd) :
          Goto(t, place, [Idle EXCEPT !.lfd = lfd, !.fd = f, !.n = n])
    BY DEF lookup_fd, get_current
<1>2. UNCHANGED <<tables, data>> /\ pc[t] = "user"
    BY DEF lookup_fd, At
<1>3. tproc[t] \in Procs /\ fds \in [Procs -> SUBSET (Int \X Int)]
    BY DEF IInv, BaseInv, TypeOK
<1>4. f \in Int /\ (f # NONE => \E x \in fds[tproc[t]] : x[1] = lfd /\ x[2] = f)
    BY <1>1, <1>3, Ids DEF get_fd
<1> DEFINE l == [Idle EXCEPT !.lfd = lfd, !.fd = f, !.n = n]
<1>5. l \in Locals /\ l.lfd = lfd /\ l.fd = f
    BY <1>4, Ids DEF Idle, Locals
<1> HIDE DEF l
<1>6. PlaceOK(place, l) /\ place \in Places
    BY DEF PlaceOK, Places
<1>7. ASSUME Clean
      PROVE  HeldOK(place, l, tproc[t]) /\ ClosingOK(place, l) /\ ReadOK(place, l, tproc[t])
  <2>1. ClosingOK(place, l) /\ ReadOK(place, l, tproc[t])
    BY DEF ClosingOK, ReadOK
  <2>2. ASSUME f # NONE PROVE HeldOK(place, l, tproc[t])
    <3>1. PICK x \in fds[tproc[t]] : x[1] = lfd /\ x[2] = f
        BY <1>4, <2>2
    <3>2. /\ x[1] \in 0 .. lfd_counter[tproc[t]] - 1
          /\ x[2] \in 0 .. fd_counter - 1
          /\ \A q \in Procs : \A y \in fds[q] : x[2] = y[2] <=> (tproc[t] = q /\ x[1] = y[1])
        BY <1>3, <1>7 DEF IInv, CleanInv, EntryInv
    <3> QED BY <1>5, <3>1, <3>2 DEF HeldOK
  <2>3. ASSUME f = NONE PROVE HeldOK(place, l, tproc[t])
    BY <1>5, <2>3 DEF HeldOK
  <2> QED BY <2>1, <2>2, <2>3
<1> QED BY <1>1, <1>2, <1>5, <1>6, <1>7, QuietIInv DEF l

\* CLOSE finds the file open, READ finds it open.
LEMMA CheckIInv ==
    ASSUME IInv, NEW t \in Threads, close_check(t) \/ read_check(t)
    PROVE  IInv'
<1>1. /\ pc[t] \in {"close", "read"} /\ UNCHANGED <<tables, data>>
      /\ \/ Return(t)
         \/ \E place \in {"delete", "file"} :
                Goto(t, place, loc[t]) /\ get_inode(loc[t].fd) # NONE
    BY DEF close_check, read_check, At, Opens
<1>2. CASE Return(t)
    BY <1>1, <1>2, ReturnIInv
<1>3. ASSUME NEW place \in {"delete", "file"}, Goto(t, place, loc[t]),
             get_inode(loc[t].fd) # NONE
      PROVE  IInv'
  <2>1. loc[t] \in Locals /\ loc[t].fd \in Fds
    BY <1>3 DEF get_inode, IInv, BaseInv, TypeOK, Locals
  <2>2. PlaceOK(place, loc[t]) /\ place \in Places
    BY <2>1 DEF PlaceOK, Places
  <2>3. ASSUME Clean
        PROVE  /\ HeldOK(place, loc[t], tproc[t]) /\ ClosingOK(place, loc[t])
               /\ ReadOK(place, loc[t], tproc[t])
    <3>1. HeldOK(pc[t], loc[t], tproc[t]) /\ pc[t] \in Held
        BY <1>1, <2>3 DEF IInv, CleanInv, HeldInv, Held
    <3> QED BY <3>1 DEF HeldOK, ClosingOK, ReadOK
  <2> QED BY <1>1, <1>3, <2>1, <2>2, <2>3, QuietIInv
<1> QED BY <1>1, <1>2, <1>3

\* The file of a descriptor that is open has the inode it was opened for.
LEMMA OpenIsOwn ==
    ASSUME BaseInv, CleanInv, NEW t \in Threads, pc[t] \in Held,
           loc[t].fd \in Fds, fd_inode[loc[t].fd] # NONE
    PROVE  /\ fd_inode[loc[t].fd] = opened[tproc[t]][loc[t].lfd]
           /\ loc[t].lfd \in Fds
           /\ <<loc[t].lfd, loc[t].fd>> \in fds[tproc[t]]
<1>1. PICK p \in Procs : \E x \in fds[p] : x[2] = loc[t].fd
    BY DEF CleanInv, OwnedInv, Live
<1>2. PICK x \in fds[p] : x[2] = loc[t].fd
    BY <1>1
<1>3. loc[t].fd # NONE
    BY Ids
<1>4. p = tproc[t] /\ x[1] = loc[t].lfd
    BY <1>2, <1>3 DEF CleanInv, HeldInv, HeldOK
<1>5. x = <<loc[t].lfd, loc[t].fd>>
    BY <1>2, <1>4 DEF BaseInv, TypeOK
<1>6. fd_inode[loc[t].fd] = opened[p][loc[t].lfd]
    BY <1>2, <1>4 DEF CleanInv, EntryInv
<1>7. loc[t].lfd \in Fds
  <2>1. loc[t].lfd \in 0 .. lfd_counter[p] - 1 /\ p \in Procs
    BY <1>3, <1>4 DEF CleanInv, HeldInv, HeldOK
  <2>2. lfd_counter[p] \in 0 .. MaxFds
    BY <2>1 DEF BaseInv, TypeOK
  <2> QED BY <2>1, <2>2, FdAssumption DEF Fds
<1> QED BY <1>2, <1>4, <1>5, <1>6, <1>7

\* initrd_read_call finds the file, or it was closed.
LEMMA ReadHeaderIInv ==
    ASSUME IInv, NEW t \in Threads, read_header(t)
    PROVE  IInv'
<1> DEFINE i == get_inode(loc[t].fd)
           l == [loc[t] EXCEPT !.inode = i]
<1>1. /\ pc[t] = "file" /\ UNCHANGED <<tables, data>>
      /\ IF i # NONE THEN Goto(t, "offset", l) ELSE Return(t)
    BY DEF read_header, At
<1>2. CASE i = NONE
    BY <1>1, <1>2, ReturnIInv
<1>3. CASE i # NONE
  <2>1. loc[t] \in Locals /\ loc[t].fd \in Fds /\ i = fd_inode[loc[t].fd] /\ i \in Inodes
    BY <1>3 DEF get_inode, IInv, BaseInv, TypeOK, Locals
  <2>2. /\ l \in Locals /\ l.fd = loc[t].fd /\ l.lfd = loc[t].lfd /\ l.inode = i
    BY <2>1 DEF Locals
  <2> HIDE DEF l
  <2>3. PlaceOK("offset", l) /\ "offset" \in Places
    BY <2>1, <2>2 DEF PlaceOK, Places
  <2>4. ASSUME Clean
        PROVE  HeldOK("offset", l, tproc[t]) /\ ClosingOK("offset", l) /\ ReadOK("offset", l, tproc[t])
    <3>1. HeldOK(pc[t], loc[t], tproc[t]) /\ pc[t] \in Held
        BY <1>1, <2>4 DEF IInv, CleanInv, HeldInv, Held
    <3>2. i = opened[tproc[t]][loc[t].lfd]
        BY <1>3, <2>1, <2>4, <3>1, OpenIsOwn DEF IInv
    <3> QED BY <2>2, <3>1, <3>2 DEF HeldOK, ClosingOK, ReadOK, Held
  <2> QED BY <1>1, <1>3, <2>2, <2>3, <2>4, QuietIInv
<1> QED BY <1>2, <1>3

-----------------------------------------------------------------------------
\* A new descriptor and a new open file: both numbers are fresh, so nothing
\* that any call holds is about them.
LEMMA CreateIInv == ASSUME IInv, NEW t \in Threads, create_fd(t) PROVE IInv'
<1> USE Ids
<1> DEFINE p == tproc[t]
           k == lfd_counter[p]
           g == fd_counter
           i == loc[t].inode
           l == [Idle EXCEPT !.lfd = k, !.inode = i]
<1>1. /\ pc[t] = "create"
      /\ lfd_counter' = [lfd_counter EXCEPT ![p] = k + 1]
      /\ fd_counter' = g + 1
      /\ fd_inode' = [fd_inode EXCEPT ![g] = i]
      /\ fds' = [fds EXCEPT ![p] = @ \cup {<<k, g>>}]
      /\ opened' = [opened EXCEPT ![p][k] = i]
      /\ Goto(t, "fopen", l)
      /\ UNCHANGED <<tproc, leftover, fd_offset, delivered, shared>>
    BY DEF create_fd, vfs_create_fd, get_current, At, data
<1>2. TypeOK /\ p \in Procs /\ i \in Inodes /\ i # NONE /\ g \in Nat
    BY <1>1 DEF IInv, BaseInv, TypeOK, PlaceInv, PlaceOK
<1>3. t \in Creating /\ Creating' = Creating \ {t}
    BY <1>1, GotoFacts DEF IInv, BaseInv, Creating, At
<1>4. /\ Cardinality(Creating') = Cardinality(Creating) - 1
      /\ Cardinality(Creating) \in Nat
    BY <1>3, CreatingFinite, FS_RemoveElement
<1>5. Cardinality(Creating) >= 1
  <2>1. Cardinality(Creating') \in Nat
    BY <1>3, CreatingFinite, FS_Subset, FS_CardinalityType
  <2> QED BY <1>4, <2>1
<1>6. g < MaxFds /\ g \in Fds /\ k \in Fds /\ k <= g /\ k \in Nat
  <2>1. g + Cardinality(Creating) <= MaxFds /\ k <= g /\ k \in 0 .. MaxFds
    BY <1>2 DEF IInv, BaseInv, CountInv, TypeOK
  <2> QED BY <1>2, <1>4, <1>5, <2>1, FdAssumption DEF Fds
<1>7. l \in Locals
    BY <1>2, <1>6 DEF Idle, Locals
<1> HIDE DEF p, k, g, i, l
<1>8. /\ lfd_counter'[p] = k + 1 /\ \A q \in Procs : q # p => lfd_counter'[q] = lfd_counter[q]
      /\ fd_inode'[g] = i /\ \A f \in Fds : f # g => fd_inode'[f] = fd_inode[f]
      /\ fds'[p] = fds[p] \cup {<<k, g>>} /\ \A q \in Procs : q # p => fds'[q] = fds[q]
      /\ opened'[p][k] = i
      /\ \A q \in Procs, m \in Fds : ~(q = p /\ m = k) => opened'[q][m] = opened[q][m]
      /\ \A q \in Procs : lfd_counter[q] \in Nat
      /\ lfd_counter[p] = k
    BY <1>1, <1>2, <1>6 DEF TypeOK, k
<1>9. TypeOK'
  <2>1. pc' \in [Threads -> Places] /\ loc' \in [Threads -> Locals]
    BY <1>1, <1>2, <1>7 DEF TypeOK, Goto, Places, Locals
  <2>2. fds' \in [Procs -> SUBSET (Int \X Int)]
    <3>1. fds[p] \cup {<<k, g>>} \in SUBSET (Int \X Int)
        BY <1>2, <1>6 DEF TypeOK
    <3> QED BY <1>1, <1>2, <3>1 DEF TypeOK
  <2>3. /\ lfd_counter' \in [Procs -> 0 .. MaxFds]
        /\ fd_counter' \in 0 .. MaxFds
        /\ fd_inode' \in [Fds -> Inodes \cup {NONE}]
    BY <1>1, <1>2, <1>6, FdAssumption DEF TypeOK
  <2>4. opened' \in [Procs -> [Fds -> Inodes \cup {NONE}]]
    BY <1>1, <1>2, <1>6 DEF TypeOK
  <2> QED BY <1>1, <1>2, <2>1, <2>2, <2>3, <2>4 DEF TypeOK, Places, Locals
<1>10. CountInv'
  <2>1. fd_counter' + Cardinality(Creating') <= MaxFds
    BY <1>1, <1>2, <1>4, FdAssumption DEF IInv, BaseInv, CountInv, g
  <2>2. \A q \in Procs : lfd_counter'[q] <= fd_counter'
    BY <1>1, <1>2, <1>6, <1>8 DEF IInv, BaseInv, CountInv, g
  <2> QED BY <2>1, <2>2 DEF CountInv
<1>11. FreshInv'
    BY <1>1, <1>2, <1>8 DEF IInv, BaseInv, FreshInv, g
<1>12. ASSUME NEW u \in Threads
       PROVE  \/ u # t /\ pc'[u] = pc[u] /\ loc'[u] = loc[u]
              \/ u = t /\ pc'[u] = "fopen" /\ loc'[u] = l
    BY <1>1, <1>2, GotoFacts
<1>13. PlaceInv'
    BY <1>12 DEF IInv, BaseInv, PlaceInv, PlaceOK
<1>14. Clean' <=> Clean
    BY <1>1 DEF Clean
<1>15. ASSUME Clean PROVE CleanInv'
  <2>0. CleanInv
    BY <1>15 DEF IInv
  <2>1. ASSUME NEW q \in Procs, NEW x \in fds[q]
        PROVE  /\ x[1] \in 0 .. lfd_counter[q] - 1 /\ x[1] \in Fds
               /\ x[2] \in 0 .. fd_counter - 1 /\ x[2] \in Fds /\ x[2] # g
               /\ (q = p => x[1] # k)
    <3>1. x[1] \in 0 .. lfd_counter[q] - 1 /\ x[2] \in 0 .. fd_counter - 1
        BY <2>0, <2>1 DEF CleanInv, EntryInv
    <3>2. lfd_counter[q] \in 0 .. MaxFds /\ fd_counter \in 0 .. MaxFds
        BY <1>2, <2>1 DEF TypeOK
    <3> QED BY <1>8, <3>1, <3>2, FdAssumption DEF Fds, g
  <2>2. ASSUME NEW q \in Procs, NEW x \in fds'[q]
        PROVE  x \in fds[q] \/ (q = p /\ x = <<k, g>>)
    BY <1>2, <1>8, <2>2
  <2>3. EntryInv'
    <3> SUFFICES ASSUME NEW q \in Procs, NEW x \in fds'[q]
                 PROVE  /\ x[1] \in 0 .. lfd_counter'[q] - 1
                        /\ x[2] \in 0 .. fd_counter' - 1
                        /\ fd_inode'[x[2]] # NONE => fd_inode'[x[2]] = opened'[q][x[1]]
                        /\ \A r \in Procs : \A y \in fds'[r] :
                               x[2] = y[2] <=> (q = r /\ x[1] = y[1])
        BY DEF EntryInv
    <3>1. x[1] \in 0 .. lfd_counter'[q] - 1 /\ x[2] \in 0 .. fd_counter' - 1
      <4>1. CASE x \in fds[q]
        BY <1>1, <1>2, <1>6, <1>8, <2>1, <4>1 DEF g
      <4>2. CASE q = p /\ x = <<k, g>>
        BY <1>1, <1>2, <1>6, <1>8, <4>2
      <4> QED BY <2>2, <4>1, <4>2
    <3>2. fd_inode'[x[2]] # NONE => fd_inode'[x[2]] = opened'[q][x[1]]
      <4>1. CASE x \in fds[q]
        <5>1. fd_inode'[x[2]] = fd_inode[x[2]] /\ opened'[q][x[1]] = opened[q][x[1]]
            BY <1>8, <2>1, <4>1
        <5> QED BY <2>0, <4>1, <5>1 DEF CleanInv, EntryInv
      <4>2. CASE q = p /\ x = <<k, g>>
        BY <1>8, <4>2
      <4> QED BY <2>2, <4>1, <4>2
    <3>3. ASSUME NEW r \in Procs, NEW y \in fds'[r]
          PROVE  x[2] = y[2] <=> (q = r /\ x[1] = y[1])
      <4>1. CASE x \in fds[q] /\ y \in fds[r]
        BY <2>0, <4>1 DEF CleanInv, EntryInv
      <4>2. CASE x \in fds[q] /\ r = p /\ y = <<k, g>>
        BY <2>1, <4>2
      <4>3. CASE q = p /\ x = <<k, g>> /\ y \in fds[r]
        BY <2>1, <4>3
      <4>4. CASE q = p /\ x = <<k, g>> /\ r = p /\ y = <<k, g>>
        BY <4>4
      <4> QED BY <2>2, <3>3, <4>1, <4>2, <4>3, <4>4
    <3> QED BY <3>1, <3>2, <3>3
  <2>4. OwnedInv'
    <3> SUFFICES ASSUME NEW f \in Fds, fd_inode'[f] # NONE
                 PROVE  \E q \in Procs : \E x \in fds'[q] : x[2] = f
        BY DEF OwnedInv, Live
    <3>1. CASE f = g
      <4>1. <<k, g>> \in fds'[p] /\ <<k, g>>[2] = f
        BY <1>8, <3>1
      <4> QED BY <1>2, <4>1
    <3>2. CASE f # g
      <4>1. PICK q \in Procs : \E x \in fds[q] : x[2] = f
        BY <1>8, <2>0, <3>2 DEF CleanInv, OwnedInv, Live
      <4>2. fds[q] \subseteq fds'[q]
        BY <1>8
      <4> QED BY <4>1, <4>2
    <3> QED BY <3>1, <3>2
  <2>5. HeldInv'
    <3> SUFFICES ASSUME NEW u \in Threads, pc'[u] \in Held, loc'[u].fd # NONE
                 PROVE  /\ loc'[u].lfd \in 0 .. lfd_counter'[tproc'[u]] - 1
                        /\ loc'[u].fd \in 0 .. fd_counter' - 1
                        /\ \A q \in Procs : \A x \in fds'[q] :
                               x[2] = loc'[u].fd <=> (q = tproc'[u] /\ x[1] = loc'[u].lfd)
        BY DEF HeldInv, HeldOK
    <3>1. pc'[u] = pc[u] /\ loc'[u] = loc[u] /\ tproc'[u] = tproc[u] /\ tproc[u] \in Procs
        BY <1>1, <1>2, <1>12 DEF Held, TypeOK
    <3>2. /\ loc[u].lfd \in 0 .. lfd_counter[tproc[u]] - 1
          /\ loc[u].fd \in 0 .. fd_counter - 1
          /\ \A q \in Procs : \A x \in fds[q] :
                 x[2] = loc[u].fd <=> (q = tproc[u] /\ x[1] = loc[u].lfd)
        BY <2>0, <3>1 DEF CleanInv, HeldInv, HeldOK
    <3>3. loc[u].fd # g /\ (tproc[u] = p => loc[u].lfd # k)
        BY <1>2, <1>6, <1>8, <3>2 DEF g
    <3>4. loc[u].lfd \in 0 .. lfd_counter'[tproc[u]] - 1 /\ loc[u].fd \in 0 .. fd_counter' - 1
        BY <1>1, <1>2, <1>6, <1>8, <3>1, <3>2 DEF g
    <3>5. ASSUME NEW q \in Procs, NEW x \in fds'[q]
          PROVE  x[2] = loc[u].fd <=> (q = tproc[u] /\ x[1] = loc[u].lfd)
      <4>1. CASE x \in fds[q]
        BY <3>2, <4>1
      <4>2. CASE q = p /\ x = <<k, g>>
        BY <3>3, <4>2
      <4> QED BY <2>2, <3>5, <4>1, <4>2
    <3> QED BY <3>1, <3>4, <3>5
  <2>6. ASSUME NEW u \in Threads, pc[u] \in Held, loc[u].fd \in Fds
        PROVE  /\ loc[u].fd # g /\ loc[u].fd # NONE
               /\ ~(tproc[u] = p /\ loc[u].lfd = k) /\ loc[u].lfd \in Fds /\ tproc[u] \in Procs
    <3>1. loc[u].fd # NONE /\ tproc[u] \in Procs
        BY <1>2, <2>6 DEF TypeOK
    <3>2. /\ loc[u].lfd \in 0 .. lfd_counter[tproc[u]] - 1
          /\ loc[u].fd \in 0 .. fd_counter - 1
        BY <2>0, <2>6, <3>1 DEF CleanInv, HeldInv, HeldOK
    <3>3. lfd_counter[tproc[u]] \in 0 .. MaxFds
        BY <1>2, <3>1 DEF TypeOK
    <3> QED BY <1>2, <1>6, <1>8, <3>1, <3>2, <3>3, FdAssumption DEF g, Fds
  <2>7. ClosingInv'
    <3> SUFFICES ASSUME NEW u \in Threads, pc'[u] = "remove"
                 PROVE  fd_inode'[loc'[u].fd] = NONE
        BY DEF ClosingInv, ClosingOK
    <3>1. /\ pc[u] = "remove" /\ loc'[u] = loc[u]
        BY <1>12
    <3>2. loc[u].fd \in Fds /\ pc[u] \in Held
        BY <3>1 DEF IInv, BaseInv, PlaceInv, PlaceOK, Held
    <3>3. fd_inode[loc[u].fd] = NONE
        BY <2>0, <3>1 DEF CleanInv, ClosingInv, ClosingOK
    <3> QED BY ZenonT(40), <1>8, <2>6, <3>1, <3>2, <3>3
  <2>8. DanglingInv'
    <3> SUFFICES ASSUME NEW q \in Procs, NEW x \in fds'[q], fd_inode'[x[2]] = NONE
                 PROVE  \E u \in Threads : tproc'[u] = q /\ At(u, "remove")' /\ loc'[u].lfd = x[1]
        BY DEF DanglingInv
    <3>1. x \in fds[q]
        BY <1>2, <1>8, <2>2
    <3>2. fd_inode[x[2]] = NONE
        BY <1>8, <2>1, <3>1
    <3>3. PICK u \in Threads : tproc[u] = q /\ pc[u] = "remove" /\ loc[u].lfd = x[1]
        BY <2>0, <3>1, <3>2 DEF CleanInv, DanglingInv, At
    <3>4. u # t
        BY <1>1, <3>3
    <3> QED BY <1>1, <1>12, <3>3, <3>4 DEF At
  <2>9. ReadInv'
    <3> SUFFICES ASSUME NEW u \in Threads, pc'[u] \in {"offset", "store"}
                 PROVE  ReadOK(pc[u], loc[u], tproc[u])'
        BY DEF ReadInv, ReadOK
    <3>1. pc'[u] = pc[u] /\ loc'[u] = loc[u] /\ tproc'[u] = tproc[u] /\ pc[u] \in Held
        BY <1>1, <1>12 DEF Held
    <3>2. loc[u].fd \in Fds
        BY <3>1 DEF IInv, BaseInv, PlaceInv, PlaceOK
    <3>3. /\ fd_inode'[loc[u].fd] = fd_inode[loc[u].fd]
          /\ opened'[tproc[u]][loc[u].lfd] = opened[tproc[u]][loc[u].lfd]
        BY <1>8, <2>6, <3>1, <3>2
    <3>4. ReadOK(pc[u], loc[u], tproc[u])
        BY <2>0 DEF CleanInv, ReadInv
    <3> QED BY <1>1, <3>1, <3>3, <3>4 DEF ReadOK
  <2>10. OverlapInv'
    BY <1>1, <1>12, <2>0 DEF CleanInv, OverlapInv, At
  <2>11. OffsetInv'
    <3> SUFFICES ASSUME NEW f \in Fds, fd_inode'[f] # NONE
                 PROVE  /\ fd_offset'[f] <= FileSize[fd_inode'[f]]
                        /\ f \notin shared' => fd_offset'[f] = delivered'[f]
        BY DEF OffsetInv, Live
    <3>1. CASE f = g
      <4>1. fd_offset[f] = 0 /\ delivered[f] = 0
        BY <1>2, <3>1 DEF IInv, BaseInv, FreshInv, g
      <4>2. FileSize[i] \in Nat
        BY <1>2, FdAssumption
      <4> QED BY <1>1, <1>8, <3>1, <4>1, <4>2
    <3>2. CASE f # g
        BY <1>1, <1>8, <2>0, <3>2 DEF CleanInv, OffsetInv, Live
    <3> QED BY <3>1, <3>2
  <2> QED BY <2>3, <2>4, <2>5, <2>7, <2>8, <2>9, <2>10, <2>11 DEF CleanInv
<1> QED BY <1>9, <1>10, <1>11, <1>13, <1>14, <1>15 DEF IInv, BaseInv

-----------------------------------------------------------------------------
\* CLOSE takes the open file out of the table: calls that still hold it find
\* it closed, and the thread that closed it is now about to remove its
\* descriptor.
LEMMA CloseDeleteIInv == ASSUME IInv, NEW t \in Threads, close_delete(t) PROVE IInv'
<1> USE Ids
<1> DEFINE g == loc[t].fd
<1>1. /\ pc[t] = "delete"
      /\ fd_inode' = [fd_inode EXCEPT ![g] = NONE]
      /\ fd_offset' = [fd_offset EXCEPT ![g] = 0]
      /\ delivered' = [delivered EXCEPT ![g] = 0]
      /\ Goto(t, "remove", loc[t])
      /\ UNCHANGED <<tproc, fds, lfd_counter, fd_counter, leftover, opened, shared>>
    BY DEF close_delete, At
<1>2. TypeOK /\ g \in Fds /\ loc[t] \in Locals
    BY <1>1 DEF IInv, BaseInv, TypeOK, PlaceInv, PlaceOK, Locals
<1>3. /\ pc'[t] = "remove"
      /\ \A u \in Threads : loc'[u] = loc[u] /\ (u # t => pc'[u] = pc[u])
    BY <1>1, <1>2, GotoFacts
<1> HIDE DEF g
<1>4. /\ fd_inode'[g] = NONE /\ fd_offset'[g] = 0 /\ delivered'[g] = 0
      /\ \A f \in Fds : f # g => /\ fd_inode'[f] = fd_inode[f] /\ fd_offset'[f] = fd_offset[f]
                                 /\ delivered'[f] = delivered[f]
    BY <1>1, <1>2 DEF TypeOK
<1>5. TypeOK'
  <2>1. pc' \in [Threads -> Places] /\ loc' \in [Threads -> Locals]
    BY <1>1, <1>2 DEF TypeOK, Goto, Places, Locals
  <2>2. /\ fd_inode' \in [Fds -> Inodes \cup {NONE}]
        /\ fd_offset' \in [Fds -> Offsets] /\ delivered' \in [Fds -> Nat]
    BY <1>1, <1>2, OffsetsNat DEF TypeOK
  <2> QED BY <1>1, <1>2, <2>1, <2>2 DEF TypeOK, Places, Locals
<1>6. CountInv'
  <2>1. Creating' = Creating
    BY <1>1, <1>3 DEF Creating, At
  <2> QED BY <1>1, <2>1 DEF IInv, BaseInv, CountInv
<1>7. FreshInv'
    BY <1>1, <1>4 DEF IInv, BaseInv, FreshInv
<1>8. PlaceInv'
    BY <1>1, <1>2, <1>3 DEF IInv, BaseInv, PlaceInv, PlaceOK, g
<1>9. Clean' <=> Clean
    BY <1>1 DEF Clean
<1>10. ASSUME Clean PROVE CleanInv'
  <2>0. CleanInv
    BY <1>10 DEF IInv
  <2>1. ASSUME NEW q \in Procs, NEW x \in fds[q] PROVE x[2] \in Fds
    <3>1. x[2] \in 0 .. fd_counter - 1 /\ fd_counter \in 0 .. MaxFds
        BY <1>2, <2>0, <2>1 DEF CleanInv, EntryInv, TypeOK
    <3> QED BY <3>1, FdAssumption DEF Fds
  <2>2. EntryInv'
    BY <1>1, <1>4, <2>0, <2>1 DEF CleanInv, EntryInv
  <2>3. OwnedInv'
    BY <1>1, <1>4, <2>0 DEF CleanInv, OwnedInv, Live
  <2>4. ASSUME NEW u \in Threads PROVE pc'[u] \in Held => pc[u] \in Held
    BY <1>1, <1>3 DEF Held
  <2>5. HeldInv'
    BY <1>1, <1>3, <2>0, <2>4 DEF CleanInv, HeldInv, HeldOK
  <2>6. ClosingInv'
    <3> SUFFICES ASSUME NEW u \in Threads, pc'[u] = "remove"
                 PROVE  fd_inode'[loc[u].fd] = NONE
        BY <1>3 DEF ClosingInv, ClosingOK
    <3>1. CASE u = t
        BY <1>4, <3>1 DEF g
    <3>2. CASE u # t
      <4>1. pc[u] = "remove" /\ loc[u].fd \in Fds
        BY <1>3, <3>2 DEF IInv, BaseInv, PlaceInv, PlaceOK
      <4> QED BY <1>4, <2>0, <4>1 DEF CleanInv, ClosingInv, ClosingOK
    <3> QED BY <3>1, <3>2
  <2>7. DanglingInv'
    <3> SUFFICES ASSUME NEW q \in Procs, NEW x \in fds[q], fd_inode'[x[2]] = NONE
                 PROVE  \E u \in Threads : tproc[u] = q /\ pc'[u] = "remove" /\ loc[u].lfd = x[1]
        BY <1>1, <1>3 DEF DanglingInv, At
    <3>1. CASE x[2] = g
      <4>1. q = tproc[t] /\ x[1] = loc[t].lfd
        BY <1>1, <1>2, <2>0, <3>1 DEF CleanInv, HeldInv, HeldOK, Held, g
      <4> QED BY <1>3, <4>1
    <3>2. CASE x[2] # g
      <4>1. fd_inode[x[2]] = NONE
        BY <1>4, <2>1, <3>2
      <4>2. PICK u \in Threads : tproc[u] = q /\ pc[u] = "remove" /\ loc[u].lfd = x[1]
        BY <2>0, <4>1 DEF CleanInv, DanglingInv, At
      <4> QED BY <1>1, <1>3, <4>2
    <3> QED BY <3>1, <3>2
  <2>8. ReadInv'
    <3> SUFFICES ASSUME NEW u \in Threads, pc'[u] \in {"offset", "store"}
                 PROVE  ReadOK(pc[u], loc[u], tproc[u])'
        BY DEF ReadInv, ReadOK
    <3>1. pc'[u] = pc[u] /\ loc'[u] = loc[u] /\ tproc'[u] = tproc[u] /\ loc[u].fd \in Fds
        BY <1>1, <1>3 DEF IInv, BaseInv, PlaceInv, PlaceOK
    <3>2. ReadOK(pc[u], loc[u], tproc[u])
        BY <2>0 DEF CleanInv, ReadInv
    <3> QED BY <1>1, <1>4, <3>1, <3>2 DEF ReadOK
  <2>9. OverlapInv'
    BY <1>1, <1>3, <2>0 DEF CleanInv, OverlapInv, At
  <2>10. OffsetInv'
    BY <1>1, <1>4, <2>0 DEF CleanInv, OffsetInv, Live
  <2> QED BY <2>2, <2>3, <2>5, <2>6, <2>7, <2>8, <2>9, <2>10 DEF CleanInv
<1> QED BY <1>5, <1>6, <1>7, <1>8, <1>9, <1>10 DEF IInv, BaseInv

\* CLOSE removes the descriptor.  If the table was empty at first there is one
\* entry with its number, the one whose file it closed; a second CLOSE of the
\* same descriptor finds none and removes none.
LEMMA CloseRemoveIInv == ASSUME IInv, NEW t \in Threads, close_remove(t) PROVE IInv'
<1> USE Ids
<1> DEFINE p == tproc[t]
           found == {x \in fds[p] : x[1] = loc[t].lfd}
<1>1. /\ pc[t] = "remove" /\ Goto(t, "user", Idle)
      /\ \/ found = {} /\ fds' = fds
         \/ \E x \in found : fds' = [fds EXCEPT ![p] = @ \ {x}]
      /\ UNCHANGED <<tproc, lfd_counter, fd_inode, fd_counter, leftover, opened,
                     fd_offset, delivered, shared>>
    BY DEF close_remove, get_current, At, Return, data
<1>2. TypeOK /\ p \in Procs /\ loc[t].fd \in Fds
    BY <1>1 DEF IInv, BaseInv, TypeOK, PlaceInv, PlaceOK
<1>3. /\ pc'[t] = "user" /\ loc'[t] = Idle
      /\ \A u \in Threads : u # t => pc'[u] = pc[u] /\ loc'[u] = loc[u]
    BY <1>1, <1>2, GotoFacts
<1>4. \/ fds' = fds
      \/ \E x \in fds[p] : fds' = [fds EXCEPT ![p] = fds[p] \ {x}]
    BY <1>1
<1>5. fds' \in [Procs -> SUBSET (Int \X Int)] /\ \A q \in Procs : fds'[q] \subseteq fds[q]
  <2>1. CASE fds' = fds
    BY <1>2, <2>1 DEF TypeOK
  <2>2. ASSUME NEW x \in fds[p], fds' = [fds EXCEPT ![p] = fds[p] \ {x}]
        PROVE  fds' \in [Procs -> SUBSET (Int \X Int)] /\ \A q \in Procs : fds'[q] \subseteq fds[q]
    <3>1. fds[p] \ {x} \in SUBSET (Int \X Int)
        BY <1>2 DEF TypeOK
    <3>2. \A q \in Procs : fds'[q] = IF q = p THEN fds[p] \ {x} ELSE fds[q]
        BY <1>2, <2>2 DEF TypeOK
    <3> QED BY <1>2, <2>2, <3>1, <3>2 DEF TypeOK
  <2> QED BY <1>4, <2>1, <2>2
<1>6. TypeOK'
  <2>1. pc' \in [Threads -> Places] /\ loc' \in [Threads -> Locals]
    BY <1>1, <1>2, IdleLocals DEF TypeOK, Goto, Places, Locals
  <2> QED BY <1>1, <1>2, <1>5, <2>1 DEF TypeOK, Places, Locals
<1>7. CountInv'
  <2>1. Creating' = Creating
    BY <1>1, <1>3 DEF Creating, At
  <2> QED BY <1>1, <2>1 DEF IInv, BaseInv, CountInv
<1>8. FreshInv'
    BY <1>1 DEF IInv, BaseInv, FreshInv
<1>9. PlaceInv'
    BY <1>3 DEF IInv, BaseInv, PlaceInv, PlaceOK
<1>10. Clean' <=> Clean
    BY <1>1 DEF Clean
<1>11. ASSUME Clean PROVE CleanInv'
  <2>0. CleanInv
    BY <1>11 DEF IInv
  \* The entry that is gone is the one of the file that was closed.
  <2>1. ASSUME NEW q \in Procs, NEW y \in fds[q]
        PROVE  /\ y \notin fds'[q] => y[2] = loc[t].fd
               /\ q = p /\ y[1] = loc[t].lfd => y \notin fds'[q]
    <3>1. CASE found = {} /\ fds' = fds
        BY <2>1, <3>1
    <3>2. ASSUME NEW x \in found, fds' = [fds EXCEPT ![p] = @ \ {x}]
          PROVE  /\ y \notin fds'[q] => y[2] = loc[t].fd
                 /\ q = p /\ y[1] = loc[t].lfd => y \notin fds'[q]
      <4>1. x \in fds[p] /\ x[1] = loc[t].lfd
        OBVIOUS
      <4>2. fds'[q] = IF q = p THEN fds[p] \ {x} ELSE fds[q]
        BY <1>2, <3>2 DEF TypeOK
      <4>3. x[2] = loc[t].fd
        BY <1>1, <1>2, <2>0, <4>1 DEF CleanInv, HeldInv, HeldOK, Held
      <4>4. q = p /\ y[1] = x[1] => y[2] = x[2]
        BY <1>2, <2>0, <2>1, <4>1 DEF CleanInv, EntryInv
      <4>5. x \in Int \X Int /\ y \in Int \X Int
        BY <1>2, <2>1, <4>1 DEF TypeOK
      <4>6. q = p /\ y[1] = x[1] => y = x
        BY <4>4, <4>5
      <4> HIDE DEF p, found
      <4> QED BY <2>1, <4>1, <4>2, <4>3, <4>6
    <3> QED BY <1>1, <3>1, <3>2
  <2> HIDE DEF p, found
  <2>2. EntryInv'
    BY <1>1, <1>5, <2>0 DEF CleanInv, EntryInv
  <2>3. OwnedInv'
    <3> SUFFICES ASSUME NEW f \in Fds, fd_inode[f] # NONE
                 PROVE  \E q \in Procs : \E y \in fds'[q] : y[2] = f
        BY <1>1 DEF OwnedInv, Live
    <3>1. PICK q \in Procs : \E y \in fds[q] : y[2] = f
        BY <2>0 DEF CleanInv, OwnedInv, Live
    <3>2. PICK y \in fds[q] : y[2] = f
        BY <3>1
    <3>3. fd_inode[loc[t].fd] = NONE
        BY <1>1, <2>0 DEF CleanInv, ClosingInv, ClosingOK
    <3> QED BY <2>1, <3>2, <3>3
  <2>4. HeldInv'
    <3> SUFFICES ASSUME NEW u \in Threads, pc'[u] \in Held
                 PROVE  HeldOK(pc[u], loc[u], tproc[u])'
        BY DEF HeldInv, HeldOK
    <3>1. pc'[u] = pc[u] /\ loc'[u] = loc[u]
        BY <1>3 DEF Held
    <3>2. HeldOK(pc[u], loc[u], tproc[u])
        BY <2>0 DEF CleanInv, HeldInv
    <3> QED BY <1>1, <1>5, <3>1, <3>2 DEF HeldOK
  <2>5. ClosingInv'
    BY <1>1, <1>3, <2>0 DEF CleanInv, ClosingInv, ClosingOK
  <2>6. DanglingInv'
    <3> SUFFICES ASSUME NEW q \in Procs, NEW y \in fds'[q], fd_inode[y[2]] = NONE
                 PROVE  \E u \in Threads : tproc[u] = q /\ pc'[u] = "remove" /\ loc'[u].lfd = y[1]
        BY <1>1 DEF DanglingInv, At
    <3>1. y \in fds[q]
        BY <1>5
    <3>2. PICK u \in Threads : tproc[u] = q /\ pc[u] = "remove" /\ loc[u].lfd = y[1]
        BY <2>0, <3>1 DEF CleanInv, DanglingInv, At
    <3>3. u # t
        BY <2>1, <3>1, <3>2 DEF p
    <3> QED BY <1>3, <3>2, <3>3
  <2>7. ReadInv'
    <3> SUFFICES ASSUME NEW u \in Threads, pc'[u] \in {"offset", "store"}
                 PROVE  ReadOK(pc[u], loc[u], tproc[u])'
        BY DEF ReadInv, ReadOK
    <3>1. pc'[u] = pc[u] /\ loc'[u] = loc[u] /\ ReadOK(pc[u], loc[u], tproc[u])
        BY <1>3, <2>0 DEF CleanInv, ReadInv
    <3> QED BY <1>1, <3>1 DEF ReadOK
  <2>8. OverlapInv'
    BY <1>1, <1>3, <2>0 DEF CleanInv, OverlapInv, At
  <2>9. OffsetInv'
    BY <1>1, <2>0 DEF CleanInv, OffsetInv, Live
  <2> QED BY <2>2, <2>3, <2>4, <2>5, <2>6, <2>7, <2>8, <2>9 DEF CleanInv
<1> QED BY <1>6, <1>7, <1>8, <1>9, <1>10, <1>11 DEF IInv, BaseInv

-----------------------------------------------------------------------------
\* READ gets the offset and copies.  When no other READ of the file is about to
\* store an offset, this one goes on from the bytes that were delivered.
LEMMA ReadOffsetIInv == ASSUME IInv, NEW t \in Threads, read_offset(t) PROVE IInv'
<1> USE Ids
<1> DEFINE f == loc[t].fd
           i == loc[t].inode
           o == get_offset(f)
           k == Copied(loc[t].n, o, FileSize[i])
           l == [loc[t] EXCEPT !.n = k, !.offset = o + k]
           other == \E u \in Threads \ {t} : At(u, "store") /\ loc[u].fd = f
<1>1. /\ pc[t] = "offset" /\ Goto(t, "store", l)
      /\ shared' = IF other THEN shared \cup {f} ELSE shared
      /\ UNCHANGED <<tproc, fds, lfd_counter, fd_inode, fd_counter, leftover, opened,
                     fd_offset, delivered>>
    BY DEF read_offset, At, tables
<1>2. TypeOK /\ f \in Fds /\ i \in Inodes /\ loc[t] \in Locals /\ FileSize[i] \in Nat
    BY <1>1, FdAssumption DEF IInv, BaseInv, TypeOK, PlaceInv, PlaceOK, Locals
<1>3. o \in Offsets /\ o \in Nat /\ o = IF fd_inode[f] # NONE THEN fd_offset[f] ELSE 0
    BY <1>2, OffsetsNat DEF get_offset, get_inode, TypeOK
<1>4. loc[t].n \in Nat
    BY <1>2 DEF Locals
<1>5. /\ k \in Nat /\ (o <= FileSize[i] => o + k <= FileSize[i])
      /\ (o > FileSize[i] => k = 0)
    BY <1>2, <1>3, <1>4, CopiedBounds
<1> HIDE DEF k
<1>6. o + k \in Offsets /\ o + k \in Nat
    BY <1>2, <1>3, <1>5, OffsetsNat
<1>7. /\ l \in Locals /\ l.fd = f /\ l.lfd = loc[t].lfd /\ l.inode = i
      /\ l.n = k /\ l.offset = o + k
    BY <1>2, <1>5, <1>6 DEF Locals
<1> HIDE DEF f, i, o, l, other
<1>8. /\ pc'[t] = "store" /\ loc'[t] = l
      /\ \A u \in Threads : u # t => pc'[u] = pc[u] /\ loc'[u] = loc[u]
    BY <1>1, <1>2, GotoFacts
<1>9. shared \subseteq shared' /\ shared' \subseteq Fds
    BY <1>1, <1>2 DEF TypeOK
<1>10. TypeOK'
  <2>1. pc' \in [Threads -> Places] /\ loc' \in [Threads -> Locals]
    BY <1>1, <1>2, <1>7 DEF TypeOK, Goto, Places, Locals
  <2> QED BY <1>1, <1>2, <1>9, <2>1 DEF TypeOK, Places, Locals
<1>11. CountInv' /\ FreshInv'
  <2>1. Creating' = Creating
    BY <1>1, <1>8 DEF Creating, At
  <2> QED BY <1>1, <2>1 DEF IInv, BaseInv, CountInv, FreshInv
<1>12. PlaceInv'
    BY <1>2, <1>6, <1>7, <1>8 DEF IInv, BaseInv, PlaceInv, PlaceOK
<1>13. Clean' <=> Clean
    BY <1>1 DEF Clean
<1>14. ASSUME Clean PROVE CleanInv'
  <2>0. CleanInv
    BY <1>14 DEF IInv
  <2>1. EntryInv' /\ OwnedInv'
    BY <1>1, <2>0 DEF CleanInv, EntryInv, OwnedInv, Live
  <2>2. HeldInv'
    <3> SUFFICES ASSUME NEW u \in Threads PROVE HeldOK(pc[u], loc[u], tproc[u])'
        BY DEF HeldInv
    <3>1. HeldOK(pc[u], loc[u], tproc[u])
        BY <2>0 DEF CleanInv, HeldInv
    <3>2. /\ pc'[u] \in Held => pc[u] \in Held
          /\ loc'[u].fd = loc[u].fd /\ loc'[u].lfd = loc[u].lfd
        BY <1>1, <1>7, <1>8 DEF Held, f
    <3> QED BY <1>1, <3>1, <3>2 DEF HeldOK
  <2>3. ClosingInv'
    BY <1>1, <1>8, <2>0 DEF CleanInv, ClosingInv, ClosingOK
  <2>4. DanglingInv'
    BY <1>1, <1>8, <2>0 DEF CleanInv, DanglingInv, At
  <2>5. OffsetInv'
    BY <1>1, <1>9, <2>0 DEF CleanInv, OffsetInv, Live
  <2>6. ReadOK(pc[t], loc[t], tproc[t])'
    <3>1. l.inode = opened[tproc[t]][l.lfd]
        BY <1>1, <1>7, <2>0 DEF CleanInv, ReadInv, ReadOK, i
    <3>2. fd_inode[f] # NONE => fd_inode[f] = i
        BY <1>1, <1>2, <1>7, <2>0, <3>1, OpenIsOwn DEF IInv, Held, f
    <3>3. o <= FileSize[i]
        BY <1>2, <1>3, <2>0, <3>2 DEF CleanInv, OffsetInv, Live
    <3>4. fd_inode[f] # NONE /\ f \notin shared => o = delivered[f]
        BY <1>2, <1>3, <2>0 DEF CleanInv, OffsetInv, Live
    <3> QED BY <1>1, <1>5, <1>7, <1>8, <1>9, <3>1, <3>3, <3>4 DEF ReadOK
  <2>7. ReadInv'
    <3> SUFFICES ASSUME NEW u \in Threads PROVE ReadOK(pc[u], loc[u], tproc[u])'
        BY DEF ReadInv
    <3>1. CASE u = t
        BY <2>6, <3>1
    <3>2. CASE u # t
      <4>1. ReadOK(pc[u], loc[u], tproc[u])
        BY <2>0 DEF CleanInv, ReadInv
      <4> QED BY <1>1, <1>8, <1>9, <3>2, <4>1 DEF ReadOK
    <3> QED BY <3>1, <3>2
  <2>8. OverlapInv'
    <3> SUFFICES ASSUME NEW u \in Threads, NEW v \in Threads, u # v,
                        pc'[u] = "store", pc'[v] = "store", loc'[u].fd = loc'[v].fd
                 PROVE  loc'[u].fd \in shared'
        BY DEF OverlapInv, At
    <3>1. CASE u # t /\ v # t
        BY <1>8, <1>9, <2>0, <3>1 DEF CleanInv, OverlapInv, At
    <3>2. CASE u = t \/ v = t
      <4>1. loc'[u].fd = f /\ other
        BY <1>7, <1>8, <3>2 DEF other, At
      <4> QED BY <1>1, <4>1
    <3> QED BY <3>1, <3>2
  <2> QED BY <2>1, <2>2, <2>3, <2>4, <2>5, <2>7, <2>8 DEF CleanInv
<1> QED BY <1>10, <1>11, <1>12, <1>13, <1>14 DEF IInv, BaseInv

\* READ stores the offset.  Another READ that is about to store one for the same
\* file has made the file a shared one.
LEMMA ReadStoreIInv == ASSUME IInv, NEW t \in Threads, read_store(t) PROVE IInv'
<1> USE Ids
<1> DEFINE f == loc[t].fd
           d == IF f \in shared THEN 0 ELSE delivered[f] + loc[t].n
<1>1. /\ pc[t] = "store" /\ Return(t)
      /\ UNCHANGED <<tproc, fds, lfd_counter, fd_inode, fd_counter, leftover, opened, shared>>
    BY DEF read_store, At, tables
<1>2. /\ TypeOK /\ f \in Fds /\ loc[t] \in Locals /\ loc[t].inode \in Inodes
      /\ loc[t].offset \in Offsets
    BY <1>1 DEF IInv, BaseInv, TypeOK, PlaceInv, PlaceOK, Locals
<1>3. CASE fd_inode[f] = NONE
  <2>1. UNCHANGED <<tables, data>>
    BY <1>1, <1>2, <1>3 DEF read_store, set_offset, get_inode, tables, data
  <2> QED BY <1>1, <2>1, ReturnIInv
<1>4. CASE fd_inode[f] # NONE
  <2>1. /\ fd_offset' = [fd_offset EXCEPT ![f] = loc[t].offset]
        /\ delivered' = [delivered EXCEPT ![f] = d]
    BY <1>2, <1>4 DEF read_store, set_offset, get_inode
  <2>2. d \in Nat
    BY <1>2 DEF TypeOK, Locals
  <2>3. /\ pc'[t] = "user" /\ loc'[t] = Idle
        /\ \A u \in Threads : u # t => pc'[u] = pc[u] /\ loc'[u] = loc[u]
    BY <1>1, <1>2, GotoFacts DEF Return
  <2> HIDE DEF f, d
  <2>4. /\ fd_offset'[f] = loc[t].offset /\ delivered'[f] = d
        /\ \A g \in Fds : g # f => fd_offset'[g] = fd_offset[g] /\ delivered'[g] = delivered[g]
    BY <1>2, <2>1 DEF TypeOK
  <2>5. TypeOK'
    <3>1. pc' \in [Threads -> Places] /\ loc' \in [Threads -> Locals]
        BY <1>1, <1>2, IdleLocals DEF TypeOK, Return, Goto, Places, Locals
    <3>2. fd_offset' \in [Fds -> Offsets] /\ delivered' \in [Fds -> Nat]
        BY <1>2, <2>1, <2>2 DEF TypeOK
    <3> QED BY <1>1, <1>2, <3>1, <3>2 DEF TypeOK, Places, Locals
  <2>6. CountInv'
    <3>1. Creating' = Creating
        BY <1>1, <2>3 DEF Creating, At
    <3> QED BY <1>1, <3>1 DEF IInv, BaseInv, CountInv
  <2>7. FreshInv'
    BY <1>1, <1>4, <2>4 DEF IInv, BaseInv, FreshInv
  <2>8. PlaceInv'
    BY <2>3 DEF IInv, BaseInv, PlaceInv, PlaceOK
  <2>9. Clean' <=> Clean
    BY <1>1 DEF Clean
  <2>10. ASSUME Clean PROVE CleanInv'
    <3>0. CleanInv
        BY <2>10 DEF IInv
    <3>1. EntryInv' /\ OwnedInv'
        BY <1>1, <3>0 DEF CleanInv, EntryInv, OwnedInv, Live
    <3>2. HeldInv'
        BY <1>1, <2>3, <3>0 DEF CleanInv, HeldInv, HeldOK, Held
    <3>3. ClosingInv'
        BY <1>1, <2>3, <3>0 DEF CleanInv, ClosingInv, ClosingOK
    <3>4. DanglingInv'
        BY <1>1, <2>3, <3>0 DEF CleanInv, DanglingInv, At
    <3>5. OverlapInv'
        BY <1>1, <2>3, <3>0 DEF CleanInv, OverlapInv, At
    <3>6. ReadInv'
      <4> SUFFICES ASSUME NEW u \in Threads, pc'[u] \in {"offset", "store"}
                   PROVE  ReadOK(pc[u], loc[u], tproc[u])'
        BY DEF ReadInv, ReadOK
      <4>1. u # t /\ pc'[u] = pc[u] /\ loc'[u] = loc[u] /\ loc[u].fd \in Fds
        BY <2>3 DEF IInv, BaseInv, PlaceInv, PlaceOK
      <4>2. ReadOK(pc[u], loc[u], tproc[u])
        BY <3>0 DEF CleanInv, ReadInv
      <4>3. pc[u] = "store" /\ loc[u].fd = f => f \in shared
        BY <1>1, <3>0, <4>1 DEF CleanInv, OverlapInv, At, f
      <4> QED BY <1>1, <2>4, <4>1, <4>2, <4>3 DEF ReadOK
    <3>7. OffsetInv'
      <4> SUFFICES ASSUME NEW g \in Fds, fd_inode[g] # NONE
                   PROVE  /\ fd_offset'[g] <= FileSize[fd_inode[g]]
                          /\ g \notin shared => fd_offset'[g] = delivered'[g]
        BY <1>1 DEF OffsetInv, Live
      <4>1. CASE g # f
        BY <2>4, <3>0, <4>1 DEF CleanInv, OffsetInv, Live
      <4>2. CASE g = f
        <5>1. ReadOK("store", loc[t], tproc[t])
            BY <1>1, <3>0 DEF CleanInv, ReadInv
        <5>2. fd_inode[f] = loc[t].inode
            BY <1>1, <1>2, <1>4, <3>0, <5>1, OpenIsOwn DEF IInv, Held, ReadOK, f
        <5> QED BY <1>4, <2>4, <4>2, <5>1, <5>2 DEF ReadOK, f, d
      <4> QED BY <4>1, <4>2
    <3> QED BY <3>1, <3>2, <3>3, <3>4, <3>5, <3>6, <3>7 DEF CleanInv
  <2> QED BY <2>5, <2>6, <2>7, <2>8, <2>9, <2>10 DEF IInv, BaseInv
<1> QED BY <1>3, <1>4

-----------------------------------------------------------------------------
LEMMA InitIInv == Init => IInv
<1> SUFFICES ASSUME Init PROVE IInv
    OBVIOUS
<1> USE Ids
<1>1. leftover \in [Procs -> SUBSET (Int \X Int)]
  <2>1. /\ leftover \in [Procs -> SUBSET UNION {Leftover[p] : p \in Procs}]
        /\ \A p \in Procs : leftover[p] \subseteq Leftover[p]
    BY DEF Init
  <2>2. \A p \in Procs : Leftover[p] \subseteq Int \X Int
    BY FdAssumption
  <2>3. \A p \in Procs : leftover[p] \in SUBSET (Int \X Int)
    BY <2>1, <2>2
  <2> QED BY <2>1, <2>3
<1>2. TypeOK
  <2>1. 0 \in Offsets /\ Idle \in Locals /\ 0 \in 0 .. MaxFds
    BY OffsetsNat, IdleLocals, FdAssumption
  <2> QED BY <1>1, <2>1, FdAssumption DEF Init, TypeOK, Locals
<1>3. CountInv
  <2>1. Creating = {}
    BY DEF Init, Creating, At
  <2>2. Cardinality(Creating) = 0
    BY <2>1, FS_EmptySet
  <2> QED BY <2>2, FdAssumption DEF Init, CountInv
<1>4. FreshInv /\ PlaceInv
    BY DEF Init, FreshInv, PlaceInv, PlaceOK
<1>5. ASSUME Clean PROVE CleanInv
  <2>1. \A p \in Procs : fds[p] = {}
    BY <1>5 DEF Clean, Init
  <2>2. Live = {} /\ \A t \in Threads : pc[t] = "user"
    BY DEF Init, Live
  <2>3. EntryInv /\ OwnedInv /\ DanglingInv /\ OffsetInv
    BY <2>1, <2>2 DEF EntryInv, OwnedInv, DanglingInv, OffsetInv
  <2>4. HeldInv /\ ClosingInv /\ ReadInv /\ OverlapInv
    BY <2>2 DEF HeldInv, HeldOK, Held, ClosingInv, ClosingOK, ReadInv, ReadOK, OverlapInv, At
  <2> QED BY <2>3, <2>4 DEF CleanInv
<1> QED BY <1>2, <1>3, <1>4, <1>5 DEF IInv, BaseInv

LEMMA StutterIInv == ASSUME IInv, UNCHANGED vars PROVE IInv'
<1>1. UNCHANGED <<tproc, fds, lfd_counter, fd_inode, fd_counter, leftover, opened,
                  fd_offset, delivered, shared, pc, loc>>
    BY DEF vars, tables, data
<1>2. BaseInv'
  <2>1. Creating' = Creating
    BY <1>1 DEF Creating, At
  <2>2. CountInv' /\ FreshInv'
    BY <1>1, <2>1 DEF IInv, BaseInv, CountInv, FreshInv
  <2>3. PlaceInv'
    BY <1>1 DEF IInv, BaseInv, PlaceInv, PlaceOK
  <2> QED BY <1>1, <2>2, <2>3 DEF IInv, BaseInv, TypeOK
<1>3. ASSUME Clean' PROVE CleanInv'
  <2>1. CleanInv
    BY <1>1, <1>3 DEF IInv, Clean
  <2>2. EntryInv' /\ OwnedInv' /\ OffsetInv'
    BY <1>1, <2>1 DEF CleanInv, EntryInv, OwnedInv, OffsetInv, Live
  <2>3. HeldInv' /\ ClosingInv' /\ ReadInv'
    BY <1>1, <2>1 DEF CleanInv, HeldInv, HeldOK, ClosingInv, ClosingOK, ReadInv, ReadOK
  <2>4. DanglingInv' /\ OverlapInv'
    BY <1>1, <2>1 DEF CleanInv, DanglingInv, OverlapInv, At
  <2> QED BY <2>2, <2>3, <2>4 DEF CleanInv
<1> QED BY <1>2, <1>3 DEF IInv

LEMMA NextIInv == IInv /\ [Next]_vars => IInv'
<1> SUFFICES ASSUME IInv, [Next]_vars PROVE IInv'
    OBVIOUS
<1>1. CASE UNCHANGED vars
    BY <1>1, StutterIInv
<1>2. ASSUME NEW t \in Threads, Step(t) PROVE IInv'
  <2>1. ASSUME NEW path \in Paths,
               open_missing(t, path) \/ open_refused(t, path) \/ open_found(t, path)
        PROVE  IInv'
    BY <2>1, OpenFailsIInv, OpenFoundIInv
  <2>2. CASE create_fd(t)
    BY <2>2, CreateIInv
  <2>3. CASE fopen(t) \/ write_check(t)
    BY <2>3, ReturnIInv DEF fopen, write_check, At
  <2>4. ASSUME NEW lfd \in Fds \cup {NONE}, fclose(t, lfd) PROVE IInv'
    BY <2>4, LookupIInv DEF fclose
  <2>5. ASSUME NEW lfd \in Fds \cup {NONE}, NEW n \in Counts,
               fread(t, lfd, n) \/ fwrite(t, lfd, n)
        PROVE  IInv'
    <3>1. n \in Nat
        BY FdAssumption
    <3> QED BY <2>5, <3>1, LookupIInv DEF fread, fwrite
  <2>6. CASE close_check(t) \/ read_check(t)
    BY <2>6, CheckIInv
  <2>7. CASE close_delete(t)
    BY <2>7, CloseDeleteIInv
  <2>8. CASE close_remove(t)
    BY <2>8, CloseRemoveIInv
  <2>9. CASE read_header(t)
    BY <2>9, ReadHeaderIInv
  <2>10. CASE read_offset(t)
    BY <2>10, ReadOffsetIInv
  <2>11. CASE read_store(t)
    BY <2>11, ReadStoreIInv
  <2> QED BY <1>2, <2>1, <2>2, <2>3, <2>4, <2>5, <2>6, <2>7, <2>8, <2>9, <2>10, <2>11 DEF Step
<1> QED BY <1>1, <1>2 DEF Next

LEMMA SpecIInv == Spec => []IInv
    BY InitIInv, NextIInv, PTL DEF Spec

-----------------------------------------------------------------------------
\* The tables and the locals of the system calls keep their types, whatever
\* the tables held at first: no offset lies outside every file.
THEOREM FdTypeCorrect == Spec => []TypeOK
<1>1. IInv => TypeOK
    BY DEF IInv, BaseInv
<1> QED BY <1>1, SpecIInv, PTL

\* Every entry of fd_table (vfs.cpp) belongs to exactly one descriptor of one
\* process (proc.cpp), and has the inode that was opened under it.
THEOREM FdOneOwner == Spec => []OneOwner
<1>1. IInv => OneOwner
  <2> SUFFICES ASSUME IInv, Clean, NEW f \in Live
               PROVE  \E p \in Procs, l \in Fds :
                          NamesOf(f) = {<<p, l>>} /\ fd_inode[f] = opened[p][l]
    BY DEF OneOwner
  <2>1. PICK p \in Procs : \E x \in fds[p] : x[2] = f
    BY DEF IInv, CleanInv, OwnedInv
  <2>2. PICK x \in fds[p] : x[2] = f
    BY <2>1
  <2>3. x = <<x[1], f>> /\ f \in Fds /\ fd_inode[f] # NONE
    BY <2>2 DEF IInv, BaseInv, TypeOK, Live
  <2>4. /\ x[1] \in 0 .. lfd_counter[p] - 1
        /\ fd_inode[f] = opened[p][x[1]]
        /\ \A q \in Procs : \A y \in fds[q] : x[2] = y[2] <=> (p = q /\ x[1] = y[1])
    BY <2>2, <2>3 DEF IInv, CleanInv, EntryInv
  <2>5. x[1] \in Fds
    <3>1. lfd_counter[p] \in 0 .. MaxFds
        BY DEF IInv, BaseInv, TypeOK
    <3> QED BY <2>4, <3>1, FdAssumption DEF Fds
  <2>6. <<p, x[1]>> \in NamesOf(f)
    BY <2>2, <2>3, <2>5 DEF NamesOf
  <2>7. ASSUME NEW o \in NamesOf(f) PROVE o = <<p, x[1]>>
    <3>1. o \in Procs \X Fds /\ <<o[2], f>> \in fds[o[1]]
        BY DEF NamesOf
    <3>2. o[1] = p /\ o[2] = x[1]
        BY <2>2, <2>4, <3>1
    <3> QED BY <3>1, <3>2
  <2> QED BY <2>4, <2>5, <2>6, <2>7
<1> QED BY <1>1, SpecIInv, PTL

\* A descriptor whose file is closed is one that a CLOSE is about to remove.
THEOREM FdNoDanglingFd == Spec => []NoDanglingFd
<1>1. IInv => NoDanglingFd
  <2> SUFFICES ASSUME IInv, Clean, NEW p \in Procs, NEW x \in fds[p], x[2] \notin Live
               PROVE  \E t \in Threads : tproc[t] = p /\ At(t, "remove") /\ loc[t].lfd = x[1]
    BY DEF NoDanglingFd
  <2>1. x[2] \in Fds
    <3>1. x[2] \in 0 .. fd_counter - 1 /\ fd_counter \in 0 .. MaxFds
        BY DEF IInv, CleanInv, EntryInv, BaseInv, TypeOK
    <3> QED BY <3>1, FdAssumption DEF Fds
  <2> QED BY <2>1 DEF IInv, CleanInv, DanglingInv, Live
<1> QED BY <1>1, SpecIInv, PTL

\* A READ works on the file its descriptor was opened for, although the
\* descriptor may be closed, and others opened, while it runs.
THEOREM FdUsesOwnFile == Spec => []UsesOwnFile
<1>1. IInv => UsesOwnFile
    BY DEF IInv, CleanInv, ReadInv, ReadOK, UsesOwnFile, At
<1> QED BY <1>1, SpecIInv, PTL

\* READs that do not overlap deliver the bytes of a file in order, each once,
\* and no offset is past the end of its file.
THEOREM FdOffsetExact == Spec => []OffsetExact
<1>1. IInv => OffsetExact
    BY DEF IInv, CleanInv, OffsetInv, OffsetExact
<1> QED BY <1>1, SpecIInv, PTL

\* Only a thread of the process that has a descriptor for an open file takes
\* the file out of fd_table.
THEOREM FdClosedByOwner == Spec => ClosedByOwner
<1> DEFINE A == Clean => \A f \in Live :
                    fd_inode'[f] = NONE =>
                        \E t \in Threads : At(t, "delete") /\ ~At(t, "delete")'
                                          /\ \E l \in Fds : <<tproc[t], l>> \in NamesOf(f)
<1>1. ASSUME IInv, Next PROVE A
  <2> SUFFICES ASSUME Clean, NEW f \in Live, fd_inode'[f] = NONE
               PROVE  \E t \in Threads : At(t, "delete") /\ ~At(t, "delete")'
                                         /\ \E l \in Fds : <<tproc[t], l>> \in NamesOf(f)
    OBVIOUS
  <2>1. PICK t \in Threads : Step(t)
    BY <1>1 DEF Next
  <2>2. f \in Fds /\ fd_inode[f] # NONE
    BY DEF Live
  <2>3. TypeOK /\ PlaceInv /\ CleanInv
    BY <1>1 DEF IInv, BaseInv
  <2>4. fd_inode' # fd_inode
    BY <2>2
  <2>5. create_fd(t) \/ close_delete(t)
    BY <2>1, <2>4 DEF Step, open_missing, open_refused, open_found, fopen, fclose, fread, fwrite,
       lookup_fd, close_check, close_remove, read_check, read_header, read_offset, read_store,
       write_check, tables
  <2>6. ~create_fd(t)
    <3> SUFFICES ASSUME create_fd(t) PROVE FALSE
        OBVIOUS
    <3>1. loc[t].inode \in Inodes
        BY <2>3 DEF create_fd, At, PlaceInv, PlaceOK
    <3>2. fd_inode' = [fd_inode EXCEPT ![fd_counter] = loc[t].inode]
        BY DEF create_fd, vfs_create_fd
    <3>3. fd_inode'[f] = fd_inode[f] \/ fd_inode'[f] = loc[t].inode
        BY <2>2, <2>3, <3>2 DEF TypeOK
    <3> QED BY <2>2, <3>1, <3>3, Ids
  <2>7. pc[t] = "delete" /\ fd_inode' = [fd_inode EXCEPT ![loc[t].fd] = NONE]
        /\ pc' = [pc EXCEPT ![t] = "remove"]
    BY <2>5, <2>6 DEF close_delete, At, Goto
  <2>8. loc[t].fd = f
    BY <2>2, <2>3, <2>7 DEF TypeOK
  <2>9. <<loc[t].lfd, f>> \in fds[tproc[t]] /\ loc[t].lfd \in Fds /\ tproc[t] \in Procs
    BY <1>1, <2>2, <2>3, <2>7, <2>8, OpenIsOwn DEF IInv, Held, TypeOK
  <2>10. <<tproc[t], loc[t].lfd>> \in NamesOf(f)
    BY <2>9 DEF NamesOf
  <2>11. At(t, "delete") /\ ~At(t, "delete")'
    BY <2>3, <2>7 DEF TypeOK, At
  <2> QED BY <2>9, <2>10, <2>11
<1>2. IInv /\ [Next]_vars => [A]_vars
    BY <1>1
<1> QED BY <1>2, SpecIInv, PTL DEF Spec, ClosedByOwner
=============================================================================
