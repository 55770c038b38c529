--------------------------------- MODULE Fd ---------------------------------
(***************************************************************************)
(* Open files: the system calls OPEN, CLOSE, READ and WRITE                *)
(* (kernel/sys/call.cpp), the descriptor layer below them                  *)
(* (kernel/vfs/fd.cpp), the tables of open files (kernel/vfs/vfs.cpp) and  *)
(* of the descriptors of a process (kernel/proc/proc.cpp), and the file    *)
(* functions of initrd files (kernel/sys/initrd.cpp).  Nothing calls       *)
(* pipe_init, so a pipe (kernel/sys/pipe.cpp) has a table of functions     *)
(* with no function in it and cannot be opened, like a directory.          *)
(*                                                                         *)
(* A system call runs with interrupts on, so the threads interleave        *)
(* between any two accesses to a table; each access is one step, under the *)
(* spinlock of vfs.cpp or the hwlock of proc.cpp.  The tree of inodes is   *)
(* built at boot and does not change.  The tables hold 256 entries, more   *)
(* than are ever opened here.                                              *)
(***************************************************************************)
EXTENDS Integers, FiniteSets

CONSTANTS Threads, Procs,
          Owners,       \* the possible assignments of threads to processes
          Inodes,
          Kind,         \* "file" (initrd_vtable), "pipe" (pipe_vtable), "dir" (no vtable)
          FileSize,     \* tar_size of each file
          Paths,
          Lookup,       \* vfs::get_inode for each path, NONE if there is no such file
          Counts,       \* the byte counts READ and WRITE are called with
          Leftover,     \* entries the uninitialised hash table of a process may hold
          MaxFds        \* bound: descriptors ever opened

NONE == -1      \* ID_INVALID
Fds == 0 .. MaxFds - 1

ASSUME FdAssumption ==
    /\ MaxFds \in 1 .. 256
    /\ IsFiniteSet(Threads)
    /\ Owners \subseteq [Threads -> Procs]
    /\ Inodes \subseteq Nat /\ Inodes # {}
    /\ Kind \in [Inodes -> {"file", "pipe", "dir"}]
    /\ FileSize \in [Inodes -> Nat]
    /\ Lookup \in [Paths -> Inodes \cup {NONE}]
    /\ Counts \subseteq Nat
    /\ Leftover \in [Procs -> SUBSET (Int \X Int)]

VARIABLES
    tproc,          \* the process of each thread
    fds,            \* proc_t::fds, as <<descriptor, open file>>
    lfd_counter,    \* proc_t::lfd_counter
    fd_inode,       \* fd_table: the inode of each open file, NONE without entry
    fd_offset,      \* fd_table: its offset
    fd_counter,
    pc,
    loc,            \* the locals of the system call of each thread
    leftover,       \* history: what the tables held before they were used
    opened,         \* history: the inode each descriptor was opened for
    delivered,      \* history: bytes that READs of an open file returned, until it is shared
    shared          \* history: open files that two READs were using at once

tables == <<tproc, fds, lfd_counter, fd_inode, fd_counter, leftover, opened>>
data == <<fd_offset, delivered, shared>>
vars == <<tables, data, pc, loc>>

Idle == [lfd |-> NONE, fd |-> NONE, inode |-> NONE, n |-> 0, offset |-> 0]

Init ==
    /\ tproc \in Owners
    /\ leftover \in {g \in [Procs -> SUBSET UNION {Leftover[p] : p \in Procs}] :
                       \A p \in Procs : g[p] \subseteq Leftover[p]}
    /\ fds = leftover
    /\ lfd_counter = [p \in Procs |-> 0]
    /\ fd_inode = [f \in Fds |-> NONE]
    /\ fd_offset = [f \in Fds |-> 0]
    /\ fd_counter = 0
    /\ pc = [t \in Threads |-> "user"]
    /\ loc = [t \in Threads |-> Idle]
    /\ opened = [p \in Procs |-> [l \in Fds |-> NONE]]
    /\ delivered = [f \in Fds |-> 0]
    /\ shared = {}

-----------------------------------------------------------------------------
\* The process of the running thread, which is t (Sched, CurrentIdentity).
get_current(t) == tproc[t]

\* proc_ptr_t::get_fd: the first entry with the key that the search meets.
get_fd(p, lfd) ==
    LET found == {x[2] : x \in {y \in fds[p] : y[1] = lfd}}
    IN  IF lfd = NONE \/ found = {} THEN {NONE} ELSE found

\* fd_ptr_t::get_inode
get_inode(f) == IF f \in Fds THEN fd_inode[f] ELSE NONE

\* fd_ptr_t::get_offset
get_offset(f) == IF get_inode(f) # NONE THEN fd_offset[f] ELSE 0

\* inode_ptr_t::get_vtable, and the functions in the table: initrd_init sets
\* open, close and read for files, and the table of the pipes is empty.
Opens(i) == i # NONE /\ Kind[i] = "file"

At(t, place) == pc[t] = place
Goto(t, place, l) == pc' = [pc EXCEPT ![t] = place] /\ loc' = [loc EXCEPT ![t] = l]
Return(t) == Goto(t, "user", Idle)

\* OPEN looks the path up.  There is no such file: *rdesc is 0.
open_missing(t, path) ==
    /\ At(t, "user")
    /\ Lookup[path] = NONE
    /\ Goto(t, "fopen", [Idle EXCEPT !.lfd = 0])
    /\ UNCHANGED <<tables, data>>

\* fd_open: the inode has no open function.
open_refused(t, path) ==
    /\ At(t, "user")
    /\ Lookup[path] # NONE /\ ~Opens(Lookup[path])
    /\ Goto(t, "fopen", [Idle EXCEPT !.inode = Lookup[path]])
    /\ UNCHANGED <<tables, data>>

\* fd_open: the open functions accept every inode.
open_found(t, path) ==
    /\ At(t, "user")
    /\ Opens(Lookup[path])
    /\ fd_counter + Cardinality({u \in Threads : At(u, "create")}) < MaxFds
    /\ Goto(t, "create", [Idle EXCEPT !.inode = Lookup[path]])
    /\ UNCHANGED <<tables, data>>

\* vfs::create_fd
vfs_create_fd(i) ==
    /\ fd_counter' = fd_counter + 1
    /\ fd_inode' = [fd_inode EXCEPT ![fd_counter] = i]

\* Mutant of create_fd: the local id is taken for the global one.
create_fd_local(t) ==
    LET p == get_current(t)
        lfd == lfd_counter[p]
        i == loc[t].inode
    IN  /\ At(t, "create")
        /\ lfd_counter' = [lfd_counter EXCEPT ![p] = lfd + 1]
        /\ vfs_create_fd(i)
        /\ fds' = [fds EXCEPT ![p] = @ \cup {<<lfd, lfd>>}]
        /\ opened' = [opened EXCEPT ![p][lfd] = i]
        /\ Goto(t, "fopen", [Idle EXCEPT !.lfd = lfd, !.inode = i])
        /\ UNCHANGED <<tproc, leftover, data>>

\* proc_ptr_t::create_fd, one section.
create_fd(t) ==
    LET p == get_current(t)
        lfd == lfd_counter[p]
        i == loc[t].inode
    IN  /\ At(t, "create")
        /\ lfd_counter' = [lfd_counter EXCEPT ![p] = lfd + 1]
        /\ vfs_create_fd(i)
        /\ fds' = [fds EXCEPT ![p] = @ \cup {<<lfd, fd_counter>>}]
        /\ opened' = [opened EXCEPT ![p][lfd] = i]
        /\ Goto(t, "fopen", [Idle EXCEPT !.lfd = lfd, !.inode = i])
        /\ UNCHANGED <<tproc, leftover, data>>

\* fopen has the descriptor (loc.lfd) for the inode at the path (loc.inode).
fopen(t) ==
    /\ At(t, "fopen")
    /\ Return(t)
    /\ UNCHANGED <<tables, data>>

-----------------------------------------------------------------------------
\* The streams of a descriptor are itself and one.  CLOSE, READ and WRITE
\* first ask for the open file of the descriptor.
lookup_fd(t, lfd, n, place) ==
    /\ At(t, "user")
    /\ \E f \in get_fd(get_current(t), lfd) :
           Goto(t, place, [Idle EXCEPT !.lfd = lfd, !.fd = f, !.n = n])
    /\ UNCHANGED <<tables, data>>

fclose(t, lfd)   == lookup_fd(t, lfd, 0, "close")
fread(t, lfd, n)  == lookup_fd(t, lfd, n, "read")
fwrite(t, lfd, n) == lookup_fd(t, lfd, n, "write")

\* fd_close: an error unless there is an inode with a close function, which
\* accepts every open file.
close_check(t) ==
    /\ At(t, "close")
    /\ IF Opens(get_inode(loc[t].fd)) THEN Goto(t, "delete", loc[t]) ELSE Return(t)
    /\ UNCHANGED <<tables, data>>

\* Mutant of close_delete: the open file stays in the table.
close_keeps(t) ==
    /\ At(t, "delete")
    /\ Goto(t, "remove", loc[t])
    /\ UNCHANGED <<tables, data>>

\* Mutant of close_delete: the local id is taken for the global one.
close_local(t) ==
    /\ At(t, "delete")
    /\ fd_inode' = [fd_inode EXCEPT ![loc[t].lfd] = NONE]
    /\ Goto(t, "remove", loc[t])
    /\ UNCHANGED <<tproc, fds, lfd_counter, fd_counter, leftover, opened, data>>

\* vfs::delete_fd, whose result is not looked at
close_delete(t) ==
    /\ At(t, "delete")
    /\ fd_inode' = [fd_inode EXCEPT ![loc[t].fd] = NONE]
    /\ fd_offset' = [fd_offset EXCEPT ![loc[t].fd] = 0]
    /\ delivered' = [delivered EXCEPT ![loc[t].fd] = 0]
    /\ Goto(t, "remove", loc[t])
    /\ UNCHANGED <<tproc, fds, lfd_counter, fd_counter, leftover, opened, shared>>

\* Mutant of close_remove: the descriptor is not removed.
close_forgets(t) ==
    /\ At(t, "remove")
    /\ Return(t)
    /\ UNCHANGED <<tables, data>>

\* proc_ptr_t::delete_fd removes the first entry with the key that it meets.
close_remove(t) ==
    LET p == get_current(t)
        found == {x \in fds[p] : x[1] = loc[t].lfd}
    IN  /\ At(t, "remove")
        /\ IF found = {} THEN fds' = fds
           ELSE \E x \in found : fds' = [fds EXCEPT ![p] = @ \ {x}]
        /\ Return(t)
        /\ UNCHANGED <<tproc, lfd_counter, fd_inode, fd_counter, leftover, opened, data>>

-----------------------------------------------------------------------------
\* fd_read: nothing to read without a read function.
read_check(t) ==
    LET i == get_inode(loc[t].fd)
    IN  /\ At(t, "read")
        /\ IF Opens(i) THEN Goto(t, "file", loc[t]) ELSE Return(t)
        /\ UNCHANGED <<tables, data>>

\* initrd_read_call finds the file, unless it was closed meanwhile.
read_header(t) ==
    LET i == get_inode(loc[t].fd)
    IN  /\ At(t, "file")
        /\ IF i # NONE THEN Goto(t, "offset", [loc[t] EXCEPT !.inode = i]) ELSE Return(t)
        /\ UNCHANGED <<tables, data>>

\* Mutant of Copied: offset <= filesize, one byte past the end.
CopiedPast(n, offset, size) ==
    IF n = 0 \/ offset > size THEN 0
    ELSE IF n - 1 < size - offset + 1 THEN n - 1
    ELSE size - offset + 1

\* The bytes that initrd_read_call copies: one less than there is room for,
\* which the terminator takes.
Copied(n, offset, size) ==
    IF n = 0 \/ offset >= size THEN 0
    ELSE IF n - 1 < size - offset THEN n - 1
    ELSE size - offset

\* Mutant of read_offset: the copy starts at the beginning of the file.
read_rewinds(t) ==
    /\ At(t, "offset")
    /\ Goto(t, "store", [loc[t] EXCEPT !.n = Copied(@, 0, FileSize[loc[t].inode]),
                                       !.offset = 0])
    /\ UNCHANGED <<tables, data>>

\* It gets the offset and copies; another READ of the open file may have
\* got the same offset and not stored its own yet.
read_offset(t) ==
    LET l == loc[t]
        k == Copied(l.n, get_offset(l.fd), FileSize[l.inode])
        other == \E u \in Threads \ {t} : At(u, "store") /\ loc[u].fd = l.fd
    IN  /\ At(t, "offset")
        /\ Goto(t, "store", [l EXCEPT !.n = k, !.offset = get_offset(l.fd) + k])
        /\ shared' = IF other THEN shared \cup {l.fd} ELSE shared
        /\ UNCHANGED <<tables, fd_offset, delivered>>

\* fd_ptr_t::set_offset, if the file is still open.
set_offset(f, offset) ==
    fd_offset' = IF get_inode(f) # NONE THEN [fd_offset EXCEPT ![f] = offset] ELSE fd_offset

\* It stores the offset.
read_store(t) ==
    LET l == loc[t]
    IN  /\ At(t, "store")
        /\ set_offset(l.fd, l.offset)
        /\ delivered' = IF get_inode(l.fd) = NONE THEN delivered
                        ELSE [delivered EXCEPT ![l.fd] = IF l.fd \in shared THEN 0 ELSE @ + l.n]
        /\ Return(t)
        /\ UNCHANGED <<tables, shared>>

\* fd_write: no file has a write function, and every WRITE is an error.
write_check(t) ==
    /\ At(t, "write")
    /\ Return(t)
    /\ UNCHANGED <<tables, data>>

Step(t) ==
    \/ \E path \in Paths : open_missing(t, path) \/ open_refused(t, path) \/ open_found(t, path)
    \/ create_fd(t) \/ fopen(t)
    \/ \E lfd \in Fds \cup {NONE} :
           \/ fclose(t, lfd)
           \/ \E n \in Counts : fread(t, lfd, n) \/ fwrite(t, lfd, n)
    \/ close_check(t) \/ close_delete(t) \/ close_remove(t)
    \/ read_check(t) \/ read_header(t) \/ read_offset(t) \/ read_store(t)
    \/ write_check(t)

Next == \E t \in Threads : Step(t)

Spec == Init /\ [][Next]_vars

-----------------------------------------------------------------------------
\* Places in a file.
Offsets == UNION {0 .. FileSize[i] : i \in Inodes}

\* The tables, the open files and the system calls under way.
TypeOK ==
    /\ tproc \in [Threads -> Procs]
    /\ fds \in [Procs -> SUBSET (Int \X Int)]
    /\ lfd_counter \in [Procs -> 0 .. MaxFds]
    /\ fd_inode \in [Fds -> Inodes \cup {NONE}]
    /\ fd_offset \in [Fds -> Offsets]
    /\ fd_counter \in 0 .. MaxFds
    /\ pc \in [Threads -> {"user", "create", "fopen", "close", "delete", "remove", "read", "file",
                           "offset", "store", "write"}]
    /\ loc \in [Threads -> [lfd : Fds \cup {NONE}, fd : Int, inode : Inodes \cup {NONE},
                            n : Nat, offset : Nat]]
    /\ leftover \in [Procs -> SUBSET (Int \X Int)]
    /\ opened \in [Procs -> [Fds -> Inodes \cup {NONE}]]
    /\ delivered \in [Fds -> Nat]
    /\ shared \subseteq Fds

\* The tables held nothing before they were used.
Clean == \A p \in Procs : leftover[p] = {}

Live == {f \in Fds : fd_inode[f] # NONE}
NamesOf(f) == {o \in Procs \X Fds : <<o[2], f>> \in fds[o[1]]}

\* No open file leaks and none has two descriptors: whatever CLOSE, READ and
\* OPEN run at once, an entry of fd_table belongs to exactly one descriptor of
\* one process, and has the inode that descriptor was opened for.
OneOwner ==
    Clean => \A f \in Live : \E p \in Procs, l \in Fds :
                 NamesOf(f) = {<<p, l>>} /\ fd_inode[f] = opened[p][l]

\* A descriptor without an open file is one that a CLOSE is about to remove,
\* even if several threads close it.
NoDanglingFd ==
    Clean => \A p \in Procs : \A x \in fds[p] :
                 \/ x[2] \in Live
                 \/ \E t \in Threads : tproc[t] = p /\ At(t, "remove") /\ loc[t].lfd = x[1]

\* A system call works on the file its descriptor was opened for, although
\* the descriptor may be closed and others opened while it runs.
UsesOwnFile ==
    Clean => \A t \in Threads :
                 At(t, "offset") \/ At(t, "store") =>
                     loc[t].inode = opened[tproc[t]][loc[t].lfd]

\* READs that do not overlap return the bytes of a file in order, each one
\* once: the offset is what they have returned, and never past the end.
OffsetExact ==
    Clean => \A f \in Live :
                 /\ fd_offset[f] <= FileSize[fd_inode[f]]
                 /\ f \notin shared => fd_offset[f] = delivered[f]

\* An open file is closed by a thread of the process that opened it.
ClosedByOwner ==
    [][Clean => \A f \in Live :
           fd_inode'[f] = NONE =>
               \E t \in Threads : At(t, "delete") /\ ~At(t, "delete")'
                                 /\ \E l \in Fds : <<tproc[t], l>> \in NamesOf(f)]_vars

\* fopen (kernel/libk/stdio.cpp:40) returns NULL when the descriptor is -1, and
\* a stream for the file otherwise: a descriptor that OPEN returns is open for
\* the file at the path.
FopenNamesFile ==
    \A t \in Threads :
        At(t, "fopen") /\ loc[t].lfd # NONE =>
            loc[t].inode # NONE /\ opened[tproc[t]][loc[t].lfd] = loc[t].inode
=============================================================================
