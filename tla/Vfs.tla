-------------------------------- MODULE Vfs --------------------------------
(***************************************************************************)
(* The tree of files: kernel/vfs/vfs.cpp, the initial ram disks that fill  *)
(* it at boot (kernel/sys/initrd.cpp, kernel/util/tar.cpp) and the pipes   *)
(* mounted in it (kernel/sys/pipe.cpp, called by tty_init).                *)
(*                                                                         *)
(* Every function of vfs.cpp runs under its spinlock and is one step or    *)
(* part of one.  Boot is one thread with interrupts off; boot.pc says      *)
(* where it is.  Once it is "ready" nothing in the kernel changes the tree *)
(* any more, but vfs.cpp exports functions that would: they are actions    *)
(* as well.                                                                *)
(***************************************************************************)
EXTENDS HashTable, Path

CONSTANTS INITRD_MAX,   \* slots for ram disks
          Archives,     \* the archives a boot loader may pass, each a sequence of files
          BLOCK,        \* the size of a tar block, 512
          PipePaths,    \* what tty_init mounts, in this order
          MaxInodes,    \* bound: inodes ever created
          MaxCalls,     \* bound: calls of exported functions after boot
          Handles       \* bound: the inodes they are called with

ASSUME VfsAssumption ==
    /\ INITRD_MAX \in 1 .. HASHTABLE_CAPACITY
    /\ BLOCK \in Nat \ {0}
    /\ MaxInodes \in Nat
    /\ Handles \subseteq 0 .. MaxInodes - 1

\* True in TLA+, but no prover knows what is a string; TLC does.
ASSUME StringAssumption == {Separator, "x", "0"} \subseteq STRING

\* What tar can write of a file: elements that are names, and octal digits.
IsName(e) == /\ e \in Seq(STRING)
             /\ Len(e) \in 1 .. FILENAME_MAX - 1
             /\ \A n \in 1 .. Len(e) : e[n] # Separator

ASSUME ArchiveAssumption == \A a \in Archives :
    /\ a \in Seq([elements : Seq(Seq(STRING)), flag : STRING, size : Seq(0 .. 7)])
    /\ \A n \in 1 .. Len(a) : /\ a[n].elements # <<>>
                              /\ \A i \in 1 .. Len(a[n].elements) : IsName(a[n].elements[i])

\* Pipes are mounted at paths of their own, and none below another.
ASSUME PipeAssumption ==
    /\ PipePaths \in Seq(Seq(STRING))
    /\ \A p \in 1 .. Len(PipePaths) :
          LET e == Elements(PipePaths[p])
          IN  /\ e # <<>>
              /\ \A q \in 1 .. Len(PipePaths) \ {p} : Elements(PipePaths[q]) \notin {e, Front(e)}

VARIABLES
    inode_table, inode_counter,
    fs_table, fs_counter,
    vfs_root,
    initrds,        \* the slots of initrd.cpp: the blocks of each archive
    inodes,         \* initrd.cpp: the tar header of each file, as <<slot, block>>
    pipes,          \* pipe.cpp: the pipe behind each inode
    boot,           \* where boot is, and the locals of initrd_create and mount_pipe
    archives,       \* history: the archive loaded into each slot
    calls           \* history: how many exported functions were called after boot

vars == <<inode_table, inode_counter, fs_table, fs_counter, vfs_root, initrds, inodes,
          pipes, boot, archives, calls>>

ID_INVALID == -1
Ids == 0 .. MaxInodes - 1
Types == {"NORMAL_FILE", "HARD_LINK", "SYM_LINK", "CHAR_DEVICE", "BLOCK_DEVICE",
          "DIRECTORY", "PIPE"}

-----------------------------------------------------------------------------
(* Archives in memory. *)

\* The bytes of a block read as a header; data looks like a header too.
Header(path, digits, flag) == [filename |-> path, size |-> digits, typeflag |-> flag]
ZeroBlock == Header(<<>>, <<0>>, "0")
DataBlock == Header(<<"x">>, <<0>>, "0")

\* The name tar writes: elements joined by separators, one more for a directory.
Join(f) == LET sep == FoldLeft(LAMBDA s, e : s \o <<Separator>> \o e, f.elements[1],
                               Tail(f.elements))
           IN  IF f.flag = "5" THEN Append(sep, Separator) ELSE sep

\* The number whose octal digits a header holds.
Octal(digits) == FoldLeft(LAMBDA n, d : n * 8 + d, 0, digits)

\* The archive that tar makes of a list of files.
Tar(files) ==
    LET blocks(f) == <<Header(Join(f), f.size, f.flag)>>
                     \o [b \in 1 .. (Octal(f.size) + BLOCK - 1) \div BLOCK |-> DataBlock]
    IN  FoldLeft(LAMBDA mem, f : mem \o blocks(f), <<>>, files) \o <<ZeroBlock>>

align_ceiling(n, align) == IF n = 0 THEN align ELSE align + align * ((n - 1) \div align)

Block(slot, b) == LET mem == initrds[slot] IN IF b \in DOMAIN mem THEN mem[b] ELSE ZeroBlock

tar_size(header) == Octal(header.size)

\* Mutant of NextHeader: the size is rounded down to whole blocks.
NextHeaderFloor(slot, b) == b + (BLOCK + tar_size(Block(slot, b))) \div BLOCK

\* tar_next: the header after block b, with its data, rounded up to blocks.
NextHeader(slot, b) == b + align_ceiling(BLOCK + tar_size(Block(slot, b)), BLOCK) \div BLOCK

-----------------------------------------------------------------------------
(* vfs.cpp: inodes and the walk along a path. *)

NewInode(id, type) ==
    [id |-> id, fs |-> ID_INVALID, children |-> <<>>, type |-> type, vtable |-> "none"]

\* create_inode: the identifier is used up even if the table is full.
CreateInode ==
    /\ inode_counter < MaxInodes
    /\ inode_counter' = inode_counter + 1

\* A setter: nothing happens if the inode is not in the table.
SetField(t, id, new) == IF has(t, id) THEN put(t, id, new) ELSE t

set_type(t, id, type) == SetField(t, id, [get(t, id) EXCEPT !.type = type])
set_vtable(t, id, vtable) == SetField(t, id, [get(t, id) EXCEPT !.vtable = vtable])
set_fs(t, id, fs) == SetField(t, id, [get(t, id) EXCEPT !.fs = fs])
mount_child(t, id, child, name) ==
    SetField(t, id, [get(t, id) EXCEPT !.children = Append(@, [inode |-> child, name |-> name])])

\* Getters, with what they return for an inode that is not in the table.
get_type(id) == IF has(inode_table, id) THEN get(inode_table, id).type ELSE "NORMAL_FILE"
get_vtable(id) == IF has(inode_table, id) THEN get(inode_table, id).vtable ELSE "none"
get_children(id) == IF has(inode_table, id) THEN Len(get(inode_table, id).children) ELSE 0
get_nth_child(id, n) ==
    IF has(inode_table, id) THEN get(inode_table, id).children[n].inode ELSE ID_INVALID

\* The first child of that name.
get_child(id, name) ==
    IF ~has(inode_table, id) THEN ID_INVALID
    ELSE LET children == get(inode_table, id).children
             i == SelectInSeq(children, LAMBDA c : c.name = name)
         IN  IF i = 0 THEN ID_INVALID ELSE children[i].inode

\* Mutant of get_child_name: the name of the first child, whichever it is.
child_name_first(id, child) == get(inode_table, id).children[1].name

get_child_name(id, child) ==
    LET children == get(inode_table, id).children
        i == SelectInSeq(children, LAMBDA c : c.inode = child)
    IN  children[i].name

\* The loop of get_inode and of mount over the elements of a path.
Walk(elements) ==
    FoldLeft(LAMBDA cinode, name : IF cinode = ID_INVALID THEN ID_INVALID
                                   ELSE get_child(cinode, name),
             vfs_root, elements)

get_inode(path) == Walk(Elements(path))

\* Mutant of mount: the whole path is walked, not the directory part.
mount_at_end(t, id, path) ==
    LET dir == Walk(Elements(path))
    IN  IF dir = ID_INVALID THEN t
        ELSE mount_child(t, dir, id, Last(Elements(path)))

\* mount: append a child to the directory the path names; the result of a
\* mount that finds no directory is an error that every caller ignores.
mount(t, id, path) ==
    LET dir == Walk(Front(Elements(path)))
    IN  IF dir = ID_INVALID THEN t
        ELSE mount_child(t, dir, id, Last(Elements(path)))

\* vfs_print_inode: the lines below the line of the inode p[2], reached as p[1].
PrintChildren(p) ==
    {<<Append(p[1], get_child_name(p[2], get_nth_child(p[2], n))), get_nth_child(p[2], n)>> :
       n \in 1 .. get_children(p[2])}

\* display: the lines of the command fs, by depth.
display ==
    LET depth[n \in 0 .. MaxInodes] ==
            IF n = 0 THEN {<<<<>>, vfs_root>>} \ {<<<<>>, ID_INVALID>>}
            ELSE UNION {PrintChildren(p) : p \in depth[n - 1]}
    IN  UNION {depth[n] : n \in 0 .. MaxInodes}

-----------------------------------------------------------------------------
(* Boot. *)

Init ==
    /\ inode_table = EmptyTable(NewInode(ID_INVALID, "DIRECTORY"))
    /\ inode_counter = 0
    /\ fs_table = EmptyTable([root |-> ID_INVALID, name |-> "none"])
    /\ fs_counter = 0
    /\ vfs_root = ID_INVALID
    /\ initrds = [k \in 0 .. INITRD_MAX - 1 |-> <<>>]
    /\ inodes = EmptyTable(<<0, 0>>)
    /\ pipes = EmptyTable(0)
    /\ boot = [pc |-> "add", k |-> 0, b |-> 1, i |-> 0, cinode |-> ID_INVALID,
               ninode |-> ID_INVALID]
    /\ archives = [k \in 0 .. INITRD_MAX - 1 |-> <<>>]
    /\ calls = 0

\* multiboot_parse_module found a ram disk: the first slot of size 0 takes
\* it; without one it is dropped.
initrd_add(a) ==
    /\ boot.pc = "add"
    /\ LET free == {k \in DOMAIN initrds : initrds[k] = <<>>}
       IN  IF free = {} THEN UNCHANGED <<initrds, archives>>
           ELSE /\ initrds' = [initrds EXCEPT ![Min(free)] = Tar(a)]
                /\ archives' = [archives EXCEPT ![Min(free)] = a]
    /\ UNCHANGED <<inode_table, inode_counter, fs_table, fs_counter, vfs_root, inodes,
                   pipes, boot, calls>>

\* The loop of initrd_init reaches slot k; after the last one tty_init follows.
NextDisk(k) ==
    LET used == {j \in DOMAIN initrds : j >= k /\ initrds[j] # <<>>}
    IN  IF used = {} THEN [boot EXCEPT !.pc = "pipe", !.k = 1]
        ELSE [boot EXCEPT !.pc = "create_fs", !.k = Min(used)]

initrd_init ==
    /\ boot.pc = "add"
    /\ boot' = NextDisk(0)
    /\ UNCHANGED <<inode_table, inode_counter, fs_table, fs_counter, vfs_root, initrds,
                   inodes, pipes, archives, calls>>

\* fs_ptr_t::get_root
fs_get_root(t, id) == IF has(t, id) THEN get(t, id).root ELSE ID_INVALID

get_root == vfs_root
set_root(root) == vfs_root' = root

\* A file system with a root inode of its own.
create_fs(name) ==
    /\ CreateInode
    /\ inode_table' = set_fs(add(inode_table, inode_counter,
                                 NewInode(inode_counter, "DIRECTORY")),
                             inode_counter, fs_counter)
    /\ fs_table' = add(fs_table, fs_counter, [root |-> inode_counter, name |-> name])
    /\ fs_counter' = fs_counter + 1

\* initrd_create, up to its loop over the headers: the new file system is the
\* root of all paths.
initrd_create ==
    /\ boot.pc = "create_fs"
    /\ create_fs("initrd")
    /\ set_root(fs_get_root(fs_table', fs_counter))
    /\ boot' = [boot EXCEPT !.pc = "element", !.b = 1, !.i = 0, !.cinode = vfs_root']
    /\ UNCHANGED <<initrds, inodes, pipes, archives, calls>>

CurHeader == Block(boot.k, boot.b)
CurElements == Elements(CurHeader.filename)
LastElement == boot.i + 1 = Len(CurElements)

\* One round of the loop over the elements of a header's name: go down to a
\* child that exists.
initrd_descend ==
    /\ boot.pc = "element"
    /\ boot.i < Len(CurElements)
    /\ LET try == get_child(boot.cinode, CurElements[boot.i + 1])
       IN  boot' = IF try # ID_INVALID THEN [boot EXCEPT !.cinode = try, !.i = @ + 1]
                   ELSE [boot EXCEPT !.pc = "create"]
    /\ UNCHANGED <<inode_table, inode_counter, fs_table, fs_counter, vfs_root, initrds,
                   inodes, pipes, archives, calls>>

\* The switch over the type flag of a header.
TypeOfFlag(flag) ==
    CASE flag = "0" -> "NORMAL_FILE" [] flag = "1" -> "HARD_LINK" [] flag = "2" -> "SYM_LINK"
      [] flag = "3" -> "CHAR_DEVICE" [] flag = "4" -> "BLOCK_DEVICE" [] flag = "6" -> "PIPE"
      [] OTHER -> "DIRECTORY"

NewType == IF LastElement THEN TypeOfFlag(CurHeader.typeflag) ELSE "DIRECTORY"

\* A new inode for this element, create_inode and set_fs.
initrd_create_inode ==
    /\ boot.pc = "create"
    /\ CreateInode
    /\ inode_table' = set_fs(add(inode_table, inode_counter,
                                 NewInode(inode_counter, NewType)),
                             inode_counter, fs_counter - 1)
    /\ boot' = [boot EXCEPT !.pc = "mount", !.ninode = inode_counter]
    /\ UNCHANGED <<fs_table, fs_counter, vfs_root, initrds, inodes, pipes, archives, calls>>

\* It becomes the last child of the inode reached so far.
initrd_mount_child ==
    /\ boot.pc = "mount"
    /\ inode_table' = mount_child(inode_table, boot.cinode, boot.ninode,
                                  CurElements[boot.i + 1])
    /\ boot' = [boot EXCEPT !.pc = "vtable"]
    /\ UNCHANGED <<inode_counter, fs_table, fs_counter, vfs_root, initrds, inodes, pipes,
                   archives, calls>>

\* A regular file gets the functions of initrd files and its header; then
\* the walk goes down to the new inode.
initrd_set_vtable ==
    /\ boot.pc = "vtable"
    /\ inode_table' = set_vtable(inode_table, boot.ninode,
                                 IF NewType = "NORMAL_FILE" THEN "initrd" ELSE "none")
    /\ inodes' = IF NewType = "NORMAL_FILE" THEN add(inodes, boot.ninode, <<boot.k, boot.b>>)
                 ELSE inodes
    /\ boot' = [boot EXCEPT !.pc = "element", !.i = @ + 1, !.cinode = boot.ninode]
    /\ UNCHANGED <<inode_counter, fs_table, fs_counter, vfs_root, initrds, pipes, archives,
                   calls>>

\* tar_next: a header with an empty name ends the archive.
tar_next ==
    /\ boot.pc = "element"
    /\ boot.i = Len(CurElements)
    /\ LET b == NextHeader(boot.k, boot.b)
       IN  boot' = IF Block(boot.k, b).filename = <<>> THEN NextDisk(boot.k + 1)
                   ELSE [boot EXCEPT !.b = b, !.i = 0, !.cinode = get_root]
    /\ UNCHANGED <<inode_table, inode_counter, fs_table, fs_counter, vfs_root, initrds,
                   inodes, pipes, archives, calls>>

\* mount_pipe, first part: create_inode and set_vtable, with a table that
\* pipe_init would fill but nothing does.
pipe_create ==
    /\ boot.pc = "pipe"
    /\ boot.k <= Len(PipePaths)
    /\ CreateInode
    /\ inode_table' = set_vtable(add(inode_table, inode_counter,
                                     NewInode(inode_counter, "PIPE")),
                                 inode_counter, "pipe")
    /\ boot' = [boot EXCEPT !.pc = "pipe_mount", !.ninode = inode_counter]
    /\ UNCHANGED <<fs_table, fs_counter, vfs_root, initrds, inodes, pipes, archives, calls>>

\* mount_pipe, second part: mount and the entry in pipes.
pipe_mount ==
    /\ boot.pc = "pipe_mount"
    /\ inode_table' = mount(inode_table, boot.ninode, PipePaths[boot.k])
    /\ pipes' = add(pipes, boot.ninode, boot.k)
    /\ boot' = [boot EXCEPT !.pc = "pipe", !.k = @ + 1]
    /\ UNCHANGED <<inode_counter, fs_table, fs_counter, vfs_root, initrds, inodes, archives,
                   calls>>

boot_done ==
    /\ boot.pc = "pipe"
    /\ boot.k > Len(PipePaths)
    /\ boot' = [boot EXCEPT !.pc = "ready"]
    /\ UNCHANGED <<inode_table, inode_counter, fs_table, fs_counter, vfs_root, initrds,
                   inodes, pipes, archives, calls>>

-----------------------------------------------------------------------------
(* Exported functions that no code calls yet. *)

\* None of them touches the ram disks, the pipes or the root.
Exported == /\ boot.pc = "ready"
            /\ calls < MaxCalls
            /\ calls' = calls + 1
            /\ UNCHANGED <<fs_counter, vfs_root, initrds, inodes, pipes, boot, archives>>

create_inode(type) ==
    /\ Exported
    /\ CreateInode
    /\ inode_table' = add(inode_table, inode_counter, NewInode(inode_counter, type))
    /\ UNCHANGED fs_table

change_type(id, type) ==
    /\ Exported
    /\ inode_table' = set_type(inode_table, id, type)
    /\ UNCHANGED <<inode_counter, fs_table>>

delete_inode(id) ==
    /\ Exported
    /\ inode_table' = remove(inode_table, id)
    /\ UNCHANGED <<inode_counter, fs_table>>

\* fs_ptr_t::set_root and set_name.
change_fs(id, root, name) ==
    /\ Exported
    /\ fs_table' = SetField(fs_table, id, [root |-> root, name |-> name])
    /\ UNCHANGED <<inode_table, inode_counter>>

delete_fs(id) ==
    /\ Exported
    /\ fs_table' = remove(fs_table, id)
    /\ UNCHANGED <<inode_table, inode_counter>>

Next ==
    \/ \E a \in Archives : initrd_add(a)
    \/ initrd_init
    \/ initrd_create
    \/ initrd_descend
    \/ initrd_create_inode
    \/ initrd_mount_child
    \/ initrd_set_vtable
    \/ tar_next
    \/ pipe_create
    \/ pipe_mount
    \/ boot_done
    \/ create_inode("NORMAL_FILE")
    \/ \E id \in Handles : change_type(id, "SYM_LINK") \/ delete_inode(id)
    \/ \E id \in 0 .. fs_counter - 1 : change_fs(id, ID_INVALID, "none") \/ delete_fs(id)

Spec == Init /\ [][Next]_vars

-----------------------------------------------------------------------------
(* Properties. *)

Inode == [id : Ids, fs : Int, children : Seq([inode : Ids, name : Seq(STRING)]),
          type : Types, vtable : {"none", "initrd", "pipe"}]

Counted(t) == size(t) = Cardinality({s \in Slots : t.used[s]})

\* A table's entries: identifiers handed out so far, each of them once.
OneEach(t, counter) == \A s \in Slots : t.used[s] =>
    /\ t.keys[s] < counter
    /\ \A r \in Slots : t.used[r] /\ t.keys[r] = t.keys[s] => r = s

\* The tables of vfs.cpp, initrd.cpp and pipe.cpp hold at most one entry per
\* identifier, only of identifiers that create_inode or create_fs handed out,
\* and count their entries; an inode is stored under its own identifier.
TypeOK ==
    /\ inode_counter \in 0 .. MaxInodes
    /\ fs_counter \in 0 .. INITRD_MAX
    /\ vfs_root \in Ids \cup {ID_INVALID}
    /\ OneEach(inode_table, inode_counter) /\ Counted(inode_table)
    /\ OneEach(fs_table, fs_counter) /\ Counted(fs_table)
    /\ OneEach(inodes, inode_counter) /\ Counted(inodes)
    /\ OneEach(pipes, inode_counter) /\ Counted(pipes)
    /\ \A s \in Slots : inode_table.used[s] =>
          /\ inode_table.data[s] \in Inode
          /\ inode_table.keys[s] = inode_table.data[s].id

Map == INSTANCE AbstractMap WITH Key <- Ids, Capacity <- HASHTABLE_CAPACITY,
                                 map <- Entries(inode_table, Ids)

\* The inode table, with its collisions, removed entries and full array, is
\* a map: no operation of vfs.cpp loses or changes the entry of another inode.
InodeTableIsMap == Map!Spec

\* The ram disk that paths start from: the last one that initrd_init read.
Disks == {k \in DOMAIN initrds : initrds[k] # <<>>}
Files == IF Disks = {} THEN <<>> ELSE archives[Max(Disks)]

\* What an archive says of a path: the first file that is it or is below it.
Mention(e) == SelectInSeq(Files, LAMBDA f : IsPrefix(e, f.elements))
Listed(e) == IF e = <<>> THEN Disks # {} ELSE Mention(e) # 0
ListedType(e) == IF e # <<>> /\ Files[Mention(e)].elements = e
                 THEN TypeOfFlag(Files[Mention(e)].flag)
                 ELSE "DIRECTORY"

\* The block of the n-th file of an archive.
BlockOf(n) == 1 + FoldLeft(LAMBDA b, f : b + 1 + (Octal(f.size) + BLOCK - 1) \div BLOCK,
                           0, SubSeq(Files, 1, n - 1))

\* The elements of every path that a file or a pipe of this boot has.
KnownPaths ==
    (UNION {{SubSeq(f.elements, 1, n) : n \in 1 .. Len(f.elements)} : f \in ToSet(Files)})
        \cup {Elements(PipePaths[p]) : p \in 1 .. Len(PipePaths)}

\* The paths that lead somewhere, and those that should.
Paths == KnownPaths \cup {p[1] : p \in display}

\* Every inode that was created is in the table.
Room == inode_counter <= HASHTABLE_CAPACITY

\* After boot a path opens as an initrd file only if the archive lists a
\* regular file there, and then it reads that file's header and no other,
\* even when the inode table filled up on the way.  If it did not fill up,
\* every entry of the archive is found with its type.
InitrdFaithful == boot.pc = "ready" =>
    \A e \in Paths : LET id == Walk(e) IN
        /\ get_vtable(id) = "initrd" =>
              /\ Listed(e) /\ Files[Mention(e)].elements = e
              /\ TypeOfFlag(Files[Mention(e)].flag) = "NORMAL_FILE"
              /\ get(inodes, id) = <<Max(Disks), BlockOf(Mention(e))>>
        /\ (calls = 0 /\ Room /\ Listed(e)) =>
              /\ has(inode_table, id)
              /\ get_type(id) = ListedType(e)

\* After boot a path names a pipe only if tty_init mounted that pipe
\* there; and, with room in the table, /dev/stdin and /dev/stdout are the
\* pipes exactly if the archive has the directory and no entry of that name.
PipesFaithful == boot.pc = "ready" =>
    \A p \in 1 .. Len(PipePaths) :
        LET e == Elements(PipePaths[p])
            id == get_inode(PipePaths[p])
            there == get_vtable(id) = "pipe"
        IN  /\ there => has(pipes, id) /\ get(pipes, id) = p
            /\ (calls = 0 /\ Room) => (there <=> Listed(Front(e)) /\ ~Listed(e))

\* An inode is the child of at most one other and was created after it.
TreeShape ==
    LET links == {l \in Ids \X (1 .. MaxInodes) :
                    has(inode_table, l[1]) /\ l[2] <= Len(get(inode_table, l[1]).children)}
        child(l) == get(inode_table, l[1]).children[l[2]].inode
    IN  \A l \in links : child(l) > l[1] /\ \A m \in links : child(l) = child(m) => l = m

\* vfs_print_inode comes to an end, because the tree has no cycle, and what
\* it prints is what paths find: each inode under the path that leads to it,
\* or to an older inode of the same name, and every path that leads to one.
DisplayFaithful ==
    /\ TreeShape
    /\ boot.pc = "ready" =>
          /\ \A p \in display : p[2] = Walk(p[1]) \/ \E q \in display : /\ q[1] = p[1]
                                                                      /\ q[2] < p[2]
          /\ \A e \in KnownPaths : Walk(e) # ID_INVALID => <<e, Walk(e)>> \in display
=============================================================================
