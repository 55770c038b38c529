# A TLA+ model of the Tupai kernel

Tupai is a small re-entrant kernel for x86 (i386 and amd64), with a partial
ARM port. It runs on one CPU. Kernel threads are preempted by the timer, share
every table of the kernel, and protect them with two kinds of lock. This
directory models the parts in which that concurrency, the heap and the tables
make correctness hard to test, checks the models with TLC and proves the most
important properties with TLAPS.

`PROJECT.json` lists the components, the runs, the mutants that show each
property can fail, the source lines of each definition, the findings and the
hazards.

## 1. The system

| Component | State | Operations | Talks to |
|---|---|---|---|
| Ring queue `queue.hpp` | `items`, `head`, `tail`, `length` | `push`, `pop` | run queue, pipes |
| Kernel heap `pool.cpp`, `kmem.cpp` | two bits per block | `pool_alloc`, `pool_dealloc` | `new` and `delete` everywhere |
| Interrupt lock `hwlock.cpp` | `hw_locked`, `hw_int_enabled`, both static | `lock`, `unlock` | process, thread, scheduler, heap, log, tty |
| Threads and processes `proc.cpp` | `thread_table`, `proc_table`, counters, `cthread`, `cproc` | `create`, `spawn_thread`, `delete_thread`, `kill`, getters and setters | scheduler, heap, open files |
| Scheduler `scheduler.cpp` | `schedule`, `ctask` | `scheduler_schedule`, `scheduler_increment`, `scheduler_preempt` | timer, exceptions, YIELD |
| System calls `call.cpp` | none | YIELD, OPEN, CLOSE, READ, WRITE | scheduler, open files |
| Open files `fd.cpp`, `vfs.cpp` | `fd_table`, `proc_t::fds`, counters | `fd_open`, `fd_close`, `fd_read`, `fd_write` | file functions of initrd |
| File tree `vfs.cpp`, `path.cpp`, `initrd.cpp`, `pipe.cpp` | `fs_table`, `inode_table`, `vfs_root` | `mount`, `get_inode`, `initrd_create`, `mount_pipe`, `display` | boot, open files |
| Hash table `hashtable.hpp` | `keys`, `used`, `data`, `item_count` | `add`, `remove`, `get` | all tables above |
| Console `tty.cpp`, `fifo.hpp`, `kbd.cpp`, `in.cpp`, `log.cpp`, `textmode.cpp` | `inpipe`, `outpipe`, the screen and its cursor | `tty_write`, `tty_read`, `tty_write_in`, `tty_out_thread`, `readline` | keyboard interrupt, shell |
| Shell `shell.cpp` | the line | one command per line | console, open files |
| Spin locks `spinlock.cpp`, `lock.s` | one word each | `lock`, `unlock` | file tree, tty, serial, heap |
| Boot memory `multiboot.cpp`, `arch.cpp`, `kmem.cpp` | `kernel_end_offset`, the boot loader's tags | `multiboot_parse_module`, `arch_kernel_alloc`, `kmem_init`, `pool_construct` | initrd, heap |
| Processor tables and interrupts `gdt.cpp`, `idt.cpp`, `pic.cpp`, `*.s` | GDT, IDT, masks and requests of the controllers | set-up at boot, the handlers | timer, keyboard, system calls, exceptions |
| Clock `cmos.cpp`, `clock.cpp` | none | `clock_read` | shell |
| Conversions `conv.cpp`, `fmt.hpp`, vector `vector.hpp` | the vector's array | `compose`, `fmt`, `push`, `pop`, copies and moves | log, tree |

What is hard here:

* *Interleaving.* An interrupt may come between any two instructions of a
  thread that runs with interrupts enabled, and the scheduler then runs any
  other thread. System calls enable interrupts on entry ("the kernel is
  re-entrant").
* *Locks without owner or depth.* All `hwlock_t` share two static flags; a
  section inside a section ends both. A spinlock taken with interrupts off can
  wait for a thread that will never run.
* *Identity.* "The current thread" is a variable; code asks for it and acts on
  the answer later.
* *Tables at their limits.* The ring overwrites its oldest item, `pop` does not
  test for empty, `add` fails silently at 256 entries, and the hash tables of a
  new process are uninitialised memory. A pipe never makes its writer wait.
* *The machine itself.* The screen scrolls, the clock changes while it is read,
  the interrupt controllers keep a request or forget it, and a descriptor with
  one bit wrong stops everything at the first interrupt.
* *No protection by types.* Ids of threads, of threads within a process, of
  descriptors and of open files are all `id_t`.

## 2. Modules

| Module | Models | Role |
|---|---|---|
| `Queue` | `queue.hpp` | state machine of `push` and `pop` |
| `AbstractFifo` | what the ring promises | bounded buffer that drops its oldest item |
| `Pool` | `pool.cpp`, `kmem.cpp`, `mem.hpp` | heap with the ghost set `live` of allocations |
| `PoolScan` | the nested loops of `pool_alloc` | compared with `Pool!FirstFit` |
| `HwLock` | `hwlock.cpp`, interrupt gates | one action per instruction that matters |
| `Sched` | `proc.cpp`, `scheduler.cpp`, timer, exceptions, boot | threads, processes, scheduler |
| `IncrementLoop` | the loop of `scheduler_increment` | compared with `Sched!IsPick`, `Picked`, `Rotated` |
| `SchedYield` | the YIELD path of `call.cpp` | `Sched` plus a `scheduler_preempt` that can be interrupted |
| `Fd` | `call.cpp`, `fd.cpp`, `vfs.cpp`, `initrd.cpp`, `stdio.cpp` | open files |
| `HashTable` | `hashtable.hpp` | operators on a table as a value |
| `AbstractMap` | what the table promises | a partial function of at most `Capacity` keys |
| `Path` | `path.cpp` | the two scans of a path |
| `PathScan` | a caller of `Path` | any path; compared with the split at `/` |
| `Vfs` | `vfs.cpp`, `initrd.cpp`, `tar.cpp`, `pipe.cpp` | the tree from the archive to the mounted pipes, on `HashTable` and `Path` |
| `Ring` | `fifo.hpp` on `queue.hpp` | a pipe as a value |
| `RingRace` | the same, one memory access per step | reader and writer that interrupt each other |
| `TextMode` | `textmode.cpp` | the screen as a value |
| `Console` | `kbd.cpp`, `tty.cpp`, `in.cpp`, `shell.cpp`, `log.cpp`, `lock.s` | from a key to the screen, on `Ring` and `TextMode` |
| `Vector` | `vector.hpp` | vectors, their arrays and what is freed |
| `Format` | `conv.cpp`, `fmt.hpp`, `math.hpp` | numbers as text; compared with reading the text back |
| `Clock` | `cmos.cpp`, `clock.cpp` | the reading loop against a running clock |
| `BootMem` | `multiboot.cpp`, `arch.cpp`, `kmem.cpp`, `pool.cpp` | memory at boot |
| `Intr` | `gdt.cpp`, `idt.cpp`, `pic.cpp`, `pit.cpp`, `kbd.cpp`, the assembly, on i386 and amd64 | interrupts from `kentry` on |
| `PoolProofs` (also of `PoolScan`), `SchedProofs` (also of `IncrementLoop`), `FdProofs`, `HwLockProofs`, `VfsProofs` (also of `PathScan`) | | theorems about one module each |
| `RingProofs` | | theorems about `RingRace` and `Console` |
| `UnitProofs` | | theorems about `Queue`, `Vector`, `Intr`, `Clock` and `BootMem` |
| `Recursion` | | induction and recursion, as facts that the other proofs cite |
| `MC*` | | small instances for TLC; `MCUnits` runs nine modules that meet no other |

Definitions keep the names of the functions they model. Definitions with a
comment "Mutant of" are wrong on purpose; nothing uses them, and `PROJECT.json`
names the property each one breaks.

**Queue.** `head` is the newest slot and `tail` the oldest; an empty ring keeps
`head = tail`. `out` is what the last `pop` returned. `pop` has the guard that
the readers of a pipe test first; `scheduler_increment` does not test, and
`RunQueueNeverEmpty` of `Sched` shows that it need not.

**Pool.** Every operation is one step, under the pool's spinlock. The pool
keeps no record of its allocations; `live` is what the callers hold, and the
properties relate it to the two bits per block. The four panics are terminal:
`panic()` hangs, so the run does not check for deadlock. A free may name any
block and any offset in it, as a faulty caller would. Frees of addresses outside
the pool, which the code tests for, and requests so large that rounding them up
wraps `size_t`, are not modelled.

**HwLock.** A thread is a stack of frames; an interrupt pushes a frame with
interrupts off, `iret` pops it and resumes any thread, since the timer handler
may switch. Programs are sequences of `lock`, `unlock` and `work`: `Flat` is a
getter, `Nested` is `spawn_thread`. The ghost `clean` says that no interrupt
has come inside `lock()` or `unlock()`.

**Sched.** A handler runs with interrupts off and is one step. A thread can be
interrupted between any two of its steps, and a step is what a section
protects until the first `unlock()` in it. That is why `spawn_thread` is five
steps (`spawn_enter`, `spawn_add`, `spawn_lid`, `spawn_list`, `spawn_push`):
`kmem_alloc` inside it ends the section. This granularity rests on
`HwLock!SoundWhenClean`: interrupts inside `lock()` and `unlock()` themselves
are the subject of `HwLock`, where they break the lock. Thread 0 is the tty
thread, an endless loop; thread 1 is `init`, the only thread that spawns others
after boot. The threads of a process are a hash table (`HashTable`) whose memory
nobody clears: `Leftover` is what it may hold. Slots that look used there count
towards its capacity, `add` fails without a word when none is left, and `remove`
may take a leftover entry that has the thread's key. `ProcListsThreads` promises
what remains true: every thread is listed as long as the slots found in use and
the threads ever spawned fit in together, and a table found clean lists nothing
else. The counter of entries starts at 0 whatever was left, so that removing a
leftover entry can take it below 0 (in the code it wraps; only `proc::display`
reads it). The loop of `scheduler_increment` is replaced by its result: the first task with the least
positive `cpriority`, and the queue rotated and counted down.

**SchedYield** adds `scheduler_preempt` called from the system call, with
interrupts on, in six steps.

**Fd.** Each access to a table is one step. The tree of inodes is a constant:
it is built at boot and no caller changes it later. `opened`, `delivered`,
`shared` and `leftover` are history variables. Contents of files are abstracted
to offsets, results of READ and WRITE to nothing. Nothing in the kernel calls
`pipe_init`, which would give pipes their functions: OPEN refuses a pipe as it
refuses a directory, no descriptor is ever writable, and the functions of
`pipe.cpp` are never reached.

**HashTable, Vfs.** A table is the record of its three arrays. Every function of
`vfs.cpp` holds its spinlock for one access to a table, and is one step or part
of one; `initrd_create` has a step for each. An archive is a sequence of blocks
that `tar` writes, headers and data apart, and `NextHeader` finds its way from
the size of a file to the next header as `tar_next` does. `create_inode` does
not look whether the table had room, so a full table leaves children that do
not exist. After boot the remaining functions of the tables (`delete_inode`,
`set_type`, ...) are called in any order.

**Console.** A thread's push and pop are several steps (`move_head`, `put_item`,
`raise_length`; `load_length`, `lower_length`, `take_item`, `move_tail`), so
that the keyboard handler comes in the middle of the shell's pop from `inpipe`,
and the output thread in the middle of the shell's push into `outpipe`, or the
shell in the middle of its pop: `tty_out_thread` takes no lock. A length loaded
before the other's change is stored after it and undoes it, as in the code. The
pushes of handlers, which nothing interrupts, are one step. `MaxMeets` bounds how
often a push and a pop meet; `clean` says that `outpipe` has never overflowed and
that no push and pop have met in it. In `inpipe` they may: the keys may then come
late, twice or never, and the screen still shows the line. In `outpipe` the
code can lose output or show it twice, although `tty_write` pushes in a "critical
section": that is what `clean` leaves open. The screen, the
line and both pipes are values. The interrupt lock of the log is left to `HwLock`.

**RingRace.** A thread pops, the handler of the keyboard pushes in the middle
of it. Every load and store of `length`, `tail` and `head` is a step of its own,
where `Console` puts those together that one step of a push or pop makes. `apart`
says that the two have not met in the ring: neither began while the other was
under way, and no push found it full.

**BootMem.** Memory is a function from addresses to what is there: the byte of a
module, or nothing. `mem_copy` copies forward, so that an overlap does what it
does in the code. `loaded` are the tags as the loader passed them and `harmed`
is the set of modules that were overwritten before they could be moved: a later
module by an earlier one, or a module by the copy of itself. The second happens
to a module that begins inside the kernel's last page, never to one on a page
boundary. `BootLayout` says what holds all the same; that every moved
module is whole, as the code's comment has it, is `ModulesKept`, which fails.
`pool_construct` clears a byte per block, four times its map, and writes past the
heap's allocation (with the 16 MB and 64-byte blocks of the code, 261,123 bytes
are cleared for a map of 65,281). The write does not stay inside the heap's own
memory; `BootLayout` says what holds: every byte that is cleared lies behind
everything that was handed out, so that nothing of anybody's is harmed.
Memory is large enough for what is moved.

**Intr.** The processor is modelled as far as the code relies on it: which gate
it takes, what it pushes, when it masks. The two controllers keep requests and
interrupts in service; devices raise requests at any time, also before and
during `pic_init`, and a request may vanish (the spurious interrupt). Segments
and gates are built by the shifts and masks of the code and decoded by the
processor's rules, on i386 and amd64.

**Clock.** The hardware changes its registers at any point of the loop, with the
update flag set before it; moments run through the end of a minute, a day and a
year. `ClockRight` asks for the time at one moment of the call in all its fields,
except for the half of the day in the hours after noon and midnight of a clock
that counts to twelve; `ClockTold` asks for those too and fails.
`CURRENT_YEAR` and the register of the century, which is never read, are
as in the code.

**Vector.** Copies and moves go from any vector to any, itself included. `seq`
is what a vector holds by the promise of its functions: a move empties the vector
it takes from, also if that is itself. The one operation that breaks the promise
is the copy of a vector to itself, which reads the array it has just allocated:
the model does what the code does, and `seq` says junk for that case. Nothing in
the present code copies a vector to itself.

How they fit: `Sched` uses the run queue as a sequence with append and head,
which `QueueImplementsFifo` justifies as long as it is not full. `Fd` takes
from `Sched` that `get_current()` is the process of the running thread
(`SchedCurrentIdentity`), and from `Vfs` that a path leads to one inode with the
functions of its type (`InitrdFaithful`, `PipesFaithful`). `Console` takes from
`Intr` that a key that waits is handled (`InterruptsHandled`).

## 3. Runs

| Run | Instance | Distinct states | Shows |
|---|---|---|---|
| `hwlock` | 2 threads, nested sections, 3 frames | about 86,000 | lock never left set; exclusion while `clean` |
| `hwlock_window` | 2 threads, flat sections | violation | an interrupt inside `lock()` breaks exclusion |
| `hwlock_nested` | 2 threads, nested sections | violation | the inner `unlock()` ends the outer section |
| `sched` | 4 threads, 2 processes, priorities 0, 1, 2, 0, thread tables of 4 slots | about 56,000 | no thread lost, duplicated, mistaken, starved |
| `sched_yield` | 3 threads | violation | YIELD interrupted by the timer loses a context |
| `fd` | 2 threads in one process or two, 2 descriptors, two files, pipe, directory, missing path | about 1,850,000 | open files under concurrent calls |
| `fd_open` | the same | violation | OPEN of a missing path returns descriptor 0 |
| `vfs` | table of 6 entries, 10 inodes, up to 2 archives, 3 calls after boot | about 6,600 | table = map; paths lead to what the archive lists; `display` prints it |
| `console` | screen 3 x 3, pipes of 3, line of 4, 12 scripts of keys, one meeting | about 522,000 | screen = line; everything typed is answered |
| `units` | see below | about 348,000 | nine modules that share nothing, one at a time |
| `clock_noon` | as `units` | violation | noon and midnight of a twelve hour clock |
| `boot_modules` | as `units` | violation | a module that is moved overwrites another or itself |

In `units` the variable `unit` chooses which module runs; the others stay where
they began. What its properties say: `QueueTypeOK`, `RingShape` and
`ImplementsFifo` (indices, one ring, a buffer that drops its oldest item);
`PoolTypeOK`, `MapMatchesLive`, `LiveLargeEnough` and `ScanIsFirstFit` (the map
of blocks is the live allocations, they are large enough, the loops find the
first fit); `PipeSafe` (pipe under interruption), `VectorIsSeq`, `PathIsSplit`,
`FormatFaithful`, `ClockRight`, `BootLayout`, `InterruptsHandled`. Where the code
is wrong in a corner, either a run of its own shows it (`clock_noon`,
`boot_modules`), or the property says what the code does there: a vector copied
to itself holds junk, the clearing of the heap's map goes past the heap, the most
negative number is written as zero, and exception 17 reports a wrong error code.

*Bounds.* Three slots and two items are enough for a ring that is empty, partly full, full,
wrapped and overwritten. Six blocks of three bytes hold runs of one to three blocks with
holes between them, and the requests for 0, 3, 4 and 7 bytes end on and after a
block boundary. Three
frames are an interrupt inside the handler's own section after it has ended
early. Four threads give `init` two children that can be half created, dead or
queued while it spawns the next. Two descriptors and two threads give a double
close, a close during a read, two overlapping reads, and an id in the process
that differs from the global one; READ asks for three bytes of a file of three,
so the end is met in the second call. The list of the threads of a process has
4 slots in `sched`, and what is found in it ranges from nothing over an entry with
a thread's key to no room at all. The other tables of 256 entries never fill in
`sched` and `fd`; the table of 6 in `vfs` does, with ids that collide after a
removal and a table that is full while the archive is still read. One archive is
empty; the others have files before their directory, an entry listed twice, a file with another
one below it, sizes of zero and below, on and above a block, a file in the place
of a pipe, and disks with and without `dev`. Nine cells of screen and a line of
three characters behind the prompt wrap and scroll in every position; one meeting
of a push and a pop is enough to undo a change of the length, and what the pipe is
like afterwards is carried through the rest of the script (two meetings give
about 2,030,000 states and nothing new); the scripts
have erasures past the start of the line, a full line, a line that ends in a
command that kills the shell or stops the kernel, unknown keys, and keys faster
than the reader. In `units`, paths have up to 7 characters and names up to 2, so
that elements are cut off; numbers have 8 bits in the bases 2 to 16 with every
padding; the pipe has 3 slots and gets 4 characters; two vectors share a heap of
3 arrays; 3 tags are read at boot, of up to 4, and modules lie before, behind
and across the place they are moved to; the keyboard holds up to 2 bytes, and
requests come on the lines of the timer, the keyboard and, on each controller,
one that nobody binds. The two vectors,
their two items and the two items of the ring are symmetric: no definition tells
one from the other.

*Fairness.* `sched` assumes weak fairness of the timer: the PIT raises its
interrupt for ever and threads run with interrupts enabled. Nothing is assumed
of the threads: one may stop at any step, as a thread that spins does. `console`
assumes weak fairness of the keyboard handler, the shell's thread and the output
thread: `EveryTaskRuns` of `sched` gives every thread its turns, and `Intr`
shows that a waiting key keeps its request. Nothing is assumed of the person who
types.

*Deadlock* is checked where the system must go on (`hwlock`, `fd`) and not
where `panic()` hangs the kernel (`sched`, `sched_yield`, `console`, and the heap
in `units`) or where what was asked is done (`vfs`, `units`).

### Findings

* `hwlock_window`: `lock()` reads the interrupt state into the shared
  `hw_int_enabled` and tests it afterwards. A handler that comes in between runs
  its own section with interrupts off and leaves `hw_int_enabled` FALSE; the
  thread then skips `cli`, sets `hw_locked` and works in its section with
  interrupts on. The next handler finds the lock set, skips `lock()` and works
  too. (`unlock()` executes `sti` before it clears `hw_locked`, which opens
  another window of the kind; the shortest counterexample is the one in `lock()`.)
* `hwlock_nested`: the lock has no depth, so the comments "Begin critical
  section" and "End critical section" do not hold for a section that calls a
  function with its own.
* `sched_yield`: `scheduler_preempt` is not re-entrant, though `call.cpp`
  enables interrupts before it calls it.
* `fd_open`: OPEN reports a missing path as descriptor 0, `fopen` expects -1.
  For a process that has a file open, descriptor 0 is the first one it opened:
  reading the missing file reads that one, and closing it closes that one.
* `clock_noon`: the "12-hour to 24-hour clock" conversion adds twelve hours to
  every hour of the afternoon, modulo 24, and nothing to an hour of the morning:
  12 PM becomes 0 and 12 AM becomes 12.
* `boot_modules`: modules are relocated "to avoid conflicts", to a place behind
  the kernel where another module, or the module itself, may still lie.

Nothing issues YIELD, and all callers of the scheduler use priority 0; the model
covers the interfaces as they are written.

## 4. Proofs

All theorems hold for every value of the constants that the assumptions in the
modules allow.

* `UnitProofs`, the ring: `QueueTypeCorrect`, `QueueRingShape` and
  `QueueImplementsFifo`, for every `N > 0`. The inductive invariant is `QueueTypeOK`
  and `RingShape`: the three indices are updated independently, and only
  `RingShape` says that the slot a push writes is the one after the newest
  item. The refinement maps the ring to the sequence from `tail` to `head` and
  shows each step, the overwriting push included, to be a step of
  `AbstractFifo`; the facts about `%` are lemmas of their own.
* `PoolProofs`: `PoolTypeCorrect`, `PoolMapMatchesLive`,
  `PoolLiveLargeEnough`, for every pool size, block size and set of requests.
  The inductive invariant is the conjunction of the three. The step that needs
  it most is `pool_dealloc`: the tails behind a head up to the next block that
  is none are exactly the rest of one allocation, because allocations are
  disjoint and each used block belongs to one. `PoolScanIsFirstFit` goes on to
  the loops: packing the map into bytes and unpacking it is the identity
  (`BytesAreMap`, an induction over the blocks written), the inner loop stops
  at the first used block or at the end of the run, and the outer loop, which
  goes on behind that block, skips no run that is long enough.
* `SchedProofs`: `SchedTypeCorrect`, `SchedScheduleExact`,
  `SchedCurrentIdentity`, `SchedRunQueueNeverEmpty`, `SchedOnlySelfKill` and
  `SchedProcListsThreads`, for up to 256 threads, any number of processes, any
  priorities, and any memory and capacity of the thread tables. `ScheduleExact` and `CurrentIdentity` are
  not inductive alone. The invariant `IInv` adds `SpawnInv` (ids not handed out
  yet have no entry; the thread that `spawn_thread` has entered but not
  scheduled is still new, because nobody can run it) and `SelfInv` (a thread
  about to kill an id is about to kill itself; the tty thread is alive). The
  lemmas `RotatedQueue` and `PushedQueue` state what the queue operations keep;
  `PreemptIInv` covers the timer and the exceptions at once.
  `RunQueueNeverEmpty` follows because the tty thread is in the table, not
  running when the running task is dead, and hence in the queue.
  `ProcListsThreads` needs `ListInv` on top: two threads of a process never have
  the same local id, so that removing one entry never removes another thread's;
  and `RoomInv`, which counts: the slots in use are at most the ones found in use
  and one for each thread spawned so far, so that under the condition of the
  property `add` finds a slot that is free.
  `SchedLoopIsPick` shows that the loop of `scheduler_increment`, a recursion
  over queues that need not end on every queue, ends on those that occur: the
  least positive priority decreases with each turn of the queue.
* `FdProofs`: `FdTypeCorrect`, `FdOneOwner`, `FdNoDanglingFd`, `FdUsesOwnFile`,
  `FdOffsetExact` and the action property `FdClosedByOwner`, for any finite set
  of threads and any processes, files and number of descriptors. The invariant
  has two parts. `BaseInv` holds whatever was left in memory: the counters leave
  room for every OPEN that is about to create a file, and numbers not given out
  name nothing. `CleanInv` holds if the tables began empty: entries and open
  files are in bijection (`EntryInv`, `OwnedInv`); a descriptor and an open file
  that a preempted call holds belong together or to nobody (`HeldInv`), because
  numbers are not reused; the file is closed before its descriptor is removed
  (`ClosingInv`, `DanglingInv`); a READ computes with the inode and the offset
  of its own file unless it overlapped another one (`ReadInv`, `OverlapInv`,
  `OffsetInv`).
* `HwLockProofs`: `HwLockTypeCorrect`, `HwLockNoOrphan`,
  `HwLockSoundWhenClean`, for any threads, any depth of interrupts and any
  programs in which every `lock()` is followed by an `unlock()`
  (`ClosedAssumption`; all sections of the kernel are). `OrphanInv` says that a
  set lock is owed an `unlock()` by some frame, interrupted or not: that is
  inductive even though the lock can be taken away from its holder. `CleanInv`
  describes the two flags at each instruction of the running frame and says
  that all other frames wait between two calls, outside any section.
* `RingProofs`: `RingPipeSafe`, for every size of the pipe above one. While
  reader and writer keep apart, the invariant says at each instruction of either
  which cells hold which characters: between the store of `length` and the
  store of `tail` the ring is one shorter than its cells, and in the middle of a
  push `head` is ahead of `length`. `LengthInv` is needed also when they meet:
  the loaded length is never so old that a store would wrap it.
  `ConsoleTypeCorrect` and `ConsoleLineShown` are about the whole console, for
  every size of screen, pipe and line, any scripts and any texts. The invariant
  `ConsoleInv` looks at the screen as it will be when the output pipe and what
  the shell has still to write are shown (`Coming`): unless output was lost, that
  screen shows the prompt and the line and is blank behind the cursor
  (`LineInv`). Writing one character from the pipe leaves it as it is, since it
  is one round of a fold over the text; a scroll moves every cell by a row. In the
  middle of a push or a pop the pipe itself is no queue: `Out` is the pipe as if
  the push under way were done and the pop under way not begun, and `OutInv` says
  at each step of either, as long as they do not meet, which fields differ from it.
  `LineRoom` says when the line has room for another character.
* `VfsProofs`: `VfsInodeTableIsMap`, the refinement of `AbstractMap` by the hash
  table, for every capacity and any number of inodes. The invariant `Table` says
  that keys are unique and below the counter. The central lemma is `FindEntry`:
  the probe from `hash(key)` visits every slot (`ProbeOnto`, arithmetic of `%`),
  so `get` and `remove` find a key wherever `add` put it; since lookups do not
  stop at an unused slot, a removal in the middle of a chain hides nothing.
  `VfsTypeCorrect`: the invariant `TypeInv` adds to the types of the variables
  (`VfsTypes`) that every table counts its entries, holds one for an id at most and
  has its keys below a counter (`Tables`), and where boot is (`Place`): an inode that is being made is
  the newest one, the element that is read exists, the archive is not empty.
  `PathsAreSplit`: the scans of `path.cpp` give the elements of every path, of
  any length and any characters; the invariant of the scan relates its counter
  to the runs between separators.
  `VfsDisplayFaithful` looks at the tree in the table as a function from inodes
  to their children (`Tree`). The invariant `TreeInv` says that a child is younger
  than its parent and than the children before it and has one parent (`Linked`);
  that an inode hidden by an older one of its name is a leaf (`Hidden`), which is
  what lets `fs` print it under a path that leads to the older one; that names
  differ as long as the archives are read; and that the inode to be mounted has
  no children and no sister of its name. None of these survives a step without
  the others: a mount keeps the order of ages only because the new inode is the
  newest, and keeps `Hidden` only because it has no children. From it the depth of
  the tree is bounded by the number of inodes, so the recursion of
  `vfs_print_inode` ends, and the lines are found by an induction over depth, the
  paths by one over their elements.
  `VfsInitrdFaithful` and `VfsPipesFaithful` relate what was read to what paths
  lead to. First, an archive in memory gives its files back: a name that `tar`
  joined is split into the same elements (`JoinSplits`), the header of the n-th
  file is the block after the files before it (`TarAt`), and `tar_next` goes from
  there to the next one or stops (`NextHeaderIs`, `HeaderIs`). Then three
  invariants. `PackInv`: until boot is over an inode is in the table exactly if
  it was made while there was room, and the slots hold what `tar` makes of an
  archive. `DiskInv`, while an archive is read: some n is the file that is read;
  no path leads anywhere but what was `Seen` up to this element (`Reaches`); a path
  with the functions of a file is a regular file whose first entry in the archive
  has the block that `inodes` holds (`Opens`); with room everything that was seen
  is found, with its type (`Finds`); and the element that boot is at leads to
  the inode in its hands, unless that one did not fit (`Leads`). Without room the
  last is weaker and the next elements may be mounted in an inode that is not in
  the table: paths are then missing, but none is wrong. `AfterInv`, from there on,
  says the same of the whole archive and of the pipes mounted so far, and survives
  the exported functions because they end paths and take functions away but
  give none (`AfterKept`). A mount adds one path, or none if an older child has the
  name (`WalkMount`, `WalkHidden`), since no two paths lead to the same inode
  (`WalkInjective`).
* `UnitProofs`: `UnitVectorIsSeq` for any vectors, items and number of arrays
  (the invariant gives each living vector an array of its own that is not free,
  and `push` never writes past it, because a full array is replaced first;
  assignments of a vector to itself are steps like the others).
  `UnitInterruptsHandled` for any devices: the invariant follows boot step by
  step (which gates are bound, which lines are open, and that a line is opened
  only after its gate), and says that a handler runs with interrupts off on top
  of a thread or of a system call, with exactly its own interrupt in service.
  That the descriptors bit by bit are flat code segments, and what the exception
  stubs push, are lemmas. `UnitClockRight` for any times: the invariant names
  the moment at which the present round began. Registers of the last round were
  read before it and those of this one after it; if the two agree, no register
  changed in between, so all are those of that moment. The decoding of BCD and
  of the twelve hour clock is proved for all times, but for the half of the day at
  twelve o'clock, where the code is wrong. `UnitBootLayout` for any modules a
  loader places: the forward copy is followed byte by byte, and what the heap's
  construction clears behind its memory is shown to be nobody's, as nothing is
  allocated there.

Assumptions on the constants, all evaluated by TLC on the instances:
`Moments` in `Clock` are times in the hundred years that `cmos_read` can tell
apart, and in one call no register returns to a value that it has left (a call
does not take a minute of clock time); threads are finite in `Fd`; `ClosedAssumption`
in `HwLock`; `ArchiveAssumption` in `Vfs`: `tar` writes names without a separator
that fit into `FILENAME_MAX`, and octal digits; `PipeAssumption`: the two pipes
that `tty_init` mounts have different paths, neither directly below the other;
`StringAssumption`: separator and flags are strings; `LoaderAssumption` in
`BootMem`: a boot loader places modules inside
memory, apart from one another and from the kernel; `ConsoleAssumption`: the
texts that the kernel prints have no backspace, the prompt has no line break, and
the longest line with its prompt leaves a row of the screen free (80 by 25 cells
and a line of 64); sizes are natural numbers, positive where the code divides by
them. The inductive invariants of `Sched`, `Fd`, `HwLock`, `RingRace`, `Console`,
`Vfs`, `Vector`, `Intr` and `Clock` were checked by TLC on the instances of the
runs; `DiskInv` and `AfterInv` of `VfsProofs`, which speak of all paths, for those
that the archives and pipes of the instance have.

*Loops.* A loop is a recursive function or a fold in the model. `Recursion` has
what is needed to reason about them: a set of numbers that holds 0 and with each
number the next one holds all (`Induction`, `BoundedInduction`,
`DownwardInduction`), so that an induction is the proof that a set of numbers is
such a set; a function defined by recursion satisfies its definition
(`RecursiveFunction`, and `LoopSolution` for a loop that need not end); and the
rounds of a fold over a sequence (`FoldSolution`).

Only model-checked, and why:

* `DeadIsReaped`, `EveryTaskRuns` and `ComesToRest`:
  fairness is outside the prover's reach.
* `FormatFaithful`: digits are powers of a base, and the provers know nothing of
  exponentiation.
* The violations, which are counterexamples.

## 5. Plan

1. Done: `Queue`, `Pool`, `HwLock`, `Sched`, `SchedYield`, `Fd`; first proofs.
2. Done: `HashTable`, `Vfs`, `Path`, `Console`, `TextMode`, `RingRace`,
   `Vector`, `Format`, `Clock`, `BootMem`, `Intr`.
3. Done: proofs about `Fd`, `HwLock`, `ProcListsThreads`, the hash table,
   `RingRace`, `Vector`, `Intr`, `Clock`.
4. Done: proofs about the loops of `pool_alloc`, `scheduler_increment`,
   `path.cpp` and `mem_copy`, about the console and about the tree of files.
5. Done: the pushes and pops of the console taken apart, the threads of a process
   in a real hash table, vectors assigned to themselves.
6. Left: step properties of `SchedYield` that hold while YIELD is not
   interrupted.

## 6. Not modelled

* PS/2 and serial ports: `ps2_8042_init` is not called, and `tty_init` opens a
  serial port only under a condition that is always false. PCI is not scanned.
  The start code before `kentry`, which sets up page tables, the ARM port and
  debug output are straight-line register writes, or output.
* `proc::display`, `pool_display` and the text of the shell's messages: output
  only.
* Sizes of stack frames. A thread has 2048 bytes of stack, and `proc::create`
  alone puts several kilobytes of hash table on it; the model has no bytes of
  stack.
* More than 256 live threads, processes or descriptors in `thread_table`,
  `proc_table` and the table of open files, where `add` fails silently. What
  follows from that is shown for inodes in `vfs`.
* A second writer to the terminal: in the present code the shell is the only
  thread that takes the spinlock of `tty.cpp`, so that nothing waits while
  `tty_read` holds it (see the hazards).
* Bases of 1 and above 16 in `conv.cpp`, and the buffer that a failed conversion
  leaves without terminator.
* The list of old log lines, which grows until the heap is empty.
* The spinlock of `vfs.cpp` as a lock: its sections are steps. A thread
  preempted inside one would block `create_fd`, which waits for it with
  interrupts off (see the hazards).
* Properties of `Fd` when the descriptor table of a process starts with entries
  left in memory: the runs explore those states, but a leftover entry can name
  an open file of another process, so the properties are stated for clean
  tables (`Clean`).
