------------------------------- MODULE Sched -------------------------------
(***************************************************************************)
(* Threads, processes and the preemptive scheduler: kernel/proc/proc.cpp,  *)
(* kernel/proc/scheduler.cpp, the timer and exception handlers that call   *)
(* scheduler_preempt (kernel/x86/pit.cpp, kernel/exception.cpp) and the    *)
(* boot sequence that starts the first two threads (kernel/main.cpp,       *)
(* kernel/dev/tty.cpp).                                                    *)
(*                                                                         *)
(* An interrupt handler runs with interrupts off and is one step.  A       *)
(* thread is interrupted between any two of its steps; a step is what an   *)
(* hwlock section protects, up to the first unlock() in it (HwLock,        *)
(* SoundWhenClean).  spawn_thread therefore is five steps: the heap        *)
(* allocation inside create_thread has a section of its own, whose unlock  *)
(* turns interrupts on again for the rest of spawn_thread.                 *)
(*                                                                         *)
(* The run queue, thread_table and proc_table hold 256 entries and start   *)
(* empty; fewer threads and processes than that are ever created here, so  *)
(* that a push is an append and an add to them succeeds.  The table of the *)
(* threads of a process is part of a local of create() that nothing        *)
(* initialises: it is the hash table itself, over whatever was there.      *)
(***************************************************************************)
EXTENDS HashTable

CONSTANTS MaxThreads,   \* bound: threads ever created
          MaxProcs,     \* bound: processes ever created
          Priority,     \* the priority each thread is scheduled with
          Leftover      \* what an uninitialised hash table may hold

Tids == 0 .. MaxThreads - 1
Pids == 1 .. MaxProcs

\* The hash tables with the threads of a process; item_count starts as 0.
ThreadTable == [used : [Slots -> BOOLEAN], keys : [Slots -> Nat], data : [Slots -> Nat],
                item_count : Int]

ASSUME SchedAssumption ==
    /\ MaxThreads \in 2 .. 256 /\ MaxThreads <= HASHTABLE_CAPACITY
    /\ MaxProcs \in 1 .. HASHTABLE_CAPACITY
    /\ Priority \in [Tids -> Int]
    /\ Leftover \subseteq ThreadTable

NONE == -1      \* ID_INVALID; as the owner of a stack, the boot code
TTY  == 0       \* tty_out_thread, an endless loop, spawned by tty_init
INIT == 1       \* init, spawned by main; the only thread that spawns others
KPROC == 1

VARIABLES
    state,           \* thread_table: the state of each thread, "none" without entry
    lid,             \* thread_table: the id of a thread in its process
    tproc,           \* thread_table: its process
    stack,           \* thread_table: whose context the saved stack pointer is
    thread_counter,
    proc_counter,
    lid_counter,     \* proc_t::thread_counter of each process
    threads,         \* proc_t::threads of each process
    leftover,        \* history: slots of it that were in use from the start
    schedule, ctask,         \* the run queue and the running task
    cthread, cproc,
    cpu,             \* whose stack the CPU is on
    pc,              \* where the code of each thread is
    spawn,           \* the locals of spawn_thread in INIT
    me,              \* the local of proc_thread_finish in each thread
    halted           \* panic() was called

tables == <<lid, tproc, thread_counter, proc_counter, lid_counter, leftover>>
sched == <<schedule, ctask, cthread, cproc, cpu>>
locals == <<pc, spawn, me>>
vars == <<state, stack, tables, threads, sched, locals, halted>>

Task == [thread : Tids \cup {NONE}, cpriority : Int]

\* The number of slots of a table that are in use.
Taken(t) == Cardinality(Slots \ Unused(t))

\* main() has created the kernel process, spawned tty_out_thread and init
\* and enabled interrupts; it waits for the first timer interrupt.
Init ==
    /\ state = [t \in Tids |-> IF t <= 1 THEN "NEW" ELSE "none"]
    /\ lid = [t \in Tids |-> IF t <= 1 THEN t ELSE NONE]
    /\ tproc = [t \in Tids |-> IF t <= 1 THEN KPROC ELSE NONE]
    /\ stack = [t \in Tids |-> t]
    /\ thread_counter = 2
    /\ proc_counter = 1
    /\ lid_counter = [p \in Pids |-> IF p = KPROC THEN 2 ELSE 0]
    /\ \E g \in Leftover :
           /\ leftover = [p \in Pids |-> IF p = KPROC THEN Taken(g) ELSE 0]
           /\ threads = [p \in Pids |-> IF p = KPROC THEN add(add(g, 0, TTY), 1, INIT)
                                        ELSE EmptyTable(0)]
    /\ schedule = <<[thread |-> TTY, cpriority |-> Priority[TTY]],
                    [thread |-> INIT, cpriority |-> Priority[INIT]]>>
    /\ ctask = [thread |-> NONE, cpriority |-> NONE]
    /\ cthread = NONE
    /\ cproc = KPROC
    /\ cpu = NONE
    /\ pc = [t \in Tids |-> "body"]
    /\ spawn = [proc |-> KPROC, nid |-> 0, child |-> 0]
    /\ me = [t \in Tids |-> NONE]
    /\ halted = FALSE

-----------------------------------------------------------------------------
\* scheduler_increment.  The loop pops tasks, counts down the ones whose
\* cpriority is positive and pushes them back, until it meets one that is
\* not: the first of those with the least cpriority, or the first that is
\* not positive.  IncrementLoop has the loop itself.
Level(task) == IF task.cpriority > 0 THEN task.cpriority ELSE 0

IsPick(q, i) ==
    /\ i \in 1 .. Len(q)
    /\ \A j \in 1 .. i - 1 : Level(q[j]) > Level(q[i])
    /\ \A j \in i + 1 .. Len(q) : Level(q[j]) >= Level(q[i])

\* The task taken, counted down as often as the loop met it before.
Picked(q, i) == [thread |-> q[i].thread, cpriority |-> q[i].cpriority - Level(q[i])]

\* The queue after the task at index i was taken: the tasks behind it were
\* counted down once a round, the ones before it once more.
Rotated(q, i) ==
    [j \in 1 .. Len(q) - 1 |->
        IF i + j <= Len(q)
        THEN [q[i + j] EXCEPT !.cpriority = @ - Level(q[i])]
        ELSE [q[i + j - Len(q)] EXCEPT !.cpriority = @ - Level(q[i]) - 1]]

\* Mutant of Dead: a killed thread still counts as alive.
DeadWithoutEntry(st) == st[ctask.thread] = "none"

\* The running task is dead, or has no entry, which get_state calls dead.
Dead(st) == st[ctask.thread] \in {"DEAD", "none"}

\* Mutant of Requeued: the running task goes back in front.
RequeuedInFront(st) ==
    IF ctask.thread = NONE \/ Dead(st)
    THEN schedule
    ELSE <<[thread |-> ctask.thread, cpriority |-> Priority[ctask.thread]]>> \o schedule

\* Mutant of Requeued: a dead task is put back as well.
RequeuedDead(st) ==
    IF ctask.thread = NONE
    THEN schedule
    ELSE Append(schedule, [thread |-> ctask.thread, cpriority |-> Priority[ctask.thread]])

\* The queue once the running task was put back, if it is to run again.
Requeued(st) ==
    IF ctask.thread = NONE \/ Dead(st)
    THEN schedule
    ELSE Append(schedule, [thread |-> ctask.thread, cpriority |-> Priority[ctask.thread]])

\* The attributes of a thread, with the thread states st: what its entry in
\* thread_table says, and nothing if it has none.
get_lid(st, t) == IF st[t] = "none" THEN NONE ELSE lid[t]
get_process(st, t) == IF st[t] = "none" THEN NONE ELSE tproc[t]
get_stack(st, saved, t) == IF st[t] = "none" THEN NONE ELSE saved[t]

\* The entry of t leaves thread_table and the list of its process.
delete_thread(st, t) ==
    /\ threads' = IF get_process(st, t) # NONE
                  THEN [threads EXCEPT ![tproc[t]] = remove(@, get_lid(st, t))]
                  ELSE threads
    /\ lid' = [lid EXCEPT ![t] = NONE]
    /\ tproc' = [tproc EXCEPT ![t] = NONE]

\* set_state(DEAD) on a thread that has an entry.
Killed(t) == [u \in Tids |-> IF u = t /\ state[u] # "none" THEN "DEAD" ELSE state[u]]

\* The saved stack pointers once the running task has its own.
SavedStack(st) ==
    IF ctask.thread # NONE /\ st[ctask.thread] # "none"
    THEN [stack EXCEPT ![ctask.thread] = cpu] ELSE stack

set_current_thread(st, t) ==
    /\ cthread' = t
    /\ cproc' = get_process(st, t)

\* scheduler_preempt with the thread states st: save the stack of the
\* running task, reap it if it is dead (delete_thread), choose the next
\* task and continue on its stack, or start it.
Preempt(st) ==
    LET old  == ctask.thread
        reap == old # NONE /\ Dead(st)
        q    == Requeued(st)
    IN  \E i \in 1 .. Len(q) :
        LET new == q[i].thread
        IN  /\ IsPick(q, i)
            /\ schedule' = Rotated(q, i)
            /\ ctask' = Picked(q, i)
            /\ set_current_thread(st, new)
            /\ stack' = SavedStack(st)
            /\ cpu' = get_stack(st, stack', new)
            /\ state' = [t \in Tids |-> IF reap /\ t = old THEN "none"
                                        ELSE IF t = new /\ st[t] = "NEW" THEN "ACTIVE"
                                        ELSE st[t]]
            /\ IF reap THEN delete_thread(st, old) ELSE UNCHANGED <<lid, tproc, threads>>
            /\ UNCHANGED <<thread_counter, proc_counter, lid_counter, leftover, locals, halted>>

\* The timer interrupt (pit_isr_main), in a thread or in the boot code.
timer == ~halted /\ Preempt(state)

-----------------------------------------------------------------------------
\* The code of a thread.
Running(t) == ~halted /\ cpu = t

\* An exception that kills the thread (exception_handle).
fault(t) ==
    /\ Running(t) /\ t # TTY
    /\ pc[t] = "body"
    /\ Preempt(Killed(cthread))

\* An exception that the table exception_panic lists, or a heap that has no
\* block left for the stack of a new thread.
panic(t) ==
    /\ Running(t)
    /\ pc[t] = "body"
    /\ halted' = TRUE
    /\ UNCHANGED <<state, stack, tables, threads, sched, locals>>

\* proc::create, with whatever its hash table of threads held before.
create ==
    /\ Running(INIT) /\ pc[INIT] = "body"
    /\ proc_counter < MaxProcs
    /\ proc_counter' = proc_counter + 1
    /\ lid_counter' = [lid_counter EXCEPT ![proc_counter'] = 0]
    /\ \E g \in Leftover :
           /\ threads' = [threads EXCEPT ![proc_counter'] = g]
           /\ leftover' = [leftover EXCEPT ![proc_counter'] = Taken(g)]
    /\ UNCHANGED <<state, stack, lid, tproc, thread_counter, sched, locals, halted>>

Goto(t, place) == pc' = [pc EXCEPT ![t] = place]

\* Mutant of spawn_enter: the counter is incremented before it is read.
spawn_preincrement(p) ==
    /\ Running(INIT) /\ pc[INIT] = "body"
    /\ p <= proc_counter
    /\ thread_counter < MaxThreads
    /\ thread_counter' = thread_counter + 1
    /\ spawn' = [proc |-> p, nid |-> lid_counter[p], child |-> thread_counter']
    /\ lid_counter' = [lid_counter EXCEPT ![p] = @ + 1]
    /\ Goto(INIT, "add")
    /\ UNCHANGED <<state, stack, lid, tproc, proc_counter, threads, leftover, sched, me, halted>>

\* spawn_thread and create_thread up to the unlock() in kmem_alloc.
spawn_enter(p) ==
    /\ Running(INIT) /\ pc[INIT] = "body"
    /\ p <= proc_counter
    /\ thread_counter < MaxThreads
    /\ spawn' = [proc |-> p, nid |-> lid_counter[p], child |-> thread_counter]
    /\ lid_counter' = [lid_counter EXCEPT ![p] = @ + 1]
    /\ thread_counter' = thread_counter + 1
    /\ Goto(INIT, "add")
    /\ UNCHANGED <<state, stack, lid, tproc, proc_counter, threads, leftover, sched, me, halted>>

\* Mutant of spawn_add: the new thread starts on the stack of its parent.
spawn_add_same_stack ==
    /\ Running(INIT) /\ pc[INIT] = "add"
    /\ state' = [state EXCEPT ![spawn.child] = "NEW"]
    /\ tproc' = [tproc EXCEPT ![spawn.child] = spawn.proc]
    /\ lid' = [lid EXCEPT ![spawn.child] = NONE]
    /\ stack' = [stack EXCEPT ![spawn.child] = cpu]
    /\ Goto(INIT, "lid")
    /\ UNCHANGED <<thread_counter, proc_counter, lid_counter, threads, leftover, sched, spawn,
                   me, halted>>

\* thread_table.add
spawn_add ==
    /\ Running(INIT) /\ pc[INIT] = "add"
    /\ state' = [state EXCEPT ![spawn.child] = "NEW"]
    /\ tproc' = [tproc EXCEPT ![spawn.child] = spawn.proc]
    /\ lid' = [lid EXCEPT ![spawn.child] = NONE]
    /\ stack' = [stack EXCEPT ![spawn.child] = spawn.child]
    /\ Goto(INIT, "lid")
    /\ UNCHANGED <<thread_counter, proc_counter, lid_counter, threads, leftover, sched, spawn,
                   me, halted>>

\* set_lid, if the thread still has its entry
spawn_lid ==
    /\ Running(INIT) /\ pc[INIT] = "lid"
    /\ lid' = IF state[spawn.child] # "none"
              THEN [lid EXCEPT ![spawn.child] = spawn.nid] ELSE lid
    /\ Goto(INIT, "list")
    /\ UNCHANGED <<state, stack, tproc, thread_counter, proc_counter, lid_counter,
                   threads, leftover, sched, spawn, me, halted>>

\* Mutant of spawn_list: the thread is listed under its global id.
spawn_list_global ==
    /\ Running(INIT) /\ pc[INIT] = "list"
    /\ threads' = [threads EXCEPT ![spawn.proc] = add(@, spawn.child, spawn.child)]
    /\ Goto(INIT, "push")
    /\ UNCHANGED <<state, stack, tables, sched, spawn, me, halted>>

\* proc->threads.add, whose result nobody looks at
spawn_list ==
    /\ Running(INIT) /\ pc[INIT] = "list"
    /\ threads' = [threads EXCEPT ![spawn.proc] = add(@, spawn.nid, spawn.child)]
    /\ Goto(INIT, "push")
    /\ UNCHANGED <<state, stack, tables, sched, spawn, me, halted>>

\* scheduler_schedule
spawn_push ==
    /\ Running(INIT) /\ pc[INIT] = "push"
    /\ schedule' = Append(schedule, [thread |-> spawn.child,
                                     cpriority |-> Priority[spawn.child]])
    /\ Goto(INIT, "body")
    /\ UNCHANGED <<state, stack, tables, threads, ctask, cthread, cproc, cpu, spawn, me, halted>>

\* Mutant of finish_self: any entry function may return.
finish_any(t) ==
    /\ Running(t)
    /\ pc[t] = "body"
    /\ me' = [me EXCEPT ![t] = cthread]
    /\ Goto(t, "kill")
    /\ UNCHANGED <<state, stack, tables, threads, sched, spawn, halted>>

\* scheduler_bootstrap_task turned interrupts on, called the entry function
\* and calls proc_thread_finish when it returns; tty_out_thread never does.
EntryReturns(t) == Running(t) /\ t # TTY /\ pc[t] = "body"

\* proc_thread_finish asks who it is ...
finish_self(t) ==
    /\ EntryReturns(t)
    /\ me' = [me EXCEPT ![t] = cthread]
    /\ Goto(t, "kill")
    /\ UNCHANGED <<state, stack, tables, threads, sched, spawn, halted>>

\* Mutant of finish_kill: the id in the process is taken for the global id.
finish_kill_lid(t) ==
    /\ Running(t)
    /\ pc[t] = "kill"
    /\ state' = Killed(lid[me[t]])
    /\ Goto(t, "spin")
    /\ UNCHANGED <<stack, tables, threads, sched, spawn, me, halted>>

\* ... kills that thread and spins.
finish_kill(t) ==
    /\ Running(t)
    /\ pc[t] = "kill"
    /\ state' = Killed(me[t])
    /\ Goto(t, "spin")
    /\ UNCHANGED <<stack, tables, threads, sched, spawn, me, halted>>

Next ==
    \/ timer
    \/ create
    \/ \E p \in Pids : spawn_enter(p)
    \/ spawn_add \/ spawn_lid \/ spawn_list \/ spawn_push
    \/ \E t \in Tids : fault(t) \/ panic(t) \/ finish_self(t) \/ finish_kill(t)

Spec == Init /\ [][Next]_vars

\* The timer never stops while the kernel runs: threads run with interrupts
\* enabled.
FairSpec == Spec /\ WF_vars(timer)

-----------------------------------------------------------------------------
\* The state of the tables, the scheduler and the threads.
TypeOK ==
    /\ state \in [Tids -> {"none", "NEW", "ACTIVE", "DEAD"}]
    /\ lid \in [Tids -> Nat \cup {NONE}]
    /\ tproc \in [Tids -> Pids \cup {NONE}]
    /\ stack \in [Tids -> Tids \cup {NONE}]
    /\ thread_counter \in 2 .. MaxThreads
    /\ proc_counter \in Pids
    /\ lid_counter \in [Pids -> Nat]
    /\ threads \in [Pids -> ThreadTable] /\ leftover \in [Pids -> Nat]
    /\ schedule \in Seq([thread : Tids, cpriority : Int])
    /\ ctask \in Task
    /\ cthread \in Tids \cup {NONE}
    /\ cproc \in Pids \cup {NONE}
    /\ cpu \in Tids \cup {NONE}
    /\ pc \in [Tids -> {"body", "add", "lid", "list", "push", "kill", "spin"}]
    /\ spawn \in [proc : Pids, nid : Nat, child : Tids]
    /\ me \in [Tids -> Tids \cup {NONE}]
    /\ halted \in BOOLEAN

\* The threads in thread_table, and the one among them that spawn_thread has
\* not scheduled yet.
ThreadEntries == {t \in Tids : state[t] # "none"}
Unscheduled == IF pc[INIT] \in {"lid", "list", "push"} THEN {spawn.child} ELSE {}
ThreadsIn(q) == {q[i].thread : i \in 1 .. Len(q)}
Queued == ThreadsIn(schedule)
Distinct(q) == \A i, j \in 1 .. Len(q) : q[i].thread = q[j].thread => i = j

\* No thread is lost and none is scheduled twice: across preemption, exit
\* and an interrupted spawn_thread, the run queue and the running task hold
\* every thread of thread_table exactly once, and no other.
ScheduleExact ==
    /\ Distinct(schedule)
    /\ ctask.thread \notin Queued
    /\ Queued \cup ({ctask.thread} \ {NONE}) = ThreadEntries \ Unscheduled

\* Thread code that asks who it is gets the right answer: the CPU is on the
\* stack of the thread that ctask, cthread and cproc name, and every saved
\* stack pointer is of the thread it is saved for.
CurrentIdentity ==
    /\ cpu = ctask.thread /\ cthread = ctask.thread
    /\ cpu # NONE => state[cpu] \in {"ACTIVE", "DEAD"} /\ cproc = tproc[cpu]
    /\ \A t \in ThreadEntries : stack[t] = t

\* scheduler_increment never pops an empty queue, whose length would wrap.
RunQueueNeverEmpty == ctask.thread = NONE \/ Dead(state) => schedule # <<>>

\* The thread has been entered in the list of its process.
Listed == ThreadEntries \ (IF pc[INIT] \in {"lid", "list"} THEN {spawn.child} ELSE {})

\* The entries of a table, each as its key and the thread.
Listing(t) == {<<t.keys[s], t.data[s]>> : s \in Slots \ Unused(t)}

\* The list of threads of a process, over memory that nobody cleared: as long
\* as the slots found in use and the threads ever spawned fit in together,
\* every live thread of the process is in it under the id that the thread
\* believes it has; and if no slot was found in use the list is these
\* threads and nothing else, whoever was removed in between.  Where they do
\* not fit, add() fails and spawn_thread schedules the thread all the same.
ProcListsThreads ==
    /\ \A t \in Listed : tproc[t] \in Pids
    /\ \A p \in Pids :
           LET live == {<<lid[t], t>> : t \in {u \in Listed : tproc[u] = p}}
           IN  /\ leftover[p] + lid_counter[p] <= HASHTABLE_CAPACITY =>
                      live \subseteq Listing(threads[p])
               /\ leftover[p] = 0 => Listing(threads[p]) = live

\* A thread leaves thread_table or dies only by its own doing: the current
\* thread kills itself, however long it was preempted in between.
OnlySelfKill ==
    [][\A t \in Tids :
           state[t] \in {"NEW", "ACTIVE"} /\ state'[t] \in {"DEAD", "none"} => cpu = t]_vars

\* A dead thread spins until the scheduler reaps it.
DeadIsReaped == \A t \in Tids : state[t] = "DEAD" ~> (state[t] = "none" \/ halted)

\* No thread starves, whatever the priorities: each one in the queue gets
\* the CPU.
EveryTaskRuns == \A t \in Tids : t \in Queued ~> (cpu = t \/ halted)
=============================================================================
