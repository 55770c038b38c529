----------------------------- MODULE SchedYield -----------------------------
(***************************************************************************)
(* The YIELD system call (kernel/sys/call.cpp).  The handler turns         *)
(* interrupts on first, "since the kernel is re-entrant", and then calls   *)
(* scheduler_preempt, the same function the timer interrupt calls.  Its    *)
(* sections last until the first unlock() inside them, so the timer may    *)
(* come between any two of the steps below.                                *)
(***************************************************************************)
EXTENDS Sched

VARIABLE new_stack     \* the local of scheduler_preempt in each thread

yvars == <<vars, new_stack>>

\* ctask.thread.set_stack(old_stack)
yield_save(t) ==
    /\ Running(t) /\ pc[t] = "body" /\ t # TTY
    /\ stack' = SavedStack(state)
    /\ Goto(t, "y_push")
    /\ UNCHANGED <<state, tables, threads, sched, spawn, me, halted, new_stack>>

\* scheduler_increment: the running task is alive and goes back ...
yield_push(t) ==
    /\ Running(t) /\ pc[t] = "y_push"
    /\ schedule' = Requeued(state)
    /\ Goto(t, "y_pop")
    /\ UNCHANGED <<state, stack, tables, threads, ctask, cthread, cproc, cpu, spawn, me,
                   halted, new_stack>>

\* ... the next one is chosen ...
yield_pop(t) ==
    /\ Running(t) /\ pc[t] = "y_pop"
    /\ \E i \in 1 .. Len(schedule) :
           /\ IsPick(schedule, i)
           /\ schedule' = Rotated(schedule, i)
           /\ ctask' = Picked(schedule, i)
    /\ Goto(t, "y_set")
    /\ UNCHANGED <<state, stack, tables, threads, cthread, cproc, cpu, spawn, me,
                   halted, new_stack>>

\* ... and made current.
yield_set(t) ==
    /\ Running(t) /\ pc[t] = "y_set"
    /\ cthread' = ctask.thread
    /\ cproc' = tproc[ctask.thread]
    /\ Goto(t, "y_get")
    /\ UNCHANGED <<state, stack, tables, threads, schedule, ctask, cpu, spawn, me,
                   halted, new_stack>>

\* new_stack = ctask.thread.get_stack()
yield_get(t) ==
    /\ Running(t) /\ pc[t] = "y_get"
    /\ new_stack' = [new_stack EXCEPT ![t] = stack[ctask.thread]]
    /\ Goto(t, "y_go")
    /\ UNCHANGED <<state, stack, tables, threads, sched, spawn, me, halted>>

\* Start the task or return into it; what is left on this stack is the
\* frame of the system call, which returns to the body of the thread.
yield_go(t) ==
    /\ Running(t) /\ pc[t] = "y_go"
    /\ state' = [state EXCEPT ![ctask.thread] = IF @ = "NEW" THEN "ACTIVE" ELSE @]
    /\ cpu' = IF state[ctask.thread] = "NEW" THEN stack[ctask.thread] ELSE new_stack[t]
    /\ Goto(t, "body")
    /\ UNCHANGED <<stack, tables, threads, schedule, ctask, cthread, cproc, spawn, me,
                   halted, new_stack>>

YieldInit == Init /\ new_stack = [t \in Tids |-> NONE]

YieldNext ==
    \/ Next /\ UNCHANGED new_stack
    \/ \E t \in Tids : \/ yield_save(t) \/ yield_push(t) \/ yield_pop(t)
                       \/ yield_set(t) \/ yield_get(t) \/ yield_go(t)

YieldSpec == YieldInit /\ [][YieldNext]_yvars

-----------------------------------------------------------------------------
\* "the kernel is re-entrant": an interrupt during a system call leaves every
\* thread its own saved context.
SavedContextOwn == \A t \in ThreadEntries : stack[t] = t
=============================================================================
