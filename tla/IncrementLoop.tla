--------------------------- MODULE IncrementLoop ---------------------------
(***************************************************************************)
(* The loop of scheduler_increment (kernel/proc/scheduler.cpp), compared   *)
(* with the choice Sched makes in its place.                               *)
(***************************************************************************)
EXTENDS Sched

\* The queues on which the loop may start: a pop needs a task.
RunQueues == Seq([thread : Tids, cpriority : Int]) \ {<<>>}

\* A task that is not due is counted down and pushed back.
CountDown(q) == Append(Tail(q), [Head(q) EXCEPT !.cpriority = @ - 1])

\* Mutant of Loop: a task is due one round late.
LoopLate(queue) ==
    LET loop[q \in RunQueues] ==
            IF Head(q).cpriority < 0
            THEN [task |-> Head(q), queue |-> Tail(q)]
            ELSE loop[CountDown(q)]
    IN  loop[queue]

\* Pop tasks until one is due; count the others down and push them back.
Loop(queue) ==
    LET loop[q \in RunQueues] ==
            IF Head(q).cpriority <= 0
            THEN [task |-> Head(q), queue |-> Tail(q)]
            ELSE loop[CountDown(q)]
    IN  loop[queue]

\* In every state in which a timer interrupt can come, the loop ends, with
\* the task and the queue that Preempt chooses.
LoopIsPick ==
    LET q == Requeued(state)
        r == Loop(q)
    IN  \E i \in 1 .. Len(q) :
            IsPick(q, i) /\ r.task = Picked(q, i) /\ r.queue = Rotated(q, i)
=============================================================================
