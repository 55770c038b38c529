------------------------------- MODULE HwLock -------------------------------
(***************************************************************************)
(* hwlock_t (kernel/util/hwlock.cpp), the lock that guards the process,    *)
(* thread, scheduler and heap tables, one instruction that matters at a    *)
(* time.  Its two flags are static: every hwlock_t in the kernel is the    *)
(* same lock, and it has no owner and no nesting depth.                    *)
(*                                                                         *)
(* One CPU runs the top frame of the current thread's stack.  While the    *)
(* interrupt flag is set the timer may push an interrupt frame; its        *)
(* handler takes the lock too (scheduler_increment) and its iret resumes   *)
(* any thread.                                                             *)
(***************************************************************************)
EXTENDS FiniteSets, Naturals, Sequences

CONSTANTS Threads,
          ThreadProgram,   \* what a thread does over and over
          IsrProgram,      \* what an interrupt handler does
          MaxFrames        \* bound: frames on a stack, interrupts included

\* A program is a sequence of lock() and unlock() calls and of work, the
\* reads and writes between them.
Ops == {"lock", "unlock", "work"}

ASSUME HwLockAssumption ==
    /\ ThreadProgram \in Seq(Ops) /\ ThreadProgram # <<>>
    /\ IsrProgram \in Seq(Ops)
    /\ MaxFrames \in Nat \ {0}

\* Every lock() in the code has an unlock() after it, on every path.
Closed(program) ==
    \A i \in 1 .. Len(program) :
        program[i] = "lock" => \E j \in i + 1 .. Len(program) : program[j] = "unlock"

ASSUME ClosedAssumption == Closed(ThreadProgram) /\ Closed(IsrProgram)

VARIABLES int_flag,         \* the CPU's interrupt flag
          hw_int_enabled,
          hw_locked,
          frames,           \* each thread's stack of frames, the last runs
          cur,              \* the thread whose stack the CPU is on
          clean             \* ghost: no interrupt came inside lock() or unlock()

vars == <<int_flag, hw_int_enabled, hw_locked, frames, cur, clean>>

\* A frame has a position in its program, and one inside the lock() or
\* unlock() it is in.
Frame == [isr : BOOLEAN, op : Nat, at : {"test", "save", "check", "flip", "set"}]

Program(f) == IF f.isr THEN IsrProgram ELSE ThreadProgram
Top == frames[cur][Len(frames[cur])]

\* Replace the running frame.
Goto(f) == frames' = [frames EXCEPT ![cur][Len(frames[cur])] = f]
Step(at) == Goto([Top EXCEPT !.at = at])

\* The call returns.  A thread starts over when its program ends.
Return ==
    Goto([Top EXCEPT !.op = IF ~Top.isr /\ Top.op = Len(ThreadProgram)
                            THEN 1 ELSE Top.op + 1,
                     !.at = "test"])

\* The running frame is in a call of the given kind, at the given place.
At(op, at) ==
    /\ Top.op <= Len(Program(Top))
    /\ Program(Top)[Top.op] = op
    /\ Top.at = at

Init ==
    /\ int_flag = TRUE
    /\ hw_int_enabled \in BOOLEAN      \* not initialised
    /\ hw_locked = FALSE
    /\ frames = [t \in Threads |-> <<[isr |-> FALSE, op |-> 1, at |-> "test"]>>]
    /\ cur \in Threads
    /\ clean = TRUE

-----------------------------------------------------------------------------
\* hwlock_t::lock()
lock_test ==
    /\ At("lock", "test")
    /\ IF hw_locked THEN Return ELSE Step("save")
    /\ UNCHANGED <<int_flag, hw_int_enabled, hw_locked, cur, clean>>

lock_save ==
    /\ At("lock", "save")
    /\ hw_int_enabled' = int_flag
    /\ Step("check")
    /\ UNCHANGED <<int_flag, hw_locked, cur, clean>>

lock_check ==
    /\ At("lock", "check")
    /\ Step(IF hw_int_enabled THEN "flip" ELSE "set")
    /\ UNCHANGED <<int_flag, hw_int_enabled, hw_locked, cur, clean>>

\* Mutant of lock_cli: the call asks for the wrong value.
lock_sti ==
    /\ At("lock", "flip")
    /\ int_flag' = TRUE
    /\ Step("set")
    /\ UNCHANGED <<hw_int_enabled, hw_locked, cur, clean>>

lock_cli ==
    /\ At("lock", "flip")
    /\ int_flag' = FALSE
    /\ Step("set")
    /\ UNCHANGED <<hw_int_enabled, hw_locked, cur, clean>>

lock_set ==
    /\ At("lock", "set")
    /\ hw_locked' = TRUE
    /\ Return
    /\ UNCHANGED <<int_flag, hw_int_enabled, cur, clean>>

\* hwlock_t::unlock()
unlock_test ==
    /\ At("unlock", "test")
    /\ IF hw_locked THEN Step("check") ELSE Return
    /\ UNCHANGED <<int_flag, hw_int_enabled, hw_locked, cur, clean>>

\* Mutant of unlock_check: unlock() returns early when there is nothing to
\* enable.
unlock_only_enables ==
    /\ At("unlock", "check")
    /\ IF hw_int_enabled THEN Step("flip") ELSE Return
    /\ UNCHANGED <<int_flag, hw_int_enabled, hw_locked, cur, clean>>

unlock_check ==
    /\ At("unlock", "check")
    /\ Step(IF hw_int_enabled THEN "flip" ELSE "save")
    /\ UNCHANGED <<int_flag, hw_int_enabled, hw_locked, cur, clean>>

unlock_sti ==
    /\ At("unlock", "flip")
    /\ int_flag' = TRUE
    /\ Step("save")
    /\ UNCHANGED <<hw_int_enabled, hw_locked, cur, clean>>

unlock_save ==
    /\ At("unlock", "save")
    /\ hw_int_enabled' = int_flag
    /\ Step("set")
    /\ UNCHANGED <<int_flag, hw_locked, cur, clean>>

unlock_clear ==
    /\ At("unlock", "set")
    /\ hw_locked' = FALSE
    /\ Return
    /\ UNCHANGED <<int_flag, hw_int_enabled, cur, clean>>

\* What the lock protects.
work ==
    /\ At("work", "test")
    /\ Return
    /\ UNCHANGED <<int_flag, hw_int_enabled, hw_locked, cur, clean>>

-----------------------------------------------------------------------------
\* The handlers are behind interrupt gates: the CPU clears its flag.
interrupt ==
    /\ int_flag
    /\ Len(frames[cur]) < MaxFrames
    /\ frames' = [frames EXCEPT ![cur] = Append(@, [isr |-> TRUE, op |-> 1, at |-> "test"])]
    /\ int_flag' = FALSE
    /\ clean' = (clean /\ Top.at = "test")
    /\ UNCHANGED <<hw_int_enabled, hw_locked, cur>>

\* Mutant of iret: the handler unwinds the frame it interrupted as well.
iret_two_frames ==
    /\ Top.isr
    /\ Top.op > Len(IsrProgram)
    /\ frames' = [frames EXCEPT ![cur] = SubSeq(@, 1, Len(@) - 2)]
    /\ int_flag' = TRUE
    /\ cur' \in Threads
    /\ UNCHANGED <<hw_int_enabled, hw_locked, clean>>

\* The handler returns into the thread the scheduler chose, which was itself
\* interrupted with the flag set or is started with sti.
iret ==
    /\ Top.isr
    /\ Top.op > Len(IsrProgram)
    /\ frames' = [frames EXCEPT ![cur] = SubSeq(@, 1, Len(@) - 1)]
    /\ int_flag' = TRUE
    /\ cur' \in Threads
    /\ UNCHANGED <<hw_int_enabled, hw_locked, clean>>

Next ==
    \/ lock_test \/ lock_save \/ lock_check \/ lock_cli \/ lock_set
    \/ unlock_test \/ unlock_check \/ unlock_sti \/ unlock_save \/ unlock_clear
    \/ work \/ interrupt \/ iret

Spec == Init /\ [][Next]_vars

-----------------------------------------------------------------------------
\* The state of the lock, of the CPU and of the stacks.
TypeOK ==
    /\ int_flag \in BOOLEAN /\ hw_int_enabled \in BOOLEAN /\ hw_locked \in BOOLEAN
    /\ frames \in [Threads -> Seq(Frame)]
    /\ \A t \in Threads : Len(frames[t]) \in 1 .. MaxFrames
    /\ cur \in Threads
    /\ clean \in BOOLEAN

\* A thread between two runs of its program, interrupted or not.
Idle(t) == frames[t][1].op = 1 /\ frames[t][1].at = "test"

\* hw_locked is never left behind: when no thread is in a section and no
\* handler runs, the lock is free.  A flag set for good would turn every
\* later lock() into a call that does nothing.
NoOrphanLock ==
    (\A t \in Threads : Len(frames[t]) = 1 /\ Idle(t)) => ~hw_locked

\* The calls of lock() or of unlock() that a frame has completed.
Completed(f, op) == {i \in 1 .. f.op - 1 : Program(f)[i] = op}

\* A frame works in a section: after its first lock() and before the
\* unlock() that matches it, by the comments in the code.
InDeclared(f) ==
    /\ f.op <= Len(Program(f))
    /\ Program(f)[f.op] = "work"
    /\ Cardinality(Completed(f, "lock")) > Cardinality(Completed(f, "unlock"))

\* A frame works after a lock() that no unlock() of its own has followed.
InEffective(f) ==
    /\ f.op <= Len(Program(f))
    /\ Program(f)[f.op] = "work"
    /\ \E i \in Completed(f, "lock") : \A j \in Completed(f, "unlock") : j < i

AllFrames == {x \in Threads \X (1 .. MaxFrames) : x[2] <= Len(frames[x[1]])}

\* At most one frame of all stacks is in a section.
Exclusive(In(_)) ==
    \A x, y \in AllFrames :
        In(frames[x[1]][x[2]]) /\ In(frames[y[1]][y[2]]) => x = y

\* As long as no interrupt falls between the instructions of lock() or
\* unlock(), the lock excludes everyone from a lock() to the next unlock(),
\* and a thread outside its sections runs with interrupts enabled.
SoundWhenClean ==
    clean => /\ Exclusive(InEffective)
             /\ ~Top.isr /\ Idle(cur) => int_flag

\* The comments hold even so, as far as the nesting of sections goes: while
\* no interrupt falls inside lock() or unlock(), only one thread or handler
\* at a time is between "Begin critical section" and the "End critical
\* section" that matches it.
NestedSection == clean => Exclusive(InDeclared)

\* "Begin critical section" ... "End critical section": only one thread or
\* handler at a time is between the two comments.  The code breaks this when
\* an interrupt comes in lock() after the interrupt state has been read and
\* before it is tested: the handler's own lock() says that interrupts were
\* off, and the thread leaves them on.
CriticalSection == Exclusive(InDeclared)
=============================================================================
