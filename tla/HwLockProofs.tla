---------------------------- MODULE HwLockProofs ----------------------------
(***************************************************************************)
(* The interrupt lock, for any number of threads, any depth of interrupts  *)
(* and all programs in which every lock() is followed by an unlock(): it   *)
(* is never left locked, and it excludes everyone as long as no interrupt  *)
(* falls between the instructions of lock() or unlock().                   *)
(***************************************************************************)
EXTENDS HwLock, TLAPS

\* Instruction n of a program is in a section: a lock() came before it and no
\* unlock() since.
SectAt(p, n) ==
    \E i \in 1 .. n - 1 : /\ p[i] = "lock"
                          /\ \A j \in 1 .. n - 1 : p[j] = "unlock" => j < i
Sect(f) == SectAt(Program(f), f.op)

\* A frame has begun its program and has an unlock() ahead of it.
Owed(f) == f.op > 1 /\ \E j \in f.op .. Len(Program(f)) : Program(f)[j] = "unlock"

\* A thread's own frame is at the bottom, handlers are above it, and each is
\* at a place its program has.
FrameOK(f, i) ==
    /\ f.isr <=> i > 1
    /\ f.op \in 1 .. Len(Program(f)) + 1
    /\ f.at # "test" => f.op <= Len(Program(f)) /\ Program(f)[f.op] \in {"lock", "unlock"}
    /\ ~f.isr => f.op <= Len(ThreadProgram)

StackInv == \A t \in Threads : \A i \in 1 .. Len(frames[t]) : FrameOK(frames[t][i], i)

\* Whoever set the lock, somebody is going to call unlock().
OrphanInv == hw_locked => \E t \in Threads : \E i \in 1 .. Len(frames[t]) : Owed(frames[t][i])

\* A frame that was interrupted is a thread's, between two calls and in no section.
Waiting(f) == f.at = "test" /\ ~f.isr /\ ~Sect(f)
WaitingInv == \A t \in Threads : \A i \in 1 .. Len(frames[t]) :
                  t # cur \/ i # Len(frames[t]) => Waiting(frames[t][i])

\* What the flags are while the running frame f is at each instruction: a
\* thread enables interrupts outside its sections and a handler never does,
\* hw_int_enabled remembers which of the two has the lock, and the lock is
\* set exactly in the sections of f.
TopOK(f, flag, enabled, locked) ==
    LET call == Program(f)[f.op]
    IN  /\ f.at = "test" => /\ flag <=> ~f.isr /\ ~locked
                            /\ locked => (enabled <=> ~f.isr)
                            /\ locked <=> Sect(f)
        /\ f.at # "test" /\ call = "lock" =>
              /\ ~locked
              /\ f.at \in {"save", "check", "flip"} => (flag <=> ~f.isr)
              /\ f.at \in {"check", "flip", "set"} => (enabled <=> ~f.isr)
              /\ f.at = "flip" => ~f.isr
              /\ f.at = "set" => ~flag
        /\ f.at # "test" /\ call = "unlock" =>
              /\ locked
              /\ f.at \in {"check", "flip"} => ~flag
              /\ f.at \in {"check", "flip", "set"} => (enabled <=> ~f.isr)
              /\ f.at = "flip" => ~f.isr
              /\ f.at \in {"save", "set"} => (flag <=> ~f.isr)

CleanInv == clean => WaitingInv /\ TopOK(Top, int_flag, hw_int_enabled, hw_locked)

\* The inductive invariant.
IInv == TypeOK /\ StackInv /\ OrphanInv /\ CleanInv

-----------------------------------------------------------------------------
\* The programs of the frames.
LEMMA ProgramFacts ==
    ASSUME NEW f
    PROVE  Program(f) \in Seq(Ops) /\ Closed(Program(f)) /\ Len(Program(f)) \in Nat
    BY HwLockAssumption, ClosedAssumption DEF Program

\* Sections begin at a lock() and end at an unlock(), and none is open at
\* either end of a program.
LEMMA SectStart == ASSUME NEW p PROVE ~SectAt(p, 1)
    BY DEF SectAt

LEMMA SectStep ==
    ASSUME NEW p, NEW n \in Nat, n >= 1
    PROVE  /\ p[n] = "lock" => SectAt(p, n + 1)
           /\ p[n] = "unlock" => ~SectAt(p, n + 1)
           /\ p[n] = "work" => (SectAt(p, n + 1) <=> SectAt(p, n))
<1>1. \A j : j \in 1 .. (n + 1) - 1 <=> j \in 1 .. n - 1 \/ j = n
    OBVIOUS
<1>2. \A j \in 1 .. n - 1 : j < n /\ j \in Nat
    OBVIOUS
<1>3. ASSUME p[n] = "lock" PROVE SectAt(p, n + 1)
    BY <1>1, <1>2, <1>3 DEF SectAt
<1>4. ASSUME p[n] = "unlock" PROVE ~SectAt(p, n + 1)
    BY <1>1, <1>2, <1>4 DEF SectAt
<1>5. ASSUME p[n] = "work" PROVE SectAt(p, n + 1) <=> SectAt(p, n)
    BY <1>1, <1>5 DEF SectAt
<1> QED BY <1>3, <1>4, <1>5

LEMMA SectEnd == ASSUME NEW p \in Seq(Ops), Closed(p) PROVE ~SectAt(p, Len(p) + 1)
<1>1. Len(p) \in Nat
    OBVIOUS
<1> SUFFICES ASSUME SectAt(p, Len(p) + 1) PROVE FALSE
    OBVIOUS
<1>2. PICK i \in 1 .. Len(p) : p[i] = "lock" /\ \A j \in 1 .. Len(p) : p[j] = "unlock" => j < i
    BY <1>1 DEF SectAt
<1>3. PICK j \in i + 1 .. Len(p) : p[j] = "unlock"
    BY <1>2 DEF Closed
<1> QED BY <1>1, <1>2, <1>3

\* The running frame is on the stack.
LEMMA TopFacts ==
    ASSUME TypeOK, StackInv
    PROVE  /\ Len(frames[cur]) \in 1 .. MaxFrames /\ Len(frames[cur]) \in Nat
           /\ frames[cur] \in Seq(Frame) /\ Top \in Frame
           /\ FrameOK(Top, Len(frames[cur]))
           /\ Top.op \in Nat /\ Top.op >= 1 /\ Top.isr \in BOOLEAN
<1>1. /\ Len(frames[cur]) \in 1 .. MaxFrames /\ frames[cur] \in Seq(Frame) /\ cur \in Threads
    BY DEF TypeOK
<1>2. Len(frames[cur]) \in Nat /\ Len(frames[cur]) \in 1 .. Len(frames[cur])
    BY <1>1
<1>3. Top \in Frame
    BY <1>1, <1>2 DEF Top
<1>4. FrameOK(Top, Len(frames[cur]))
    BY <1>1, <1>2 DEF StackInv, Top
<1>5. Top.op \in Nat /\ Top.isr \in BOOLEAN
    BY <1>3 DEF Frame
<1> QED BY <1>1, <1>2, <1>3, <1>4, <1>5, ProgramFacts DEF FrameOK

\* Only the running frame changes.
LEMMA GotoFacts ==
    ASSUME TypeOK, StackInv, NEW g \in Frame, Goto(g), cur' = cur
    PROVE  /\ frames' \in [Threads -> Seq(Frame)]
           /\ \A t \in Threads : Len(frames'[t]) = Len(frames[t])
           /\ frames'[cur][Len(frames[cur])] = g /\ Top' = g
           /\ \A t \in Threads : \A i \in 1 .. Len(frames[t]) :
                  t # cur \/ i # Len(frames[cur]) => frames'[t][i] = frames[t][i]
<1> DEFINE n == Len(frames[cur])
           s == [frames[cur] EXCEPT ![n] = g]
<1>1. n \in Nat /\ n \in 1 .. Len(frames[cur]) /\ frames[cur] \in Seq(Frame) /\ cur \in Threads
      /\ frames \in [Threads -> Seq(Frame)]
    BY TopFacts DEF TypeOK
<1>2. s \in Seq(Frame) /\ Len(s) = n /\ s[n] = g
      /\ \A i \in 1 .. n : i # n => s[i] = frames[cur][i]
    BY <1>1
<1>3. frames' = [frames EXCEPT ![cur] = s]
    BY DEF Goto
<1> HIDE DEF s
<1>4. frames' \in [Threads -> Seq(Frame)] /\ frames'[cur] = s
      /\ \A t \in Threads : t # cur => frames'[t] = frames[t]
    BY <1>1, <1>2, <1>3
<1>5. Top' = frames'[cur][Len(frames'[cur])]
    BY DEF Top
<1> QED BY <1>1, <1>2, <1>4, <1>5

\* A step of the running frame to g, in which it may use the lock's flags.
LEMMA LocalIInv ==
    ASSUME IInv, NEW g \in Frame, Goto(g), cur' = cur, clean' = clean,
           int_flag' \in BOOLEAN, hw_int_enabled' \in BOOLEAN, hw_locked' \in BOOLEAN,
           FrameOK(g, Len(frames[cur])),
           hw_locked' => Owed(g) \/ (hw_locked /\ (Owed(Top) => Owed(g))),
           clean => TopOK(g, int_flag', hw_int_enabled', hw_locked')
    PROVE  IInv'
<1> DEFINE n == Len(frames[cur])
<1>1. TypeOK /\ StackInv /\ cur \in Threads /\ n \in Nat /\ n >= 1 /\ FrameOK(g, n)
    BY TopFacts DEF IInv, TypeOK
<1>2. /\ frames' \in [Threads -> Seq(Frame)]
      /\ \A t \in Threads : Len(frames'[t]) = Len(frames[t])
      /\ frames'[cur][n] = g /\ Top' = g
      /\ \A t \in Threads : \A i \in 1 .. Len(frames[t]) :
             t # cur \/ i # n => frames'[t][i] = frames[t][i]
    BY <1>1, GotoFacts
<1>3. TypeOK'
    BY <1>1, <1>2 DEF TypeOK
<1> HIDE DEF n
<1>4. StackInv'
  <2> SUFFICES ASSUME NEW t \in Threads, NEW i \in 1 .. Len(frames[t])
               PROVE  FrameOK(frames'[t][i], i)
    BY <1>2 DEF StackInv, FrameOK, Program
  <2>1. CASE t = cur /\ i = n
    BY <1>1, <1>2, <2>1
  <2>2. CASE t # cur \/ i # n
    BY <1>1, <1>2, <2>2 DEF StackInv
  <2> QED BY <2>1, <2>2
<1>5. OrphanInv'
  <2> SUFFICES ASSUME hw_locked'
               PROVE  \E t \in Threads : \E i \in 1 .. Len(frames[t]) : Owed(frames'[t][i])
    BY <1>2 DEF OrphanInv, Owed, Program
  <2>1. CASE Owed(g)
    <3>1. n \in 1 .. Len(frames[cur]) /\ frames'[cur][n] = g
        BY <1>1, <1>2 DEF n
    <3> QED BY <1>1, <2>1, <3>1
  <2>2. CASE hw_locked /\ (Owed(Top) => Owed(g)) /\ ~Owed(g)
    <3>1. PICK t \in Threads : \E i \in 1 .. Len(frames[t]) : Owed(frames[t][i])
        BY <2>2 DEF IInv, OrphanInv
    <3>2. PICK i \in 1 .. Len(frames[t]) : Owed(frames[t][i])
        BY <3>1
    <3>3. ~(t = cur /\ i = n)
        BY <2>2, <3>2 DEF Top, n
    <3> QED BY <1>2, <3>2, <3>3
  <2> QED BY <2>1, <2>2
<1>6. CleanInv'
  <2> SUFFICES ASSUME clean
               PROVE  WaitingInv' /\ TopOK(Top, int_flag, hw_int_enabled, hw_locked)'
    BY DEF CleanInv
  <2>1. WaitingInv'
    BY <1>2 DEF IInv, CleanInv, WaitingInv, Waiting, Sect, SectAt, Program, n
  <2>2. TopOK(Top, int_flag, hw_int_enabled, hw_locked)'
    BY <1>2 DEF TopOK, Sect, SectAt, Program
  <2> QED BY <2>1, <2>2
<1> QED BY <1>3, <1>4, <1>5, <1>6 DEF IInv

\* The running frame goes on inside a call.
LEMMA StepFacts ==
    ASSUME IInv, NEW at \in {"save", "check", "flip", "set"},
           Top.op <= Len(Program(Top)), Program(Top)[Top.op] \in {"lock", "unlock"}
    PROVE  LET g == [Top EXCEPT !.at = at]
           IN  /\ g \in Frame /\ g.at = at /\ g.op = Top.op /\ g.isr = Top.isr
               /\ Program(g) = Program(Top)
               /\ FrameOK(g, Len(frames[cur]))
               /\ Owed(g) <=> Owed(Top)
<1> DEFINE g == [Top EXCEPT !.at = at]
<1>1. Top \in Frame /\ FrameOK(Top, Len(frames[cur]))
    BY TopFacts DEF IInv
<1>2. g \in Frame /\ g.at = at /\ g.op = Top.op /\ g.isr = Top.isr
    BY <1>1 DEF Frame
<1> HIDE DEF g
<1>3. Program(g) = Program(Top)
    BY <1>2 DEF Program
<1>4. FrameOK(g, Len(frames[cur]))
    BY <1>1, <1>2, <1>3 DEF FrameOK
<1>5. Owed(g) <=> Owed(Top)
    BY <1>2, <1>3 DEF Owed
<1> QED BY <1>2, <1>3, <1>4, <1>5 DEF g

\* A call of the running frame returns.
After(f) == [f EXCEPT !.op = IF ~f.isr /\ f.op = Len(ThreadProgram) THEN 1 ELSE f.op + 1,
                      !.at = "test"]

LEMMA ReturnFacts ==
    ASSUME IInv, Top.op <= Len(Program(Top))
    PROVE  /\ After(Top) \in Frame /\ After(Top).at = "test" /\ After(Top).isr = Top.isr
           /\ FrameOK(After(Top), Len(frames[cur]))
           /\ Sect(After(Top)) <=> SectAt(Program(Top), Top.op + 1)
           /\ Program(Top)[Top.op] # "unlock" /\ Owed(Top) => Owed(After(Top))
           /\ Program(Top)[Top.op] = "lock" => Owed(After(Top))
<1> DEFINE g == After(Top)
           p == Program(Top)
<1>1. Top \in Frame /\ FrameOK(Top, Len(frames[cur])) /\ Top.op \in Nat /\ Top.op >= 1
      /\ Top.isr \in BOOLEAN
    BY TopFacts DEF IInv
<1>2. Len(ThreadProgram) \in Nat /\ Len(p) \in Nat /\ p \in Seq(Ops) /\ Closed(p)
      /\ Len(ThreadProgram) >= 1
    BY ProgramFacts, HwLockAssumption
<1>3. /\ g \in Frame /\ g.at = "test" /\ g.isr = Top.isr
      /\ g.op = IF ~Top.isr /\ Top.op = Len(ThreadProgram) THEN 1 ELSE Top.op + 1
  <2> DEFINE k == IF ~Top.isr /\ Top.op = Len(ThreadProgram) THEN 1 ELSE Top.op + 1
  <2>1. k \in Nat
    BY <1>1
  <2>2. g = [Top EXCEPT !.op = k, !.at = "test"]
    BY DEF After
  <2> HIDE DEF k, g
  <2>3. g \in Frame /\ g.at = "test" /\ g.isr = Top.isr /\ g.op = k
    BY <1>1, <2>1, <2>2 DEF Frame
  <2> QED BY <2>3 DEF k
<1> HIDE DEF g
<1>4. Program(g) = p /\ (~Top.isr => p = ThreadProgram)
    BY <1>3 DEF Program
<1>5. FrameOK(g, Len(frames[cur]))
  <2>1. Top.op <= Len(p)
    OBVIOUS
  <2>2. g.op \in 1 .. Len(p) + 1 /\ (~g.isr => g.op <= Len(ThreadProgram))
    <3> HIDE DEF p
    <3> QED BY <1>1, <1>2, <1>3, <1>4, <2>1
  <2> QED BY <1>1, <1>3, <1>4, <2>2 DEF FrameOK
<1> HIDE DEF p
<1>6. Sect(g) <=> SectAt(p, Top.op + 1)
  <2>1. CASE g.op = Top.op + 1
    BY <1>4, <2>1 DEF Sect
  <2>2. CASE g.op = 1 /\ Top.op = Len(p)
    <3>1. ~SectAt(p, 1) /\ ~SectAt(p, Len(p) + 1)
        BY <1>2, SectStart, SectEnd
    <3> QED BY <1>4, <2>2, <3>1 DEF Sect
  <2> QED BY <1>3, <1>4, <2>1, <2>2
<1>7. ASSUME p[Top.op] # "unlock", NEW j \in Top.op .. Len(p), p[j] = "unlock" PROVE Owed(g)
  <2>1. j \in Top.op + 1 .. Len(p)
    BY <1>1, <1>2, <1>7
  <2>2. g.op = Top.op + 1
    BY <1>1, <1>2, <1>3, <1>4, <2>1
  <2> QED BY <1>1, <1>4, <1>7, <2>1, <2>2 DEF Owed
<1>8. p[Top.op] # "unlock" /\ Owed(Top) => Owed(g)
    BY <1>7 DEF Owed, p
<1>9. ASSUME p[Top.op] = "lock" PROVE Owed(g)
  <2>1. PICK j \in Top.op + 1 .. Len(p) : p[j] = "unlock"
    <3>1. Top.op \in 1 .. Len(p)
        BY <1>1, <1>2 DEF p
    <3> QED BY <1>2, <1>9, <3>1 DEF Closed
  <2>2. j \in Top.op .. Len(p)
    BY <1>1, <1>2, <2>1
  <2> QED BY <1>7, <1>9, <2>1, <2>2
<1> QED BY <1>3, <1>5, <1>6, <1>8, <1>9 DEF g, p

-----------------------------------------------------------------------------
\* lock() and unlock() up to their last instructions: no call returns.
LEMMA InsideIInv ==
    ASSUME IInv, NEW at \in {"save", "check", "flip", "set"}, Step(at),
           Top.op <= Len(Program(Top)), Program(Top)[Top.op] \in {"lock", "unlock"},
           cur' = cur, clean' = clean, hw_locked' = hw_locked,
           int_flag' \in BOOLEAN, hw_int_enabled' \in BOOLEAN,
           \A g : /\ g.at = at /\ g.op = Top.op /\ g.isr = Top.isr /\ Program(g) = Program(Top)
                  /\ TopOK(Top, int_flag, hw_int_enabled, hw_locked)
                  => TopOK(g, int_flag', hw_int_enabled', hw_locked)
    PROVE  IInv'
<1> DEFINE g == [Top EXCEPT !.at = at]
<1>1. /\ g \in Frame /\ g.at = at /\ g.op = Top.op /\ g.isr = Top.isr
      /\ Program(g) = Program(Top) /\ FrameOK(g, Len(frames[cur])) /\ (Owed(g) <=> Owed(Top))
    BY StepFacts
<1>2. Goto(g) /\ hw_locked' \in BOOLEAN
    BY DEF Step, IInv, TypeOK
<1> HIDE DEF g
<1>3. clean => TopOK(g, int_flag', hw_int_enabled', hw_locked')
    BY <1>1 DEF IInv, CleanInv
<1> QED BY <1>1, <1>2, <1>3, LocalIInv

LEMMA LockInsideIInv ==
    ASSUME IInv, (lock_test /\ ~hw_locked) \/ lock_save \/ lock_check \/ lock_cli
    PROVE  IInv'
<1> USE DEF At, TopOK
<1>0. int_flag \in BOOLEAN /\ hw_int_enabled \in BOOLEAN /\ Top.isr \in BOOLEAN
    BY TopFacts DEF IInv, TypeOK
<1>1. CASE lock_test /\ ~hw_locked
  <2>1. Step("save") /\ UNCHANGED <<int_flag, hw_int_enabled, hw_locked, cur, clean>>
    BY <1>1 DEF lock_test
  <2> QED BY <1>0, <1>1, <2>1, InsideIInv DEF lock_test
<1>2. CASE lock_save
    BY <1>0, <1>2, InsideIInv DEF lock_save
<1>3. CASE lock_check
  <2>1. CASE hw_int_enabled
    BY <1>0, <1>3, <2>1, InsideIInv DEF lock_check
  <2>2. CASE ~hw_int_enabled
    BY <1>0, <1>3, <2>2, InsideIInv DEF lock_check
  <2> QED BY <2>1, <2>2
<1>4. CASE lock_cli
    BY <1>0, <1>4, InsideIInv DEF lock_cli
<1> QED BY <1>1, <1>2, <1>3, <1>4

LEMMA UnlockInsideIInv ==
    ASSUME IInv, (unlock_test /\ hw_locked) \/ unlock_check \/ unlock_sti \/ unlock_save
    PROVE  IInv'
<1> USE DEF At, TopOK
<1>0. int_flag \in BOOLEAN /\ hw_int_enabled \in BOOLEAN /\ Top.isr \in BOOLEAN
    BY TopFacts DEF IInv, TypeOK
<1>1. CASE unlock_test /\ hw_locked
  <2>1. Step("check") /\ UNCHANGED <<int_flag, hw_int_enabled, hw_locked, cur, clean>>
    BY <1>1 DEF unlock_test
  <2> QED BY <1>0, <1>1, <2>1, InsideIInv DEF unlock_test
<1>2. CASE unlock_check
  <2>1. CASE hw_int_enabled
    BY <1>0, <1>2, <2>1, InsideIInv DEF unlock_check
  <2>2. CASE ~hw_int_enabled
    BY <1>0, <1>2, <2>2, InsideIInv DEF unlock_check
  <2> QED BY <2>1, <2>2
<1>3. CASE unlock_sti
    BY <1>0, <1>3, InsideIInv DEF unlock_sti
<1>4. CASE unlock_save
    BY <1>0, <1>4, InsideIInv DEF unlock_save
<1> QED BY <1>1, <1>2, <1>3, <1>4

\* A call returns: a lock() leaves the lock set, an unlock() leaves it free.
LEMMA ReturnIInv ==
    ASSUME IInv, \/ lock_test /\ hw_locked
                 \/ lock_set
                 \/ unlock_test /\ ~hw_locked
                 \/ unlock_clear
                 \/ work
    PROVE  IInv'
<1> DEFINE g == After(Top)
           c == Program(Top)[Top.op]
<1>1. /\ Top.op <= Len(Program(Top)) /\ Goto(g)
      /\ UNCHANGED <<int_flag, hw_int_enabled, cur, clean>>
      /\ \/ c = "lock" /\ Top.at = "test" /\ hw_locked /\ hw_locked' = hw_locked
         \/ c = "lock" /\ Top.at = "set" /\ hw_locked' = TRUE
         \/ c = "unlock" /\ Top.at = "test" /\ ~hw_locked /\ hw_locked' = hw_locked
         \/ c = "unlock" /\ Top.at = "set" /\ hw_locked' = FALSE
         \/ c = "work" /\ Top.at = "test" /\ hw_locked' = hw_locked
    BY DEF lock_test, lock_set, unlock_test, unlock_clear, work, At, Return, After
<1>2. /\ g \in Frame /\ g.at = "test" /\ g.isr = Top.isr /\ FrameOK(g, Len(frames[cur]))
      /\ Sect(g) <=> SectAt(Program(Top), Top.op + 1)
      /\ c # "unlock" /\ Owed(Top) => Owed(g)
      /\ c = "lock" => Owed(g)
    BY <1>1, ReturnFacts
<1>3. /\ int_flag \in BOOLEAN /\ hw_int_enabled \in BOOLEAN /\ hw_locked \in BOOLEAN
      /\ Top.isr \in BOOLEAN /\ Top.op \in Nat /\ Top.op >= 1
    BY TopFacts DEF IInv, TypeOK
<1>4. /\ c = "lock" => SectAt(Program(Top), Top.op + 1)
      /\ c = "unlock" => ~SectAt(Program(Top), Top.op + 1)
      /\ c = "work" => (SectAt(Program(Top), Top.op + 1) <=> SectAt(Program(Top), Top.op))
    BY <1>3, SectStep
<1> HIDE DEF g
<1>5. ASSUME clean PROVE TopOK(g, int_flag', hw_int_enabled', hw_locked')
  <2>1. TopOK(Top, int_flag, hw_int_enabled, hw_locked)
    BY <1>5 DEF IInv, CleanInv
  <2> QED BY <1>1, <1>2, <1>3, <1>4, <2>1 DEF TopOK, Sect
<1>6. hw_locked' => Owed(g) \/ (hw_locked /\ (Owed(Top) => Owed(g)))
    BY <1>1, <1>2
<1>7. hw_locked' \in BOOLEAN
    BY <1>1, <1>3
<1> HIDE DEF c
<1> QED BY <1>1, <1>2, <1>3, <1>5, <1>6, <1>7, LocalIInv

-----------------------------------------------------------------------------
\* The timer interrupts the running frame.
LEMMA InterruptIInv == ASSUME IInv, interrupt PROVE IInv'
<1> DEFINE g == [isr |-> TRUE, op |-> 1, at |-> "test"]
           n == Len(frames[cur])
<1>1. /\ int_flag /\ n < MaxFrames /\ frames' = [frames EXCEPT ![cur] = Append(frames[cur], g)]
      /\ int_flag' = FALSE /\ clean' = (clean /\ Top.at = "test")
      /\ UNCHANGED <<hw_int_enabled, hw_locked, cur>>
    BY DEF interrupt
<1>2. /\ TypeOK /\ cur \in Threads /\ n \in Nat /\ n >= 1 /\ frames[cur] \in Seq(Frame)
      /\ g \in Frame /\ MaxFrames \in Nat
    BY TopFacts, HwLockAssumption DEF IInv, TypeOK, Frame
<1>3. /\ Append(frames[cur], g) \in Seq(Frame) /\ Len(Append(frames[cur], g)) = n + 1
      /\ Append(frames[cur], g)[n + 1] = g
      /\ \A i \in 1 .. n : Append(frames[cur], g)[i] = frames[cur][i]
    BY <1>2
<1>4. /\ frames' \in [Threads -> Seq(Frame)]
      /\ Len(frames'[cur]) = n + 1 /\ frames'[cur][n + 1] = g /\ Top' = g
      /\ \A i \in 1 .. n : frames'[cur][i] = frames[cur][i]
      /\ \A t \in Threads : t # cur => frames'[t] = frames[t]
    BY <1>1, <1>2, <1>3 DEF TypeOK, Top
<1>5. TypeOK'
  <2>1. clean' \in BOOLEAN
    BY <1>1
  <2>2. \A t \in Threads : Len(frames'[t]) \in 1 .. MaxFrames
    BY <1>1, <1>2, <1>4 DEF TypeOK
  <2> QED BY <1>1, <1>2, <1>4, <2>1, <2>2 DEF TypeOK
<1>6. ASSUME NEW t \in Threads, NEW i \in 1 .. Len(frames'[t])
      PROVE  \/ t = cur /\ i = n + 1 /\ frames'[t][i] = g
             \/ i \in 1 .. Len(frames[t]) /\ frames'[t][i] = frames[t][i]
    BY <1>2, <1>4
<1>7. g.isr = TRUE /\ g.op = 1 /\ g.at = "test"
    OBVIOUS
<1> HIDE DEF g
<1>8. StackInv'
  <2> SUFFICES ASSUME NEW t \in Threads, NEW i \in 1 .. Len(frames'[t])
               PROVE  FrameOK(frames'[t][i], i)
    BY DEF StackInv, FrameOK, Program
  <2>1. FrameOK(g, n + 1)
    BY <1>2, <1>7, ProgramFacts DEF FrameOK
  <2> QED BY <1>6, <2>1 DEF IInv, StackInv
<1>9. OrphanInv'
  <2> SUFFICES ASSUME hw_locked
               PROVE  \E t \in Threads : \E i \in 1 .. Len(frames'[t]) : Owed(frames'[t][i])
    BY <1>1 DEF OrphanInv, Owed, Program
  <2>1. PICK t \in Threads : \E i \in 1 .. Len(frames[t]) : Owed(frames[t][i])
    BY DEF IInv, OrphanInv
  <2>2. PICK i \in 1 .. Len(frames[t]) : Owed(frames[t][i])
    BY <2>1
  <2>3. i \in 1 .. Len(frames'[t]) /\ frames'[t][i] = frames[t][i]
    BY <1>2, <1>4, <2>2
  <2> QED BY <2>2, <2>3
<1>10. CleanInv'
  <2> SUFFICES ASSUME clean, Top.at = "test"
               PROVE  WaitingInv' /\ TopOK(Top, int_flag, hw_int_enabled, hw_locked)'
    BY <1>1 DEF CleanInv
  <2>1. WaitingInv /\ TopOK(Top, int_flag, hw_int_enabled, hw_locked)
    BY DEF IInv, CleanInv
  <2>2. ~hw_locked /\ ~Sect(Top) /\ Waiting(Top)
    BY <1>1, <2>1 DEF TopOK, Waiting
  <2>3. WaitingInv'
    <3> SUFFICES ASSUME NEW t \in Threads, NEW i \in 1 .. Len(frames'[t]),
                        t # cur \/ i # Len(frames'[t])
                 PROVE  Waiting(frames'[t][i])
        BY <1>1 DEF WaitingInv, Waiting, Sect, SectAt, Program
    <3>1. i \in 1 .. Len(frames[t]) /\ frames'[t][i] = frames[t][i]
        BY <1>4, <1>6
    <3> QED BY <2>1, <2>2, <3>1 DEF WaitingInv, Top
  <2>4. TopOK(g, FALSE, hw_int_enabled, hw_locked)
    BY <1>7, <2>2, SectStart DEF TopOK, Sect
  <2>5. TopOK(Top, int_flag, hw_int_enabled, hw_locked)'
    BY <1>1, <1>4, <2>4 DEF TopOK, Sect, SectAt, Program
  <2> QED BY <2>3, <2>5
<1> QED BY <1>5, <1>8, <1>9, <1>10 DEF IInv

\* The handler returns, into any thread.
LEMMA IretIInv == ASSUME IInv, iret PROVE IInv'
<1> DEFINE n == Len(frames[cur])
           s == SubSeq(frames[cur], 1, n - 1)
<1>1. /\ Top.isr /\ Top.op > Len(IsrProgram) /\ frames' = [frames EXCEPT ![cur] = s]
      /\ int_flag' = TRUE /\ cur' \in Threads
      /\ UNCHANGED <<hw_int_enabled, hw_locked, clean>>
    BY DEF iret
<1>2. /\ TypeOK /\ cur \in Threads /\ n \in Nat /\ n <= MaxFrames /\ frames[cur] \in Seq(Frame)
      /\ FrameOK(Top, n) /\ Top \in Frame /\ Top.op \in Nat
    BY TopFacts, HwLockAssumption DEF IInv, TypeOK
<1>3. n > 1 /\ Top.op = Len(Program(Top)) + 1 /\ Top.at = "test" /\ Program(Top) = IsrProgram
    BY <1>1, <1>2, ProgramFacts DEF FrameOK, Program
<1>4. s \in Seq(Frame) /\ Len(s) = n - 1 /\ \A i \in 1 .. n - 1 : s[i] = frames[cur][i]
    BY <1>2, <1>3
<1> HIDE DEF s
<1>5. /\ frames' \in [Threads -> Seq(Frame)] /\ Len(frames'[cur]) = n - 1
      /\ \A i \in 1 .. n - 1 : frames'[cur][i] = frames[cur][i]
      /\ \A t \in Threads : t # cur => frames'[t] = frames[t]
    BY <1>1, <1>2, <1>4 DEF TypeOK
<1>6. TypeOK'
    BY <1>1, <1>2, <1>3, <1>5, HwLockAssumption DEF TypeOK
<1>7. ASSUME NEW t \in Threads, NEW i \in 1 .. Len(frames'[t])
      PROVE  /\ i \in 1 .. Len(frames[t]) /\ frames'[t][i] = frames[t][i]
             /\ t # cur \/ i # n
    BY <1>2, <1>3, <1>5
<1>8. StackInv'
  <2> SUFFICES ASSUME NEW t \in Threads, NEW i \in 1 .. Len(frames'[t])
               PROVE  FrameOK(frames'[t][i], i)
    BY DEF StackInv, FrameOK, Program
  <2> QED BY <1>7 DEF IInv, StackInv
<1>9. OrphanInv'
  <2> SUFFICES ASSUME hw_locked
               PROVE  \E t \in Threads : \E i \in 1 .. Len(frames'[t]) : Owed(frames'[t][i])
    BY <1>1 DEF OrphanInv, Owed, Program
  <2>1. PICK t \in Threads : \E i \in 1 .. Len(frames[t]) : Owed(frames[t][i])
    BY DEF IInv, OrphanInv
  <2>2. PICK i \in 1 .. Len(frames[t]) : Owed(frames[t][i])
    BY <2>1
  <2>3. ~Owed(Top)
    BY <1>2, <1>3, ProgramFacts DEF Owed
  <2>4. t # cur \/ i # n
    BY <2>2, <2>3 DEF Top
  <2>5. i \in 1 .. Len(frames'[t]) /\ frames'[t][i] = frames[t][i]
    BY <1>2, <1>5, <2>2, <2>4
  <2> QED BY <2>2, <2>5
<1>10. CleanInv'
  <2> SUFFICES ASSUME clean
               PROVE  WaitingInv' /\ TopOK(Top, int_flag, hw_int_enabled, hw_locked)'
    BY <1>1 DEF CleanInv
  <2>1. WaitingInv /\ TopOK(Top, int_flag, hw_int_enabled, hw_locked)
    BY DEF IInv, CleanInv
  <2>2. ~hw_locked
    <3>1. ~Sect(Top)
        BY <1>3, ProgramFacts, SectEnd DEF Sect
    <3> QED BY <1>3, <2>1, <3>1 DEF TopOK
  <2>3. ASSUME NEW t \in Threads, NEW i \in 1 .. Len(frames'[t])
        PROVE  Waiting(frames'[t][i]) /\ FrameOK(frames'[t][i], i)
    <3>1. i \in 1 .. Len(frames[t]) /\ frames'[t][i] = frames[t][i]
          /\ (t # cur \/ i # Len(frames[t]))
        BY <1>7, <2>3
    <3> QED BY <2>1, <3>1 DEF WaitingInv, IInv, StackInv
  <2>4. WaitingInv'
    BY <2>3 DEF WaitingInv, Waiting, Sect, SectAt, Program
  <2>5. /\ Top' = frames'[cur'][Len(frames'[cur'])]
        /\ Len(frames'[cur']) \in 1 .. Len(frames'[cur'])
    <3>1. Top' = frames'[cur'][Len(frames'[cur'])]
        BY DEF Top
    <3>2. Len(frames'[cur']) \in Nat /\ Len(frames'[cur']) >= 1
        BY <1>1, <1>6, HwLockAssumption DEF TypeOK
    <3> QED BY <3>1, <3>2
  <2>6. Waiting(Top') /\ FrameOK(Top', Len(frames'[cur']))
    BY <1>1, <2>3, <2>5
  <2>7. TopOK(Top', TRUE, hw_int_enabled, hw_locked)
    BY <2>2, <2>6 DEF TopOK, Waiting
  <2>8. TopOK(Top, int_flag, hw_int_enabled, hw_locked)'
    BY <1>1, <2>7 DEF TopOK, Sect, SectAt, Program
  <2> QED BY <2>4, <2>8
<1> QED BY <1>6, <1>8, <1>9, <1>10 DEF IInv

-----------------------------------------------------------------------------
LEMMA InitIInv == Init => IInv
<1> SUFFICES ASSUME Init PROVE IInv
    OBVIOUS
<1> DEFINE f == [isr |-> FALSE, op |-> 1, at |-> "test"]
<1>1. f \in Frame /\ f.isr = FALSE /\ f.op = 1 /\ f.at = "test"
    BY DEF Frame
<1>2. <<f>> \in Seq(Frame) /\ Len(<<f>>) = 1 /\ <<f>>[1] = f
    BY <1>1
<1>3. frames = [t \in Threads |-> <<f>>]
    BY DEF Init
<1> HIDE DEF f
<1>4. /\ frames \in [Threads -> Seq(Frame)]
      /\ \A t \in Threads : frames[t] = <<f>>
    BY <1>2, <1>3
<1>5. TypeOK
  <2>1. 1 \in 1 .. MaxFrames
    BY HwLockAssumption
  <2>2. \A t \in Threads : Len(frames[t]) \in 1 .. MaxFrames
    BY <1>2, <1>4, <2>1
  <2> QED BY <1>4, <2>2 DEF Init, TypeOK
<1>6. StackInv
  <2>1. FrameOK(f, 1)
    BY <1>1, HwLockAssumption DEF FrameOK, Program
  <2> QED BY <1>2, <1>4, <2>1 DEF StackInv
<1>7. OrphanInv
    BY DEF Init, OrphanInv
<1>8. CleanInv
  <2>1. ~Sect(f) /\ Waiting(f)
    BY <1>1, SectStart DEF Sect, Waiting
  <2>2. WaitingInv
    BY <1>2, <1>4, <2>1 DEF WaitingInv
  <2>3. Top = f
    BY <1>2, <1>4, <1>5 DEF Top, TypeOK
  <2>4. TopOK(f, TRUE, hw_int_enabled, FALSE)
    BY <1>1, <2>1 DEF TopOK
  <2>5. int_flag = TRUE /\ hw_locked = FALSE
    BY DEF Init
  <2> QED BY <2>2, <2>3, <2>4, <2>5 DEF CleanInv
<1> QED BY <1>5, <1>6, <1>7, <1>8 DEF IInv

LEMMA NextIInv == IInv /\ [Next]_vars => IInv'
<1> SUFFICES ASSUME IInv, [Next]_vars PROVE IInv'
    OBVIOUS
<1>1. CASE UNCHANGED vars
    BY <1>1 DEF vars, IInv, TypeOK, StackInv, OrphanInv, CleanInv, WaitingInv, Waiting, TopOK, Top,
       FrameOK, Owed, Sect, SectAt, Program
<1>2. CASE lock_test \/ lock_save \/ lock_check \/ lock_cli \/ lock_set
    BY <1>2, LockInsideIInv, ReturnIInv
<1>3. CASE unlock_test \/ unlock_check \/ unlock_sti \/ unlock_save \/ unlock_clear
    BY <1>3, UnlockInsideIInv, ReturnIInv
<1>4. CASE work
    BY <1>4, ReturnIInv
<1>5. CASE interrupt \/ iret
    BY <1>5, InterruptIInv, IretIInv
<1> QED BY <1>1, <1>2, <1>3, <1>4, <1>5 DEF Next

LEMMA SpecIInv == Spec => []IInv
    BY InitIInv, NextIInv, PTL DEF Spec

-----------------------------------------------------------------------------
\* The flags, the stacks and the frames keep their types: a handler never
\* unwinds the frame of the thread it interrupted.
THEOREM HwLockTypeCorrect == Spec => []TypeOK
<1>1. IInv => TypeOK
    BY DEF IInv
<1> QED BY <1>1, SpecIInv, PTL

\* hw_locked is never left set for good: when every thread is between two
\* runs of its program and no handler runs, the lock is free, wherever inside
\* lock() and unlock() interrupts came.
THEOREM HwLockNoOrphan == Spec => []NoOrphanLock
<1>1. IInv => NoOrphanLock
  <2> SUFFICES ASSUME IInv, \A t \in Threads : Len(frames[t]) = 1 /\ Idle(t), hw_locked
               PROVE  FALSE
    BY DEF NoOrphanLock
  <2>1. PICK t \in Threads : \E i \in 1 .. Len(frames[t]) : Owed(frames[t][i])
    BY DEF IInv, OrphanInv
  <2>2. PICK i \in 1 .. Len(frames[t]) : Owed(frames[t][i])
    BY <2>1
  <2>3. i = 1
    BY <2>2
  <2> QED BY <2>2, <2>3 DEF Idle, Owed
<1> QED BY <1>1, SpecIInv, PTL

\* As long as no interrupt falls inside lock() or unlock(), the lock excludes
\* every other thread and handler from a lock() to the next unlock(), and a
\* thread outside its sections runs with interrupts enabled.
THEOREM HwLockSoundWhenClean == Spec => []SoundWhenClean
<1>1. IInv => SoundWhenClean
  <2> SUFFICES ASSUME IInv, clean
               PROVE  Exclusive(InEffective) /\ (~Top.isr /\ Idle(cur) => int_flag)
    BY DEF SoundWhenClean
  <2>1. WaitingInv /\ TopOK(Top, int_flag, hw_int_enabled, hw_locked)
    BY DEF IInv, CleanInv
  <2>2. ASSUME NEW f, InEffective(f) PROVE Sect(f)
    BY <2>2 DEF InEffective, Completed, Sect, SectAt
  <2>3. ASSUME NEW x \in AllFrames, InEffective(frames[x[1]][x[2]])
        PROVE  x = <<cur, Len(frames[cur])>>
    <3>1. /\ x \in Threads \X (1 .. MaxFrames) /\ x[1] \in Threads
          /\ x[2] \in 1 .. MaxFrames /\ x[2] <= Len(frames[x[1]])
        BY DEF AllFrames
    <3>2. Len(frames[x[1]]) \in 1 .. MaxFrames
        BY <3>1 DEF IInv, TypeOK
    <3>3. x[2] \in 1 .. Len(frames[x[1]])
        BY <3>1, <3>2, HwLockAssumption
    <3>4. Sect(frames[x[1]][x[2]])
        BY <2>2, <2>3
    <3>5. x[1] = cur /\ x[2] = Len(frames[x[1]])
        BY <2>1, <3>1, <3>3, <3>4 DEF WaitingInv, Waiting
    <3> QED BY <3>1, <3>5
  <2>4. Exclusive(InEffective)
    BY <2>3 DEF Exclusive
  <2>5. ASSUME ~Top.isr, Idle(cur) PROVE int_flag
    <3>1. FrameOK(Top, Len(frames[cur])) /\ Len(frames[cur]) \in 1 .. MaxFrames
        BY TopFacts DEF IInv
    <3>2. Len(frames[cur]) = 1
      <4>1. ~(Len(frames[cur]) > 1)
        BY <2>5, <3>1 DEF FrameOK
      <4>2. Len(frames[cur]) \in Nat /\ Len(frames[cur]) # 0
        BY <3>1, TopFacts DEF IInv
      <4>3. \A n \in Nat : n # 0 /\ ~(n > 1) => n = 1
        OBVIOUS
      <4> QED BY <4>1, <4>2, <4>3, Zenon
    <3>3. Top.op = 1 /\ Top.at = "test"
        BY <2>5, <3>2 DEF Top, Idle
    <3>4. ~Sect(Top)
        BY <3>3, SectStart DEF Sect
    <3> QED BY <2>1, <2>5, <3>3, <3>4 DEF TopOK
  <2> QED BY <2>4, <2>5
<1> QED BY <1>1, SpecIInv, PTL
=============================================================================
