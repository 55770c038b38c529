---------------------------- MODULE SchedProofs ----------------------------
(***************************************************************************)
(* For every number of threads and processes and every choice of           *)
(* priorities: the scheduler loses no thread, schedules none twice, never  *)
(* mistakes one for another, never pops an empty queue, and a thread dies  *)
(* only by its own doing; and the loop that chooses the next thread ends   *)
(* with the choice the model makes.                                        *)
(***************************************************************************)
EXTENDS IncrementLoop, Recursion, FiniteSetTheorems, SequenceTheorems, TLAPS

\* What spawn_thread relies on between its steps: ids are fresh, and nobody
\* runs or removes the new thread before it is scheduled.
SpawnInv ==
    /\ \A t \in Tids : t >= thread_counter => state[t] = "none"
    /\ pc[INIT] \in {"add", "lid", "list", "push"} =>
           spawn.child \in 2 .. thread_counter - 1
    /\ pc[INIT] = "add" => state[spawn.child] = "none"
    /\ pc[INIT] \in {"lid", "list", "push"} => state[spawn.child] = "NEW"

\* What proc_thread_finish relies on: the id it was told is its own; and the
\* thread that never ends is alive.
SelfInv ==
    /\ \A t \in Tids : pc[t] = "kill" => me[t] = t
    /\ pc[TTY] = "body"
    /\ state[TTY] \in {"NEW", "ACTIVE"}

\* The inductive invariant.
IInv == TypeOK /\ ScheduleExact /\ CurrentIdentity /\ SpawnInv /\ SelfInv

TaskIn == [thread : Tids, cpriority : Int]

\* The ids of the boot threads are ids, and ID_INVALID is not one.
LEMMA Ids ==
    /\ TTY \in Tids /\ INIT \in Tids /\ TTY # INIT
    /\ NONE \notin Tids /\ Tids \subseteq Nat
    /\ KPROC \in Pids /\ NONE \notin Pids
    BY SchedAssumption DEF Tids, Pids, TTY, INIT, NONE, KPROC

\* Taking one task out of the queue and rotating the rest loses no other.
LEMMA RotatedQueue ==
    ASSUME NEW q \in Seq(TaskIn), NEW i \in 1 .. Len(q), Distinct(q)
    PROVE  /\ Rotated(q, i) \in Seq(TaskIn)
           /\ Len(Rotated(q, i)) = Len(q) - 1
           /\ Distinct(Rotated(q, i))
           /\ ThreadsIn(Rotated(q, i)) = ThreadsIn(q) \ {q[i].thread}
<1> DEFINE n == Len(q)
           r == Rotated(q, i)
           from(j) == IF i + j <= n THEN i + j ELSE i + j - n
<1>1. n \in Nat /\ n - 1 \in Nat
    BY LenProperties
<1>2. ASSUME NEW j \in 1 .. n - 1
      PROVE  from(j) \in 1 .. n /\ from(j) # i
    BY <1>1
<1>3. ASSUME NEW j \in 1 .. n - 1
      PROVE  r[j] \in TaskIn /\ r[j].thread = q[from(j)].thread
  <2>1. q[from(j)] \in TaskIn
    BY <1>2, ElementOfSeq
  <2>2. q[i] \in TaskIn
    BY ElementOfSeq
  <2>3. Level(q[i]) \in Int
    BY <2>2 DEF Level, TaskIn
  <2>4. r[j] = IF i + j <= n
               THEN [q[from(j)] EXCEPT !.cpriority = @ - Level(q[i])]
               ELSE [q[from(j)] EXCEPT !.cpriority = @ - Level(q[i]) - 1]
    BY DEF Rotated
  <2>5. ASSUME NEW x \in TaskIn, NEW c \in Int
        PROVE  /\ [x EXCEPT !.cpriority = c] \in TaskIn
               /\ [x EXCEPT !.cpriority = c].thread = x.thread
    BY DEF TaskIn
  <2>6. /\ q[from(j)].cpriority - Level(q[i]) \in Int
        /\ q[from(j)].cpriority - Level(q[i]) - 1 \in Int
    BY SMTT(30), <2>1, <2>3 DEF TaskIn
  <2> HIDE DEF from, r
  <2> QED BY <2>1, <2>4, <2>5, <2>6
<1>4. r \in [1 .. n - 1 -> TaskIn]
  <2>1. r = [j \in 1 .. n - 1 |-> r[j]]
    BY DEF Rotated
  <2> HIDE DEF r
  <2> QED BY <1>3, <2>1
<1>5. r \in Seq(TaskIn) /\ Len(r) = n - 1
  <2> HIDE DEF r, n
  <2> QED BY <1>1, <1>4
<1>6. Distinct(r)
  <2> SUFFICES ASSUME NEW j \in 1 .. n - 1, NEW k \in 1 .. n - 1,
                      r[j].thread = r[k].thread
               PROVE  j = k
    BY <1>5 DEF Distinct
  <2>1. from(j) = from(k)
    <3>1. /\ from(j) \in 1 .. n /\ from(k) \in 1 .. n
          /\ q[from(j)].thread = q[from(k)].thread
        BY <1>2, <1>3
    <3> HIDE DEF from
    <3> QED BY <3>1 DEF Distinct
  <2> QED BY <1>1, <2>1
<1>7. ASSUME NEW j \in 1 .. n - 1
      PROVE  r[j].thread \in ThreadsIn(q) \ {q[i].thread}
  <2>1. from(j) \in 1 .. n /\ from(j) # i /\ r[j].thread = q[from(j)].thread
    BY <1>2, <1>3
  <2> HIDE DEF from
  <2> QED BY <2>1 DEF ThreadsIn, Distinct
<1>8. ASSUME NEW k \in 1 .. n, k # i
      PROVE  \E j \in 1 .. n - 1 : r[j].thread = q[k].thread
  <2> DEFINE j == IF k > i THEN k - i ELSE k - i + n
  <2>1. j \in 1 .. n - 1 /\ from(j) = k
    BY <1>1, <1>8
  <2> HIDE DEF j
  <2> QED BY <1>3, <2>1
<1>9. ThreadsIn(r) = ThreadsIn(q) \ {q[i].thread}
  <2> HIDE DEF r, n
  <2>1. \A x \in ThreadsIn(r) : x \in ThreadsIn(q) \ {q[i].thread}
    BY <1>5, <1>7 DEF ThreadsIn
  <2>2. \A x \in ThreadsIn(q) \ {q[i].thread} : x \in ThreadsIn(r)
    BY <1>5, <1>8 DEF ThreadsIn, n
  <2> QED BY <2>1, <2>2
<1> QED BY <1>5, <1>6, <1>9

\* A push adds one thread to the queue.
LEMMA PushedQueue ==
    ASSUME NEW q \in Seq(TaskIn), NEW x \in TaskIn, Distinct(q),
           x.thread \notin ThreadsIn(q)
    PROVE  /\ Append(q, x) \in Seq(TaskIn)
           /\ Distinct(Append(q, x))
           /\ ThreadsIn(Append(q, x)) = ThreadsIn(q) \cup {x.thread}
<1> DEFINE r == Append(q, x)
<1>1. /\ r \in Seq(TaskIn) /\ Len(r) = Len(q) + 1
      /\ \A i \in 1 .. Len(q) : r[i] = q[i]
      /\ r[Len(q) + 1] = x
    BY AppendProperties
<1>2. Len(q) \in Nat
    BY LenProperties
<1> HIDE DEF r
<1>3. Distinct(r)
  <2> SUFFICES ASSUME NEW i \in 1 .. Len(q) + 1, NEW j \in 1 .. Len(q) + 1,
                      r[i].thread = r[j].thread
               PROVE  i = j
    BY <1>1 DEF Distinct
  <2> QED BY <1>1, <1>2 DEF Distinct, ThreadsIn
<1>4. ThreadsIn(r) = ThreadsIn(q) \cup {x.thread}
  <2>1. \A y \in ThreadsIn(r) : y \in ThreadsIn(q) \cup {x.thread}
    BY <1>1, <1>2 DEF ThreadsIn
  <2>2. \A i \in 1 .. Len(q) : r[i] = q[i] /\ i \in 1 .. Len(r)
    BY <1>1, <1>2
  <2>3. Len(q) + 1 \in 1 .. Len(r)
    BY <1>1, <1>2
  <2>4. \A y \in ThreadsIn(q) : y \in ThreadsIn(r)
    BY <2>2 DEF ThreadsIn
  <2>5. x.thread \in ThreadsIn(r)
    BY <1>1, <2>3 DEF ThreadsIn
  <2> QED BY <2>1, <2>4, <2>5
<1> QED BY <1>1, <1>3, <1>4 DEF r

-----------------------------------------------------------------------------
(* The hash table of a process.                                            *)

\* The probe sequence of a key comes to every slot, so a slot of S is found.
LEMMA FirstSlotIn ==
    ASSUME NEW key \in Nat, NEW S, S \subseteq Slots
    PROVE  IF S = {} THEN FirstSlot(key, S) = NoSlot ELSE FirstSlot(key, S) \in S
<1> DEFINE h == key % HASHTABLE_CAPACITY
           hits == {i \in Slots : Probe(key, i) \in S}
<1>1. h \in Slots
    BY CapacityAssumption DEF Slots
<1>2. \A i \in Slots : Probe(key, i) = (h + i) % HASHTABLE_CAPACITY
    BY DEF Probe, hash
<1> HIDE DEF h
<1>3. \A i \in Slots : (h + i) % HASHTABLE_CAPACITY =
          IF h + i < HASHTABLE_CAPACITY THEN h + i ELSE h + i - HASHTABLE_CAPACITY
    BY <1>1, CapacityAssumption DEF Slots
<1>4. ASSUME NEW s \in S PROVE hits # {}
  <2> DEFINE i == IF s >= h THEN s - h ELSE s - h + HASHTABLE_CAPACITY
  <2>1. i \in Slots
    BY <1>1, CapacityAssumption DEF Slots
  <2>2. (h + i) % HASHTABLE_CAPACITY = s
    BY <1>1, <1>3, <2>1, CapacityAssumption DEF Slots
  <2> QED BY <1>2, <2>1, <2>2
<1>5. hits # {} => Min(hits) \in hits
  <2>1. hits \subseteq Nat
    BY CapacityAssumption DEF Slots
  <2> QED BY <2>1, MinIn
<1>6. FirstSlot(key, S) = IF hits = {} THEN NoSlot ELSE Probe(key, Min(hits))
    BY DEF FirstSlot
<1>7. Min(hits) \in hits => Probe(key, Min(hits)) \in S
    OBVIOUS
<1>8. S = {} => hits = {}
    OBVIOUS
<1> QED BY <1>4, <1>5, <1>6, <1>7, <1>8

LEMMA SlotFacts ==
    /\ NoSlot \notin Slots /\ Slots \subseteq Nat
    /\ IsFiniteSet(Slots) /\ Cardinality(Slots) = HASHTABLE_CAPACITY
<1>1. NoSlot \notin Slots /\ Slots \subseteq Nat
    BY CapacityAssumption DEF NoSlot, Slots
<1>2. 0 \in Int /\ HASHTABLE_CAPACITY - 1 \in Int
    BY CapacityAssumption
<1> QED BY <1>1, <1>2, FS_Interval, CapacityAssumption DEF Slots

InUse(t) == Slots \ Unused(t)

\* The number of slots in use is a number, and all of them when none is left.
LEMMA TakenCount ==
    ASSUME NEW t
    PROVE  /\ IsFiniteSet(InUse(t)) /\ Taken(t) = Cardinality(InUse(t)) /\ Taken(t) \in Nat
           /\ Taken(t) < HASHTABLE_CAPACITY => Unused(t) # {}
<1>1. InUse(t) \in SUBSET Slots
    BY DEF InUse
<1>2. IsFiniteSet(InUse(t)) /\ Cardinality(InUse(t)) \in Nat
    BY <1>1, SlotFacts, FS_Subset, FS_CardinalityType
<1>3. Taken(t) = Cardinality(InUse(t))
    BY DEF Taken, InUse
<1>4. Unused(t) = {} => Taken(t) = HASHTABLE_CAPACITY
    BY SlotFacts DEF Taken
<1> QED BY <1>2, <1>3, <1>4, CapacityAssumption

\* add() takes an unused slot, if there is one, and keeps the others.
LEMMA AddedTable ==
    ASSUME NEW t \in ThreadTable, NEW key \in Nat, NEW item \in Nat
    PROVE  LET u == add(t, key, item) IN
           /\ u \in ThreadTable
           /\ Unused(t) = {} => u = t
           /\ Unused(t) # {} =>
                 \E s \in Unused(t) :
                     /\ InUse(u) = InUse(t) \cup {s} /\ u.keys[s] = key /\ u.data[s] = item
                     /\ \A r \in InUse(t) : u.keys[r] = t.keys[r] /\ u.data[r] = t.data[r]
<1> DEFINE u == add(t, key, item)
           s == FirstSlot(key, Unused(t))
<1>1. Unused(t) \subseteq Slots
    BY DEF Unused
<1>2. IF Unused(t) = {} THEN s = NoSlot ELSE s \in Unused(t)
    BY <1>1, FirstSlotIn
<1>3. u = IF s = NoSlot THEN t ELSE [t EXCEPT !.used[s] = TRUE, !.keys[s] = key,
                                              !.data[s] = item, !.item_count = @ + 1]
    BY DEF add
<1> HIDE DEF u, s
<1>4. CASE Unused(t) = {}
    BY <1>2, <1>3, <1>4 DEF u
<1>5. CASE Unused(t) # {}
  <2>1. s \in Slots /\ s \in Unused(t) /\ s # NoSlot /\ ~t.used[s]
    BY <1>2, <1>5, SlotFacts DEF Unused
  <2> DEFINE used == [t.used EXCEPT ![s] = TRUE]
             keys == [t.keys EXCEPT ![s] = key]
             data == [t.data EXCEPT ![s] = item]
  <2>2. used \in [Slots -> BOOLEAN]
    BY <2>1 DEF ThreadTable
  <2>3. keys \in [Slots -> Nat] /\ data \in [Slots -> Nat]
    BY <2>1 DEF ThreadTable
  <2>4. t.item_count + 1 \in Int
    BY DEF ThreadTable
  <2>5. u = [t EXCEPT !.used = used, !.keys = keys, !.data = data,
                      !.item_count = t.item_count + 1]
    BY <1>3, <2>1
  <2>6. /\ used[s] /\ keys[s] = key /\ data[s] = item
        /\ \A r \in Slots : r # s => used[r] = t.used[r] /\ keys[r] = t.keys[r]
                                     /\ data[r] = t.data[r]
    BY <2>1 DEF ThreadTable
  <2> HIDE DEF used, keys, data
  <2>7. u \in ThreadTable /\ u.used = used /\ u.keys = keys /\ u.data = data
    BY <2>2, <2>3, <2>4, <2>5 DEF ThreadTable
  <2>8. InUse(u) = InUse(t) \cup {s}
    BY <2>1, <2>6, <2>7 DEF InUse, Unused
  <2>9. \A r \in InUse(t) : r \in Slots /\ r # s
    BY <2>1 DEF InUse
  <2> QED BY <1>5, <2>1, <2>6, <2>7, <2>8, <2>9 DEF u
<1> QED BY <1>4, <1>5

\* remove() frees a slot with the key if there is one.
LEMMA RemovedTable ==
    ASSUME NEW t \in ThreadTable, NEW key
    PROVE  LET u == remove(t, key) IN
           /\ u \in ThreadTable /\ u.keys = t.keys /\ u.data = t.data
           /\ InUse(u) \subseteq InUse(t)
           /\ \A r \in InUse(t) : r \in InUse(u) \/ t.keys[r] = key
           /\ key \in Nat /\ (\E r \in InUse(t) : t.keys[r] = key) =>
                  \E s \in InUse(t) : t.keys[s] = key /\ InUse(u) = InUse(t) \ {s}
<1> DEFINE u == remove(t, key)
           H == Holding(t, key)
           s == FirstSlot(key, H)
<1>1. H \subseteq Slots /\ H = {r \in InUse(t) : t.keys[r] = key}
    BY DEF Holding, InUse, Unused
<1>2. key \in Nat /\ H # {} => s \in H
    BY <1>1, FirstSlotIn
<1>3. s # NoSlot => s \in H
  <2> DEFINE hits == {i \in Slots : Probe(key, i) \in H}
  <2>1. s = IF hits = {} THEN NoSlot ELSE Probe(key, Min(hits))
    BY DEF FirstSlot
  <2>2. hits # {} => Min(hits) \in hits
    <3>1. hits \subseteq Nat
        BY SlotFacts
    <3> QED BY <3>1, MinIn
  <2>3. Min(hits) \in hits => Probe(key, Min(hits)) \in H
    OBVIOUS
  <2> HIDE DEF hits, H
  <2> QED BY <2>1, <2>2, <2>3
<1>4. u = IF s = NoSlot THEN t ELSE [t EXCEPT !.used[s] = FALSE, !.item_count = @ - 1]
    BY DEF remove
<1> HIDE DEF u, s, H
<1>5. CASE s = NoSlot
    BY <1>1, <1>2, <1>4, <1>5, SlotFacts DEF u
<1>6. CASE s # NoSlot
  <2>1. s \in H /\ s \in Slots
    BY <1>1, <1>3, <1>6
  <2> DEFINE used == [t.used EXCEPT ![s] = FALSE]
  <2>2. /\ used \in [Slots -> BOOLEAN] /\ ~used[s]
        /\ \A r \in Slots : r # s => used[r] = t.used[r]
    BY <2>1 DEF ThreadTable
  <2>3. t.item_count - 1 \in Int
    BY DEF ThreadTable
  <2>4. u = [t EXCEPT !.used = used, !.item_count = t.item_count - 1]
    BY <1>4, <1>6
  <2> HIDE DEF used
  <2>5. u \in ThreadTable /\ u.used = used /\ u.keys = t.keys /\ u.data = t.data
    BY <2>2, <2>3, <2>4 DEF ThreadTable
  <2>6. InUse(u) = InUse(t) \ {s}
    BY <2>1, <2>2, <2>5 DEF InUse, Unused
  <2>7. s \in InUse(t) /\ t.keys[s] = key
    BY <1>1, <2>1
  <2> QED BY <2>5, <2>6, <2>7 DEF u
<1> QED BY <1>5, <1>6

-----------------------------------------------------------------------------
\* main() leaves two new threads in the queue and none running.
LEMMA InitIInv == Init => IInv
<1> SUFFICES ASSUME Init PROVE IInv
    OBVIOUS
<1> USE Ids, SchedAssumption
<1> DEFINE a == [thread |-> TTY, cpriority |-> Priority[TTY]]
           b == [thread |-> INIT, cpriority |-> Priority[INIT]]
<1>1. a \in TaskIn /\ b \in TaskIn /\ a.thread = TTY /\ b.thread = INIT
    BY DEF TaskIn
<1>2. schedule = <<a, b>>
    BY DEF Init
<1> HIDE DEF a, b
<1>3. /\ schedule \in Seq(TaskIn) /\ Len(schedule) = 2
      /\ schedule[1] = a /\ schedule[2] = b
    BY <1>1, <1>2
<1>4. Queued = {TTY, INIT} /\ Distinct(schedule)
  <2>1. 1 .. Len(schedule) = {1, 2}
    BY <1>3
  <2> QED BY <1>1, <1>3, <2>1 DEF Queued, ThreadsIn, Distinct
<1>5. TypeOK
  <2>1. threads \in [Pids -> ThreadTable] /\ leftover \in [Pids -> Nat]
    <3>1. PICK g \in Leftover :
            /\ leftover = [p \in Pids |-> IF p = KPROC THEN Taken(g) ELSE 0]
            /\ threads = [p \in Pids |-> IF p = KPROC THEN add(add(g, 0, TTY), 1, INIT)
                                         ELSE EmptyTable(0)]
        BY DEF Init
    <3>2. g \in ThreadTable /\ 0 \in Nat /\ 1 \in Nat /\ TTY \in Nat /\ INIT \in Nat
        BY DEF TTY, INIT
    <3>3. add(g, 0, TTY) \in ThreadTable
        BY <3>2, AddedTable
    <3>4. add(add(g, 0, TTY), 1, INIT) \in ThreadTable
        BY <3>2, <3>3, AddedTable
    <3>5. EmptyTable(0) \in ThreadTable
        BY DEF EmptyTable, ThreadTable
    <3>6. Taken(g) \in Nat
        BY TakenCount
    <3> QED BY <3>1, <3>4, <3>5, <3>6
  <2>2. /\ state \in [Tids -> {"none", "NEW", "ACTIVE", "DEAD"}]
        /\ lid \in [Tids -> Nat \cup {NONE}]
        /\ tproc \in [Tids -> Pids \cup {NONE}]
        /\ stack \in [Tids -> Tids \cup {NONE}]
    BY DEF Init, Tids
  <2>3. /\ thread_counter \in 2 .. MaxThreads
        /\ proc_counter \in Pids
        /\ lid_counter \in [Pids -> Nat]
        /\ spawn \in [proc : Pids, nid : Nat, child : Tids]
    BY DEF Init, KPROC, Pids, TTY
  <2>4. ctask \in Task
    BY DEF Init, Task, NONE
  <2>5. /\ cthread \in Tids \cup {NONE} /\ cproc \in Pids \cup {NONE}
        /\ cpu \in Tids \cup {NONE} /\ halted \in BOOLEAN
        /\ pc \in [Tids -> {"body", "add", "lid", "list", "push", "kill", "spin"}]
        /\ me \in [Tids -> Tids \cup {NONE}]
    BY DEF Init
  <2> QED BY <1>3, <2>1, <2>2, <2>3, <2>4, <2>5 DEF TypeOK, TaskIn
<1>6. ThreadEntries = {TTY, INIT} /\ Unscheduled = {} /\ ctask.thread = NONE
  <2>1. \A t \in Tids : (state[t] # "none") <=> (t = TTY \/ t = INIT)
    BY DEF Init, TTY, INIT
  <2>2. ThreadEntries = {TTY, INIT}
    BY <2>1 DEF ThreadEntries
  <2>3. pc[INIT] = "body"
    BY DEF Init
  <2>4. ctask.thread = NONE
    BY DEF Init
  <2> QED BY <2>2, <2>3, <2>4 DEF Unscheduled
<1>7. ScheduleExact
    BY <1>4, <1>6 DEF ScheduleExact
<1>8. CurrentIdentity
    BY <1>6 DEF CurrentIdentity, Init, ThreadEntries
<1>9. SpawnInv /\ SelfInv
    BY DEF SpawnInv, SelfInv, Init, Tids, TTY, INIT
<1> QED BY <1>5, <1>7, <1>8, <1>9 DEF IInv

\* A reschedule keeps the invariant, when the states st it works with differ
\* from the table's in the running thread at most.
LEMMA PreemptIInv ==
    ASSUME IInv, NEW st, Preempt(st),
           st \in [Tids -> {"none", "NEW", "ACTIVE", "DEAD"}],
           \A t \in Tids : t # ctask.thread => st[t] = state[t],
           ctask.thread # NONE => st[ctask.thread] \in {"ACTIVE", "DEAD"},
           st[TTY] = state[TTY]
    PROVE  IInv'
<1> USE Ids
<1> DEFINE old == ctask.thread
           reap == old # NONE /\ Dead(st)
           q == Requeued(st)
<1>1. PICK i \in 1 .. Len(q) :
            /\ schedule' = Rotated(q, i)
            /\ ctask' = Picked(q, i)
            /\ cthread' = q[i].thread
            /\ cproc' = get_process(st, q[i].thread)
            /\ stack' = SavedStack(st)
            /\ cpu' = get_stack(st, stack', q[i].thread)
            /\ state' = [t \in Tids |-> IF reap /\ t = old THEN "none"
                                        ELSE IF t = q[i].thread /\ st[t] = "NEW" THEN "ACTIVE"
                                        ELSE st[t]]
            /\ IF reap THEN delete_thread(st, old) ELSE UNCHANGED <<lid, tproc, threads>>
            /\ UNCHANGED <<thread_counter, proc_counter, lid_counter, leftover, locals, halted>>
    BY DEF Preempt, set_current_thread
<1> DEFINE new == q[i].thread
<1>2. /\ schedule \in Seq(TaskIn) /\ ctask \in Task /\ old \in Tids \cup {NONE}
      /\ Distinct(schedule) /\ old \notin Queued
      /\ Queued \cup ({old} \ {NONE}) = ThreadEntries \ Unscheduled
    BY DEF IInv, TypeOK, ScheduleExact, TaskIn, Task
<1>3. /\ q \in Seq(TaskIn) /\ Distinct(q)
      /\ ThreadsIn(q) = Queued \cup (IF old = NONE \/ reap THEN {} ELSE {old})
  <2>1. CASE old = NONE \/ reap
    BY <1>2, <2>1 DEF Requeued, Queued
  <2>2. CASE ~(old = NONE \/ reap)
    <3> DEFINE x == [thread |-> old, cpriority |-> Priority[old]]
    <3>1. x \in TaskIn /\ x.thread = old
        BY <1>2, <2>2, SchedAssumption DEF TaskIn
    <3>2. q = Append(schedule, x)
        BY <2>2 DEF Requeued
    <3> HIDE DEF x, q
    <3> QED BY <1>2, <2>2, <3>1, <3>2, PushedQueue DEF Queued
  <2> QED BY <2>1, <2>2
<1>4. q[i] \in TaskIn /\ new \in Tids /\ new \in ThreadsIn(q) /\ Level(q[i]) \in Int
  <2>1. q[i] \in TaskIn
    BY <1>3, ElementOfSeq
  <2> QED BY <2>1 DEF TaskIn, ThreadsIn, Level
<1>5. /\ schedule' \in Seq(TaskIn)
      /\ Distinct(schedule')
      /\ ThreadsIn(schedule') = ThreadsIn(q) \ {new}
  <2> HIDE DEF q
  <2> QED BY <1>1, <1>3, RotatedQueue
<1>6. /\ ctask' \in Task /\ ctask'.thread = new /\ cthread' = new
      /\ cproc' = get_process(st, new)
    BY <1>1, <1>4 DEF Picked, Task, TaskIn
<1> HIDE DEF q, new
<1>7. new \in ThreadEntries /\ new \notin Unscheduled /\ (reap => new # old)
    BY <1>2, <1>3, <1>4
<1>8. state' = [t \in Tids |-> IF reap /\ t = old THEN "none"
                               ELSE IF t = new /\ st[t] = "NEW" THEN "ACTIVE" ELSE st[t]]
    BY <1>1 DEF new
<1>9. old # NONE => old \in ThreadEntries /\ old \notin Unscheduled
    BY <1>2
<1>10. \A t \in Tids : st[t] = "none" <=> state[t] = "none"
    BY <1>9 DEF ThreadEntries
<1>10a. st[new] # "none" /\ cproc' = tproc[new]
    BY <1>4, <1>6, <1>7, <1>10 DEF ThreadEntries, get_process
<1>11. ThreadEntries' = IF reap THEN ThreadEntries \ {old} ELSE ThreadEntries
    BY <1>8, <1>10 DEF ThreadEntries
<1>12. Unscheduled' = Unscheduled /\ pc' = pc /\ spawn' = spawn /\ me' = me
    BY <1>1 DEF Unscheduled, locals
<1>13. ScheduleExact'
    BY <1>2, <1>3, <1>4, <1>5, <1>6, <1>7, <1>9, <1>11, <1>12
    DEF ScheduleExact, Queued
<1>14. /\ stack' \in [Tids -> Tids \cup {NONE}]
       /\ \A t \in ThreadEntries : stack'[t] = t
    BY <1>1, <1>2 DEF SavedStack, IInv, TypeOK, CurrentIdentity
<1>15. cpu' = new
    BY <1>1, <1>7, <1>14, <1>10a DEF new, get_stack
<1>16. /\ lid' \in [Tids -> Nat \cup {NONE}]
       /\ tproc' \in [Tids -> Pids \cup {NONE}]
       /\ tproc'[new] = tproc[new]
  <2>1. CASE reap
    <3>1. /\ lid' = [lid EXCEPT ![old] = NONE]
          /\ tproc' = [tproc EXCEPT ![old] = NONE]
      BY <1>1, <2>1 DEF delete_thread
    <3>2. /\ lid \in [Tids -> Nat \cup {NONE}]
          /\ tproc \in [Tids -> Pids \cup {NONE}]
      BY DEF IInv, TypeOK
    <3>3. new # old /\ new \in Tids
      BY <1>4, <1>7, <2>1
    <3> QED BY <3>1, <3>2, <3>3
  <2>2. CASE ~reap
    BY <1>1, <2>2 DEF IInv, TypeOK
  <2> QED BY <2>1, <2>2
<1>17. threads' \in [Pids -> ThreadTable] /\ leftover' = leftover
  <2>0. threads \in [Pids -> ThreadTable] /\ tproc \in [Tids -> Pids \cup {NONE}]
    BY DEF IInv, TypeOK
  <2>1. CASE reap /\ get_process(st, old) # NONE
    <3>1. threads' = [threads EXCEPT ![tproc[old]] =
                          remove(threads[tproc[old]], get_lid(st, old))]
        BY <1>1, <2>1 DEF delete_thread
    <3>2. tproc[old] \in Pids
        BY <1>2, <2>0, <2>1 DEF get_process
    <3>3. remove(threads[tproc[old]], get_lid(st, old)) \in ThreadTable
        BY <2>0, <3>2, RemovedTable
    <3> QED BY <1>1, <2>0, <3>1, <3>3
  <2>2. CASE ~(reap /\ get_process(st, old) # NONE)
    BY <1>1, <2>0, <2>2 DEF delete_thread
  <2> QED BY <2>1, <2>2
<1>18. state' \in [Tids -> {"none", "NEW", "ACTIVE", "DEAD"}]
    BY <1>8
<1>19. TypeOK'
  <2>1. cproc' \in Pids \cup {NONE}
    BY <1>4, <1>10a DEF IInv, TypeOK
  <2>2. /\ thread_counter' = thread_counter /\ proc_counter' = proc_counter
        /\ lid_counter' = lid_counter /\ halted' = halted
    BY <1>1
  <2> QED BY <1>4, <1>5, <1>6, <1>12, <1>14, <1>15, <1>16, <1>17, <1>18, <2>1, <2>2
          DEF IInv, TypeOK, TaskIn
<1>20. CurrentIdentity'
  <2>1. state'[new] \in {"ACTIVE", "DEAD"}
    BY <1>4, <1>7, <1>8, <1>10 DEF ThreadEntries
  <2> QED BY <1>4, <1>6, <1>11, <1>14, <1>15, <1>16, <1>10a, <2>1 DEF CurrentIdentity
<1>21. SpawnInv'
  <2>1. \A t \in Tids : state[t] = "none" => state'[t] = "none"
    BY <1>7, <1>8, <1>10 DEF ThreadEntries
  <2>2. pc[INIT] \in {"lid", "list", "push"} => state'[spawn.child] = "NEW"
    <3> SUFFICES ASSUME pc[INIT] \in {"lid", "list", "push"}
                 PROVE  state'[spawn.child] = "NEW"
        OBVIOUS
    <3>1. spawn.child \in Unscheduled /\ spawn.child \in Tids
        BY DEF Unscheduled, IInv, TypeOK
    <3>2. spawn.child # new /\ spawn.child # old /\ state[spawn.child] = "NEW"
        BY <1>7, <1>9, <3>1 DEF IInv, SpawnInv
    <3> QED BY <1>8, <3>1, <3>2
  <2>3. thread_counter' = thread_counter
    BY <1>1
  <2>4. spawn.child \in Tids
    BY DEF IInv, TypeOK
  <2> QED BY <1>12, <2>1, <2>2, <2>3, <2>4 DEF IInv, SpawnInv
<1>22. SelfInv'
  <2>1. state'[TTY] \in {"NEW", "ACTIVE"}
    <3>1. st[TTY] \in {"NEW", "ACTIVE"}
        BY DEF IInv, SelfInv
    <3>2. ~(reap /\ TTY = old)
        BY <3>1 DEF Dead
    <3> QED BY <1>8, <3>1, <3>2
  <2> QED BY <1>12, <2>1 DEF IInv, SelfInv
<1> QED BY <1>13, <1>19, <1>20, <1>21, <1>22 DEF IInv

-----------------------------------------------------------------------------
\* The timer reschedules with the states as they are.
LEMMA TimerIInv == IInv /\ timer => IInv'
<1> SUFFICES ASSUME IInv, timer PROVE IInv'
    OBVIOUS
<1>1. state \in [Tids -> {"none", "NEW", "ACTIVE", "DEAD"}]
    BY DEF IInv, TypeOK
<1>2. ctask.thread # NONE => state[ctask.thread] \in {"ACTIVE", "DEAD"}
    BY DEF IInv, CurrentIdentity
<1> QED BY <1>1, <1>2, PreemptIInv DEF timer

\* An exception reschedules with the current thread dead.
LEMMA FaultIInv == ASSUME IInv, NEW t \in Tids, fault(t) PROVE IInv'
<1> USE Ids
<1>1. t # TTY /\ cthread = t /\ ctask.thread = t /\ state[t] # "none"
    BY DEF fault, Running, IInv, CurrentIdentity
<1> DEFINE st == Killed(cthread)
<1>2. /\ st \in [Tids -> {"none", "NEW", "ACTIVE", "DEAD"}]
      /\ \A u \in Tids : u # t => st[u] = state[u]
      /\ st[t] = "DEAD"
    BY <1>1 DEF Killed, IInv, TypeOK
<1>3. Preempt(st)
    BY DEF fault
<1> HIDE DEF st
<1> QED BY <1>1, <1>2, <1>3, PreemptIInv

\* panic() stops the kernel and changes nothing else.
LEMMA PanicIInv == ASSUME IInv, NEW t \in Tids, panic(t) PROVE IInv'
<1>1. /\ UNCHANGED <<state, stack, tables, threads, sched, locals>>
      /\ halted' = TRUE
    BY DEF panic
<1>2. TypeOK'
    BY <1>1 DEF IInv, TypeOK, tables, sched, locals
<1> QED BY <1>1, <1>2
        DEF IInv, ScheduleExact, CurrentIdentity, SpawnInv, SelfInv, ThreadEntries,
            Unscheduled, Queued, ThreadsIn, Distinct, tables, sched, locals

\* A new process changes no thread.
LEMMA CreateIInv == IInv /\ create => IInv'
<1> SUFFICES ASSUME IInv, create PROVE IInv'
    OBVIOUS
<1> USE Ids, SchedAssumption
<1>1. UNCHANGED <<state, stack, lid, tproc, thread_counter, sched, locals, halted>>
    BY DEF create
<1>2. TypeOK'
  <2>1. proc_counter' \in Pids
    BY DEF create, IInv, TypeOK, Pids
  <2>2. lid_counter' \in [Pids -> Nat]
    BY DEF create, IInv, TypeOK
  <2>3. PICK g \in Leftover :
            /\ threads' = [threads EXCEPT ![proc_counter'] = g]
            /\ leftover' = [leftover EXCEPT ![proc_counter'] = Taken(g)]
    BY DEF create
  <2>4. threads' \in [Pids -> ThreadTable] /\ leftover' \in [Pids -> Nat]
    <3>1. g \in ThreadTable /\ Taken(g) \in Nat
        BY TakenCount
    <3> QED BY <2>1, <2>3, <3>1 DEF IInv, TypeOK
  <2> QED BY <1>1, <2>1, <2>2, <2>4 DEF IInv, TypeOK, sched, locals
<1> QED BY <1>1, <1>2
        DEF IInv, ScheduleExact, CurrentIdentity, SpawnInv, SelfInv, ThreadEntries,
            Unscheduled, Queued, ThreadsIn, Distinct, sched, locals

\* The id that a new thread gets was never used.
LEMMA SpawnEnterIInv == ASSUME IInv, NEW p \in Pids, spawn_enter(p) PROVE IInv'
<1> USE Ids, SchedAssumption
<1>1. /\ UNCHANGED <<state, stack, lid, tproc, proc_counter, threads, leftover, sched, me, halted>>
      /\ pc' = [pc EXCEPT ![INIT] = "add"] /\ pc[INIT] = "body"
      /\ spawn' = [proc |-> p, nid |-> lid_counter[p], child |-> thread_counter]
      /\ thread_counter' = thread_counter + 1 /\ thread_counter < MaxThreads
      /\ lid_counter' = [lid_counter EXCEPT ![p] = @ + 1]
    BY DEF spawn_enter, Goto
<1>2. thread_counter \in Tids /\ thread_counter \in 2 .. MaxThreads
    BY <1>1 DEF IInv, TypeOK, Tids
<1>3. TypeOK'
  <2>1. lid_counter' \in [Pids -> Nat] /\ lid_counter[p] \in Nat
    BY SMTT(30), <1>1 DEF IInv, TypeOK
  <2>2. spawn' \in [proc : Pids, nid : Nat, child : Tids]
    BY <1>1, <1>2, <2>1
  <2>3. thread_counter' \in 2 .. MaxThreads
    BY <1>1, <1>2
  <2>4. pc' \in [Tids -> {"body", "add", "lid", "list", "push", "kill", "spin"}]
    BY <1>1 DEF IInv, TypeOK
  <2> QED BY <1>1, <2>1, <2>2, <2>3, <2>4 DEF IInv, TypeOK, sched
<1>4. pc'[INIT] = "add" /\ \A t \in Tids : t # INIT => pc'[t] = pc[t]
    BY <1>1 DEF IInv, TypeOK
<1>5. ScheduleExact'
  <2>1. ThreadEntries' = ThreadEntries /\ Unscheduled' = {} /\ Unscheduled = {}
    BY <1>1, <1>4 DEF ThreadEntries, Unscheduled
  <2> QED BY <1>1, <2>1 DEF IInv, ScheduleExact, Queued, sched
<1>6. CurrentIdentity'
    BY <1>1 DEF IInv, CurrentIdentity, ThreadEntries, sched
<1>7. SpawnInv'
  <2>1. spawn'.child = thread_counter /\ state[thread_counter] = "none"
    BY <1>1, <1>2 DEF IInv, SpawnInv
  <2>2. \A t \in Tids : t >= thread_counter + 1 => t >= thread_counter
    BY <1>2
  <2> QED BY <1>1, <1>2, <1>4, <2>1, <2>2 DEF IInv, SpawnInv
<1>8. SelfInv'
    BY <1>1, <1>4 DEF IInv, SelfInv
<1> QED BY <1>3, <1>5, <1>6, <1>7, <1>8 DEF IInv

\* The new thread is in the table, and not in the queue yet.
LEMMA SpawnAddIInv == IInv /\ spawn_add => IInv'
<1> SUFFICES ASSUME IInv, spawn_add PROVE IInv'
    OBVIOUS
<1> USE Ids
<1> DEFINE c == spawn.child
<1>1. /\ UNCHANGED <<thread_counter, proc_counter, lid_counter, threads, leftover, sched, spawn,
                     me, halted>>
      /\ pc' = [pc EXCEPT ![INIT] = "lid"] /\ pc[INIT] = "add" /\ cpu = INIT
      /\ state' = [state EXCEPT ![c] = "NEW"]
      /\ tproc' = [tproc EXCEPT ![c] = spawn.proc]
      /\ lid' = [lid EXCEPT ![c] = NONE]
      /\ stack' = [stack EXCEPT ![c] = c]
    BY DEF spawn_add, Goto, Running
<1>2. /\ c \in Tids /\ spawn.proc \in Pids
      /\ c \in 2 .. thread_counter - 1 /\ thread_counter \in Nat /\ state[c] = "none"
    BY <1>1 DEF IInv, TypeOK, SpawnInv
<1>3. c # TTY /\ c # INIT
    BY <1>2 DEF TTY, INIT
<1> HIDE DEF c
<1>4. TypeOK'
    BY <1>1, <1>2 DEF IInv, TypeOK, sched
<1>5. pc'[INIT] = "lid" /\ \A t \in Tids : t # INIT => pc'[t] = pc[t]
    BY <1>1 DEF IInv, TypeOK
<1>6. ThreadEntries' = ThreadEntries \cup {c} /\ c \notin ThreadEntries
    BY <1>1, <1>2 DEF IInv, TypeOK, ThreadEntries
<1>7. ScheduleExact'
  <2>1. Unscheduled' = {c} /\ Unscheduled = {}
    BY <1>1, <1>5 DEF Unscheduled, c
  <2> QED BY <1>1, <1>6, <2>1 DEF IInv, ScheduleExact, Queued, sched
<1>8. CurrentIdentity'
  <2>1. \A t \in ThreadEntries' : stack'[t] = t
    BY <1>1, <1>2, <1>6 DEF IInv, TypeOK, CurrentIdentity, ThreadEntries
  <2>2. state'[INIT] = state[INIT] /\ tproc'[INIT] = tproc[INIT]
    BY <1>1, <1>2, <1>3 DEF IInv, TypeOK
  <2> QED BY <1>1, <2>1, <2>2 DEF IInv, CurrentIdentity, sched
<1>9. SpawnInv'
  <2>1. \A t \in Tids : t >= thread_counter => t # c
    BY <1>2
  <2>2. \A t \in Tids : t # c => state'[t] = state[t]
    BY <1>1 DEF IInv, TypeOK
  <2>3. state'[c] = "NEW"
    BY <1>1, <1>2 DEF IInv, TypeOK
  <2> QED BY <1>1, <1>2, <1>5, <2>1, <2>2, <2>3 DEF IInv, SpawnInv, c
<1>10. SelfInv'
  <2>1. state'[TTY] = state[TTY]
    BY <1>1, <1>3 DEF IInv, TypeOK
  <2> QED BY <1>1, <1>5, <2>1 DEF IInv, SelfInv
<1> QED BY <1>4, <1>7, <1>8, <1>9, <1>10 DEF IInv

\* The id in the process is written to the new thread's entry only.
LEMMA SpawnLidIInv == IInv /\ spawn_lid => IInv'
<1> SUFFICES ASSUME IInv, spawn_lid PROVE IInv'
    OBVIOUS
<1> USE Ids
<1>1. /\ UNCHANGED <<state, stack, tproc, thread_counter, proc_counter, lid_counter,
                     threads, leftover, sched, spawn, me, halted>>
      /\ pc' = [pc EXCEPT ![INIT] = "list"] /\ pc[INIT] = "lid"
      /\ lid' = IF state[spawn.child] # "none"
                THEN [lid EXCEPT ![spawn.child] = spawn.nid] ELSE lid
    BY DEF spawn_lid, Goto
<1>2. pc'[INIT] = "list" /\ \A t \in Tids : t # INIT => pc'[t] = pc[t]
    BY <1>1 DEF IInv, TypeOK
<1>3. TypeOK'
  <2>1. lid' \in [Tids -> Nat \cup {NONE}]
    BY <1>1 DEF IInv, TypeOK
  <2>2. pc' \in [Tids -> {"body", "add", "lid", "list", "push", "kill", "spin"}]
    BY <1>1 DEF IInv, TypeOK
  <2> QED BY <1>1, <2>1, <2>2 DEF IInv, TypeOK, sched
<1>4. ThreadEntries' = ThreadEntries /\ Unscheduled' = Unscheduled
    BY <1>1, <1>2 DEF ThreadEntries, Unscheduled
<1>5. ScheduleExact' /\ CurrentIdentity'
    BY <1>1, <1>4 DEF IInv, ScheduleExact, CurrentIdentity, Queued, sched
<1>6. SpawnInv' /\ SelfInv'
    BY <1>1, <1>2 DEF IInv, SpawnInv, SelfInv
<1> QED BY <1>3, <1>5, <1>6 DEF IInv

\* The list of the process gets one more entry.
LEMMA SpawnListIInv == IInv /\ spawn_list => IInv'
<1> SUFFICES ASSUME IInv, spawn_list PROVE IInv'
    OBVIOUS
<1> USE Ids
<1>1. /\ UNCHANGED <<state, stack, tables, sched, spawn, me, halted>>
      /\ pc' = [pc EXCEPT ![INIT] = "push"] /\ pc[INIT] = "list"
      /\ threads' = [threads EXCEPT ![spawn.proc] = add(@, spawn.nid, spawn.child)]
    BY DEF spawn_list, Goto
<1>2. pc'[INIT] = "push" /\ \A t \in Tids : t # INIT => pc'[t] = pc[t]
    BY <1>1 DEF IInv, TypeOK
<1>3. TypeOK'
  <2>1. threads' \in [Pids -> ThreadTable]
    <3>0. /\ threads \in [Pids -> ThreadTable]
          /\ spawn.proc \in Pids /\ spawn.nid \in Nat /\ spawn.child \in Tids
        BY DEF IInv, TypeOK
    <3>1. spawn.child \in Nat
        BY <3>0, Zenon
    <3>2. add(threads[spawn.proc], spawn.nid, spawn.child) \in ThreadTable
        BY <3>0, <3>1, AddedTable
    <3> QED BY <1>1, <3>0, <3>2
  <2>2. pc' \in [Tids -> {"body", "add", "lid", "list", "push", "kill", "spin"}]
    BY <1>1 DEF IInv, TypeOK
  <2> QED BY <1>1, <2>1, <2>2 DEF IInv, TypeOK, sched, tables
<1>4. ThreadEntries' = ThreadEntries /\ Unscheduled' = Unscheduled
    BY <1>1, <1>2 DEF ThreadEntries, Unscheduled
<1>5. ScheduleExact' /\ CurrentIdentity'
    BY <1>1, <1>4 DEF IInv, ScheduleExact, CurrentIdentity, Queued, sched, tables
<1>6. SpawnInv' /\ SelfInv'
    BY <1>1, <1>2 DEF IInv, SpawnInv, SelfInv, tables
<1> QED BY <1>3, <1>5, <1>6 DEF IInv

\* The new thread enters the queue once.
LEMMA SpawnPushIInv == IInv /\ spawn_push => IInv'
<1> SUFFICES ASSUME IInv, spawn_push PROVE IInv'
    OBVIOUS
<1> USE Ids
<1> DEFINE c == spawn.child
           x == [thread |-> c, cpriority |-> Priority[c]]
<1>1. /\ UNCHANGED <<state, stack, tables, threads, ctask, cthread, cproc, cpu, spawn, me, halted>>
      /\ pc' = [pc EXCEPT ![INIT] = "body"] /\ pc[INIT] = "push"
      /\ schedule' = Append(schedule, x)
    BY DEF spawn_push, Goto
<1>2. pc'[INIT] = "body" /\ \A t \in Tids : t # INIT => pc'[t] = pc[t]
    BY <1>1 DEF IInv, TypeOK
<1>3. c \in Tids /\ state[c] = "NEW" /\ c # NONE
    BY <1>1 DEF IInv, TypeOK, SpawnInv
<1>4. x \in TaskIn /\ x.thread = c
    BY <1>3, SchedAssumption DEF TaskIn
<1> HIDE DEF c, x
<1>5. Unscheduled = {c} /\ Unscheduled' = {} /\ ThreadEntries' = ThreadEntries /\ c \in ThreadEntries
    BY <1>1, <1>2, <1>3 DEF Unscheduled, ThreadEntries, c
<1>6. /\ schedule \in Seq(TaskIn) /\ Distinct(schedule)
      /\ c \notin Queued /\ c # ctask.thread
    BY <1>3, <1>5 DEF IInv, TypeOK, TaskIn, ScheduleExact
<1>7. /\ schedule' \in Seq(TaskIn) /\ Distinct(schedule')
      /\ Queued' = Queued \cup {c}
    BY <1>1, <1>4, <1>6, PushedQueue DEF Queued
<1>8. TypeOK'
  <2>1. pc' \in [Tids -> {"body", "add", "lid", "list", "push", "kill", "spin"}]
    BY <1>1 DEF IInv, TypeOK
  <2> QED BY <1>1, <1>7, <2>1 DEF IInv, TypeOK, TaskIn, tables
<1>9. ScheduleExact'
    BY <1>1, <1>5, <1>6, <1>7 DEF IInv, ScheduleExact
<1>10. CurrentIdentity'
    BY <1>1, <1>5 DEF IInv, CurrentIdentity, tables
<1>11. SpawnInv' /\ SelfInv'
    BY <1>1, <1>2 DEF IInv, SpawnInv, SelfInv, tables
<1> QED BY <1>8, <1>9, <1>10, <1>11 DEF IInv

\* proc_thread_finish is told its own id.
LEMMA FinishSelfIInv == ASSUME IInv, NEW t \in Tids, finish_self(t) PROVE IInv'
<1> USE Ids
<1>1. /\ UNCHANGED <<state, stack, tables, threads, sched, spawn, halted>>
      /\ pc' = [pc EXCEPT ![t] = "kill"] /\ pc[t] = "body" /\ t # TTY
      /\ me' = [me EXCEPT ![t] = cthread] /\ cthread = t
    BY DEF finish_self, EntryReturns, Goto, Running, IInv, CurrentIdentity
<1>2. pc'[t] = "kill" /\ \A u \in Tids : u # t => pc'[u] = pc[u]
    BY <1>1 DEF IInv, TypeOK
<1>3. TypeOK'
  <2>1. me' \in [Tids -> Tids \cup {NONE}]
    BY <1>1 DEF IInv, TypeOK
  <2>2. pc' \in [Tids -> {"body", "add", "lid", "list", "push", "kill", "spin"}]
    BY <1>1 DEF IInv, TypeOK
  <2> QED BY <1>1, <2>1, <2>2 DEF IInv, TypeOK, sched, tables
<1>4. ThreadEntries' = ThreadEntries /\ Unscheduled' = Unscheduled
    BY <1>1, <1>2 DEF ThreadEntries, Unscheduled
<1>5. ScheduleExact' /\ CurrentIdentity'
    BY <1>1, <1>4 DEF IInv, ScheduleExact, CurrentIdentity, Queued, sched, tables
<1>6. SpawnInv'
    BY <1>1, <1>2 DEF IInv, SpawnInv, tables
<1>7. SelfInv'
  <2>1. \A u \in Tids : me'[u] = IF u = t THEN t ELSE me[u]
    BY <1>1 DEF IInv, TypeOK
  <2> QED BY <1>1, <1>2, <2>1 DEF IInv, SelfInv
<1> QED BY <1>3, <1>5, <1>6, <1>7 DEF IInv

\* A thread that ends kills itself: nobody else, and it stays in the table.
LEMMA FinishKillIInv == ASSUME IInv, NEW t \in Tids, finish_kill(t) PROVE IInv'
<1> USE Ids
<1>1. /\ UNCHANGED <<stack, tables, threads, sched, spawn, me, halted>>
      /\ pc' = [pc EXCEPT ![t] = "spin"] /\ pc[t] = "kill" /\ t # TTY /\ cpu = t
      /\ state' = Killed(t) /\ state[t] \in {"ACTIVE", "DEAD"}
    BY DEF finish_kill, Goto, Running, IInv, CurrentIdentity, SelfInv
<1>2. pc'[t] = "spin" /\ \A u \in Tids : u # t => pc'[u] = pc[u]
    BY <1>1 DEF IInv, TypeOK
<1>3. /\ state' \in [Tids -> {"none", "NEW", "ACTIVE", "DEAD"}]
      /\ state'[t] = "DEAD" /\ \A u \in Tids : u # t => state'[u] = state[u]
    BY <1>1 DEF Killed, IInv, TypeOK
<1>4. TypeOK'
  <2>1. pc' \in [Tids -> {"body", "add", "lid", "list", "push", "kill", "spin"}]
    BY <1>1 DEF IInv, TypeOK
  <2> QED BY <1>1, <1>3, <2>1 DEF IInv, TypeOK, sched, tables
<1>5. ThreadEntries' = ThreadEntries /\ Unscheduled' = Unscheduled
    BY <1>1, <1>2, <1>3 DEF ThreadEntries, Unscheduled
<1>6. ScheduleExact' /\ CurrentIdentity'
    BY <1>1, <1>3, <1>5 DEF IInv, ScheduleExact, CurrentIdentity, Queued, sched, tables
<1>7. SpawnInv'
  <2>1. spawn.child \in Tids
    BY DEF IInv, TypeOK
  <2>2. pc[INIT] \in {"lid", "list", "push"} => spawn.child # t
    BY <1>1 DEF IInv, SpawnInv
  <2>3. pc[INIT] = "add" => spawn.child # t
    BY <1>1 DEF IInv, SpawnInv
  <2>4. \A u \in Tids : u >= thread_counter => u # t
    BY <1>1 DEF IInv, SpawnInv
  <2> QED BY <1>1, <1>2, <1>3, <2>1, <2>2, <2>3, <2>4 DEF IInv, SpawnInv, tables
<1>8. SelfInv'
    BY <1>1, <1>2, <1>3 DEF IInv, SelfInv
<1> QED BY <1>4, <1>6, <1>7, <1>8 DEF IInv

-----------------------------------------------------------------------------
LEMMA NextIInv == IInv /\ [Next]_vars => IInv'
<1> SUFFICES ASSUME IInv, [Next]_vars PROVE IInv'
    OBVIOUS
<1>1. CASE timer
    BY <1>1, TimerIInv
<1>2. CASE create
    BY <1>2, CreateIInv
<1>3. CASE \E p \in Pids : spawn_enter(p)
    BY <1>3, SpawnEnterIInv
<1>4. CASE spawn_add
    BY <1>4, SpawnAddIInv
<1>5. CASE spawn_lid
    BY <1>5, SpawnLidIInv
<1>6. CASE spawn_list
    BY <1>6, SpawnListIInv
<1>7. CASE spawn_push
    BY <1>7, SpawnPushIInv
<1>8. CASE \E t \in Tids : fault(t) \/ panic(t) \/ finish_self(t) \/ finish_kill(t)
    BY <1>8, FaultIInv, PanicIInv, FinishSelfIInv, FinishKillIInv
<1>9. CASE UNCHANGED vars
    BY <1>9
    DEF vars, tables, sched, locals, IInv, TypeOK, ScheduleExact, CurrentIdentity,
        SpawnInv, SelfInv, ThreadEntries, Unscheduled, Queued, ThreadsIn, Distinct
<1> QED BY <1>1, <1>2, <1>3, <1>4, <1>5, <1>6, <1>7, <1>8, <1>9 DEF Next

LEMMA SpecIInv == Spec => []IInv
    BY InitIInv, NextIInv, PTL DEF Spec

\* The tables, the scheduler and the thread locals have their types.
THEOREM SchedTypeCorrect == Spec => []TypeOK
<1>1. IInv => TypeOK
    BY DEF IInv
<1> QED BY <1>1, SpecIInv, PTL

\* The run queue and the running task hold every scheduled thread exactly
\* once, whatever interrupts spawn_thread and however threads end.
THEOREM SchedScheduleExact == Spec => []ScheduleExact
<1>1. IInv => ScheduleExact
    BY DEF IInv
<1> QED BY <1>1, SpecIInv, PTL

\* The running thread is the one that ctask, cthread and cproc name.
THEOREM SchedCurrentIdentity == Spec => []CurrentIdentity
<1>1. IInv => CurrentIdentity
    BY DEF IInv
<1> QED BY <1>1, SpecIInv, PTL

\* When scheduler_increment has no running task to push back, the queue has
\* another one: the tty thread, if nobody else.
THEOREM SchedRunQueueNeverEmpty == Spec => []RunQueueNeverEmpty
<1>1. IInv => RunQueueNeverEmpty
  <2> SUFFICES ASSUME IInv, ctask.thread = NONE \/ Dead(state)
               PROVE  schedule # <<>>
    BY DEF RunQueueNeverEmpty
  <2> USE Ids
  <2>1. TTY \in ThreadEntries /\ TTY \notin Unscheduled
    <3>1. TTY \in ThreadEntries
        BY DEF IInv, SelfInv, ThreadEntries
    <3>2. pc[INIT] \in {"lid", "list", "push"} => spawn.child # TTY
        BY DEF IInv, TypeOK, SpawnInv, TTY
    <3> QED BY <3>1, <3>2 DEF Unscheduled
  <2>2. ctask.thread # TTY
    BY DEF IInv, SelfInv, Dead
  <2>3. TTY \in Queued
    BY <2>1, <2>2 DEF IInv, ScheduleExact
  <2> QED BY <2>3 DEF Queued, ThreadsIn
<1> QED BY <1>1, SpecIInv, PTL

\* A reschedule ends nobody but the running thread.
LEMMA PreemptSelfKill ==
    ASSUME IInv, NEW st, Preempt(st), \A u \in Tids : u # ctask.thread => st[u] = state[u],
           NEW t \in Tids, state[t] \in {"NEW", "ACTIVE"}, state'[t] \in {"DEAD", "none"}
    PROVE  cpu = t
<1>1. \E i \in 1 .. Len(Requeued(st)) :
          state' = [u \in Tids |-> IF (ctask.thread # NONE /\ Dead(st)) /\ u = ctask.thread
                                  THEN "none"
                                  ELSE IF u = Requeued(st)[i].thread /\ st[u] = "NEW" THEN "ACTIVE"
                                  ELSE st[u]]
    BY DEF Preempt
<1>2. t = ctask.thread
    BY <1>1
<1> QED BY <1>2 DEF IInv, CurrentIdentity

\* Only the running thread is ever killed or reaped, and by itself.
THEOREM SchedOnlySelfKill == Spec => OnlySelfKill
<1> DEFINE A == \A t \in Tids :
                  state[t] \in {"NEW", "ACTIVE"} /\ state'[t] \in {"DEAD", "none"} => cpu = t
<1>1. IInv /\ [Next]_vars => [A]_vars
  <2> SUFFICES ASSUME IInv, Next, NEW t \in Tids,
                      state[t] \in {"NEW", "ACTIVE"}, state'[t] \in {"DEAD", "none"}
               PROVE  cpu = t
    OBVIOUS
  <2>1. CASE timer
    BY <2>1, PreemptSelfKill DEF timer
  <2>2. ASSUME NEW u \in Tids, fault(u) PROVE cpu = t
    <3>1. Preempt(Killed(cthread)) /\ cthread = ctask.thread
        BY <2>2 DEF fault, IInv, CurrentIdentity
    <3>2. \A w \in Tids : w # ctask.thread => Killed(cthread)[w] = state[w]
        BY <3>1 DEF Killed
    <3> QED BY <3>1, <3>2, PreemptSelfKill
  <2>3. ASSUME NEW u \in Tids, finish_kill(u) PROVE cpu = t
    <3>1. cpu = u /\ state' = Killed(u)
        BY <2>3 DEF finish_kill, Running, IInv, SelfInv
    <3> QED BY <3>1 DEF Killed
  <2>4. CASE spawn_add
    <3>1. state' = [state EXCEPT ![spawn.child] = "NEW"]
        BY <2>4 DEF spawn_add
    <3> QED BY <3>1 DEF IInv, TypeOK
  <2>5. CASE \/ create \/ spawn_lid \/ spawn_list \/ spawn_push
             \/ \E p \in Pids : spawn_enter(p)
             \/ \E u \in Tids : panic(u) \/ finish_self(u)
    <3>1. state' = state
        BY <2>5 DEF create, spawn_lid, spawn_list, spawn_push, spawn_enter, panic, finish_self
    <3> QED BY <3>1
  <2> QED BY <2>1, <2>2, <2>3, <2>4, <2>5 DEF Next
<1> QED BY <1>1, SpecIInv, PTL DEF Spec, OnlySelfKill
-----------------------------------------------------------------------------
\* The thread that spawn_thread has entered in thread_table and not yet told
\* its id in the process.
Unnamed == IF pc[INIT] = "lid" THEN {spawn.child} ELSE {}

\* The id of a thread in its process: from that process's counter, and no
\* other thread of the process has it.
LidInv ==
    /\ \A t \in ThreadEntries : tproc[t] \in 1 .. proc_counter
    /\ \A t \in ThreadEntries \ Unnamed : lid[t] \in Nat /\ lid[t] < lid_counter[tproc[t]]
    /\ \A t, u \in ThreadEntries \ Unnamed : tproc[t] = tproc[u] /\ lid[t] = lid[u] => t = u

\* The id that spawn_thread holds is of the new thread alone.
NidInv ==
    /\ pc[INIT] \in {"add", "lid", "list"} =>
           /\ spawn.proc \in 1 .. proc_counter
           /\ spawn.nid < lid_counter[spawn.proc]
           /\ \A t \in ThreadEntries \ {spawn.child} : tproc[t] = spawn.proc => lid[t] # spawn.nid
    /\ pc[INIT] \in {"lid", "list"} => tproc[spawn.child] = spawn.proc
    /\ pc[INIT] = "list" => lid[spawn.child] = spawn.nid

\* No two entries of a table have the same key.
UniqueKeys(t) == \A r, s \in InUse(t) : t.keys[r] = t.keys[s] => r = s

\* The slots in use are those found and at most one for each id given out,
\* but for the id that spawn_thread still holds; and a table that was found
\* empty has no key twice.
Pending(p) == IF pc[INIT] \in {"add", "lid", "list"} /\ spawn.proc = p THEN 1 ELSE 0
RoomInv ==
    \A p \in Pids : /\ Taken(threads[p]) + Pending(p) <= leftover[p] + lid_counter[p]
                    /\ lid_counter[p] <= thread_counter
                    /\ leftover[p] = 0 => UniqueKeys(threads[p])

ListInv == LidInv /\ NidInv /\ RoomInv /\ ProcListsThreads

\* What ProcListsThreads says of a process.
Live(p) == {<<lid[t], t>> : t \in {u \in Listed : tproc[u] = p}}
Room(p) == leftover[p] + lid_counter[p] <= HASHTABLE_CAPACITY

LEMMA ListsOf ==
    /\ ProcListsThreads <=>
           /\ \A t \in Listed : tproc[t] \in Pids
           /\ \A p \in Pids : /\ Room(p) => Live(p) \subseteq Listing(threads[p])
                              /\ leftover[p] = 0 => Listing(threads[p]) = Live(p)
    /\ ProcListsThreads' <=>
           /\ \A t \in Listed' : tproc'[t] \in Pids
           /\ \A p \in Pids : /\ Room(p)' => Live(p)' \subseteq Listing(threads'[p])
                              /\ leftover'[p] = 0 => Listing(threads'[p]) = Live(p)'
    BY DEF ProcListsThreads, Room, Live

\* What add() and remove() do to the entries.
LEMMA AddedList ==
    ASSUME NEW t \in ThreadTable, NEW key \in Nat, NEW item \in Nat
    PROVE  LET u == add(t, key, item) IN
           /\ u \in ThreadTable
           /\ Taken(u) <= Taken(t) + 1
           /\ Listing(t) \subseteq Listing(u)
           /\ Taken(t) < HASHTABLE_CAPACITY => Listing(u) = Listing(t) \cup {<<key, item>>}
           /\ UniqueKeys(t) /\ (\A x \in Listing(t) : x[1] # key) => UniqueKeys(u)
<1> DEFINE u == add(t, key, item)
<1>1. u \in ThreadTable
    BY AddedTable
<1>2. /\ IsFiniteSet(InUse(t)) /\ Taken(t) = Cardinality(InUse(t)) /\ Taken(t) \in Nat
      /\ Taken(u) = Cardinality(InUse(u))
      /\ Taken(t) < HASHTABLE_CAPACITY => Unused(t) # {}
    BY TakenCount
<1>3. CASE Unused(t) = {}
  <2>1. u = t
    BY <1>3, AddedTable
  <2> QED BY <1>1, <1>2, <1>3, <2>1
<1>4. CASE Unused(t) # {}
  <2>1. PICK s \in Unused(t) :
            /\ InUse(u) = InUse(t) \cup {s} /\ u.keys[s] = key /\ u.data[s] = item
            /\ \A r \in InUse(t) : u.keys[r] = t.keys[r] /\ u.data[r] = t.data[r]
    BY <1>4, AddedTable
  <2> HIDE DEF u
  <2>2. s \notin InUse(t)
    BY DEF InUse
  <2>3. Taken(u) = Taken(t) + 1
    <3>1. Cardinality(InUse(t) \cup {s}) = Cardinality(InUse(t)) + 1
        BY <1>2, <2>2, FS_AddElement
    <3> QED BY <1>2, <2>1, <3>1
  <2>4. Listing(u) = Listing(t) \cup {<<key, item>>}
    BY <2>1 DEF Listing, InUse
  <2>5. ASSUME UniqueKeys(t), \A x \in Listing(t) : x[1] # key PROVE UniqueKeys(u)
    <3>1. \A r \in InUse(t) : u.keys[r] # key
      <4>1. ASSUME NEW r \in InUse(t) PROVE t.keys[r] # key
        <5>1. <<t.keys[r], t.data[r]>> \in Listing(t)
            BY DEF Listing, InUse
        <5> QED BY <2>5, <5>1
      <4> QED BY <2>1, <4>1
    <3> QED BY <2>1, <2>5, <3>1 DEF UniqueKeys
  <2> QED BY <1>1, <1>2, <2>3, <2>4, <2>5 DEF u
<1> QED BY <1>3, <1>4

LEMMA RemovedList ==
    ASSUME NEW t \in ThreadTable, NEW key \in Nat
    PROVE  LET u == remove(t, key) IN
           /\ Taken(u) <= Taken(t)
           /\ Listing(u) \subseteq Listing(t)
           /\ \A x \in Listing(t) : x \in Listing(u) \/ x[1] = key
           /\ UniqueKeys(t) => UniqueKeys(u) /\ \A x \in Listing(u) : x[1] # key
<1> DEFINE u == remove(t, key)
<1>1. /\ u.keys = t.keys /\ u.data = t.data
      /\ InUse(u) \subseteq InUse(t)
      /\ \A r \in InUse(t) : r \in InUse(u) \/ t.keys[r] = key
      /\ (\E r \in InUse(t) : t.keys[r] = key) =>
             \E s \in InUse(t) : t.keys[s] = key /\ InUse(u) = InUse(t) \ {s}
    BY RemovedTable
<1> HIDE DEF u
<1>2. Taken(u) <= Taken(t)
  <2>1. /\ IsFiniteSet(InUse(t)) /\ Taken(t) = Cardinality(InUse(t))
        /\ Taken(u) = Cardinality(InUse(u))
    BY TakenCount
  <2>2. InUse(u) \in SUBSET InUse(t)
    BY <1>1
  <2> QED BY <2>1, <2>2, FS_Subset
<1>3. /\ Listing(t) = {<<t.keys[r], t.data[r]>> : r \in InUse(t)}
      /\ Listing(u) = {<<t.keys[r], t.data[r]>> : r \in InUse(u)}
    BY <1>1 DEF Listing, InUse
<1>4. /\ Listing(u) \subseteq Listing(t)
      /\ \A x \in Listing(t) : x \in Listing(u) \/ x[1] = key
    BY <1>1, <1>3
<1>5. ASSUME UniqueKeys(t) PROVE UniqueKeys(u) /\ \A x \in Listing(u) : x[1] # key
  <2>1. UniqueKeys(u)
    BY <1>1, <1>5 DEF UniqueKeys
  <2>2. \A r \in InUse(u) : t.keys[r] # key
    BY <1>1, <1>5 DEF UniqueKeys
  <2> QED BY <1>3, <2>1, <2>2
<1> QED BY <1>2, <1>4, <1>5 DEF u

\* A step that changes neither the tables nor what is listed in them.
LEMMA SameLists ==
    ASSUME IInv, ListInv, UNCHANGED <<threads, leftover>>, Listed' = Listed,
           \A t \in Listed : lid'[t] = lid[t] /\ tproc'[t] = tproc[t],
           lid_counter' \in [Pids -> Nat], \A p \in Pids : lid_counter[p] <= lid_counter'[p]
    PROVE  ProcListsThreads'
<1>1. \A p \in Pids : Live(p)' = Live(p)
    BY DEF Live
<1>2. \A p \in Pids : Room(p)' => Room(p)
    BY CapacityAssumption DEF Room, IInv, TypeOK
<1> QED BY <1>1, <1>2, ListsOf DEF ListInv

\* A step that changes no table and starts or ends no part of spawn_thread
\* that ListInv is about.
LEMMA QuietStep ==
    ASSUME ListInv, UNCHANGED <<tables, threads, spawn>>, ThreadEntries' = ThreadEntries,
           \A s \in {"add", "lid", "list"} : pc'[INIT] = s <=> pc[INIT] = s
    PROVE  ListInv'
<1>1. Unnamed' = Unnamed /\ Listed' = Listed
    BY DEF Unnamed, Listed
<1>2. LidInv' /\ NidInv'
    BY <1>1 DEF tables, ListInv, LidInv, NidInv
<1>3. RoomInv'
    BY DEF tables, ListInv, RoomInv, Pending
<1>4. ProcListsThreads'
    BY <1>1 DEF tables, ListInv, ProcListsThreads
<1> QED BY <1>2, <1>3, <1>4 DEF ListInv

\* What a reschedule does to the tables: nothing, or it takes the running
\* thread out of thread_table, and removes its id from the list of its
\* process.
LEMMA PreemptTables ==
    ASSUME IInv, NEW st, Preempt(st),
           \A t \in Tids : t # ctask.thread => st[t] = state[t],
           ctask.thread # NONE => st[ctask.thread] \in {"ACTIVE", "DEAD"}
    PROVE  /\ UNCHANGED <<proc_counter, thread_counter, lid_counter, leftover, pc, spawn>>
           /\ \/ ThreadEntries' = ThreadEntries /\ UNCHANGED <<lid, tproc, threads>>
              \/ /\ ctask.thread \in ThreadEntries \ Unscheduled
                 /\ ThreadEntries' = ThreadEntries \ {ctask.thread}
                 /\ \A t \in ThreadEntries' : lid'[t] = lid[t] /\ tproc'[t] = tproc[t]
                 /\ \A p \in Pids :
                        threads'[p] = IF p = tproc[ctask.thread]
                                      THEN remove(threads[p], lid[ctask.thread])
                                      ELSE threads[p]
<1> USE Ids
<1> DEFINE old == ctask.thread
           reap == old # NONE /\ Dead(st)
           q == Requeued(st)
<1>1. PICK i \in 1 .. Len(q) :
            /\ state' = [t \in Tids |-> IF reap /\ t = old THEN "none"
                                        ELSE IF t = q[i].thread /\ st[t] = "NEW" THEN "ACTIVE"
                                        ELSE st[t]]
            /\ IF reap THEN delete_thread(st, old) ELSE UNCHANGED <<lid, tproc, threads>>
            /\ UNCHANGED <<proc_counter, thread_counter, lid_counter, leftover, pc, spawn>>
    BY DEF Preempt, locals
<1>2. /\ old \in Tids \cup {NONE}
      /\ lid \in [Tids -> Nat \cup {NONE}] /\ tproc \in [Tids -> Pids \cup {NONE}]
      /\ threads \in [Pids -> ThreadTable]
    BY DEF IInv, TypeOK, Task
<1>3. old # NONE => old \in ThreadEntries \ Unscheduled /\ old \in Tids
    BY DEF IInv, ScheduleExact, ThreadEntries
<1>4. \A t \in Tids : st[t] = "none" <=> state[t] = "none"
    BY <1>3 DEF ThreadEntries
<1>5. ThreadEntries' = IF reap THEN ThreadEntries \ {old} ELSE ThreadEntries
    BY <1>1, <1>4 DEF ThreadEntries
<1>6. CASE ~reap
    BY <1>1, <1>5, <1>6
<1>7. CASE reap
  <2>1. delete_thread(st, old) /\ st[old] # "none" /\ old \in Tids
    BY <1>1, <1>3, <1>7
  <2>2. lid' = [lid EXCEPT ![old] = NONE] /\ tproc' = [tproc EXCEPT ![old] = NONE]
    BY <2>1 DEF delete_thread
  <2>3. \A t \in ThreadEntries' : lid'[t] = lid[t] /\ tproc'[t] = tproc[t]
    BY <1>2, <1>5, <1>7, <2>2 DEF ThreadEntries
  <2>4. \A p \in Pids : threads'[p] = IF p = tproc[old] THEN remove(threads[p], lid[old])
                                      ELSE threads[p]
    BY <1>2, <2>1 DEF delete_thread, get_process, get_lid
  <2> QED BY <1>1, <1>3, <1>5, <1>7, <2>3, <2>4
<1> QED BY <1>6, <1>7

\* The list of a process keeps every thread that stays: no two threads of a
\* process have the same key.
LEMMA PreemptListInv ==
    ASSUME IInv, ListInv, NEW st, Preempt(st),
           \A t \in Tids : t # ctask.thread => st[t] = state[t],
           ctask.thread # NONE => st[ctask.thread] \in {"ACTIVE", "DEAD"}
    PROVE  ListInv'
<1> USE Ids
<1> DEFINE old == ctask.thread
<1>1. UNCHANGED <<proc_counter, thread_counter, lid_counter, leftover, pc, spawn>>
    BY PreemptTables
<1>2. CASE ThreadEntries' = ThreadEntries /\ UNCHANGED <<lid, tproc, threads>>
    BY <1>1, <1>2
       DEF ListInv, LidInv, NidInv, RoomInv, Pending, ProcListsThreads, Listed, Unnamed
<1>3. CASE /\ old \in ThreadEntries \ Unscheduled
           /\ ThreadEntries' = ThreadEntries \ {old}
           /\ \A t \in ThreadEntries' : lid'[t] = lid[t] /\ tproc'[t] = tproc[t]
           /\ \A p \in Pids : threads'[p] = IF p = tproc[old] THEN remove(threads[p], lid[old])
                                            ELSE threads[p]
  <2>1. Unnamed' = Unnamed /\ old \notin Unnamed /\ Unnamed \subseteq Unscheduled
    BY <1>1, <1>3 DEF Unnamed, Unscheduled
  <2>2. LidInv'
    BY <1>1, <1>3, <2>1 DEF ListInv, LidInv
  <2>3. NidInv'
    <3>1. pc[INIT] \in {"lid", "list"} => spawn.child \in ThreadEntries'
      <4>1. pc[INIT] \in {"lid", "list"} =>
                spawn.child \in ThreadEntries /\ spawn.child # old
        BY <1>3 DEF IInv, TypeOK, SpawnInv, ThreadEntries, Unscheduled
      <4> QED BY <1>3, <4>1
    <3> QED BY <1>1, <1>3, <3>1 DEF ListInv, NidInv
  <2>4. /\ lid[old] \in Nat
        /\ \A t \in ThreadEntries \ Unnamed : tproc[t] = tproc[old] /\ lid[t] = lid[old] => t = old
    BY <1>3, <2>1 DEF ListInv, LidInv
  <2>5. ASSUME NEW p \in Pids
        PROVE  /\ Taken(threads[p]) \in Nat
               /\ Taken(threads'[p]) \in Nat /\ Taken(threads'[p]) <= Taken(threads[p])
               /\ UniqueKeys(threads[p]) => UniqueKeys(threads'[p])
    <3>1. threads[p] \in ThreadTable
        BY DEF IInv, TypeOK
    <3>2. Taken(threads[p]) \in Nat /\ Taken(threads'[p]) \in Nat
        BY TakenCount
    <3>3. CASE p = tproc[old]
        BY <1>3, <2>4, <3>1, <3>2, <3>3, RemovedList
    <3>4. CASE p # tproc[old]
        BY <1>3, <3>2, <3>4
    <3> QED BY <3>3, <3>4
  <2>6. RoomInv'
    <3> SUFFICES ASSUME NEW p \in Pids
                 PROVE  /\ Taken(threads'[p]) + Pending(p) <= leftover[p] + lid_counter[p]
                        /\ lid_counter[p] <= thread_counter
                        /\ leftover[p] = 0 => UniqueKeys(threads'[p])
        BY <1>1 DEF RoomInv, Pending
    <3>1. Pending(p) \in Nat /\ leftover[p] \in Nat /\ lid_counter[p] \in Nat
        BY DEF Pending, IInv, TypeOK
    <3> QED BY <2>5, <3>1 DEF ListInv, RoomInv
  <2>7. /\ Listed' = Listed \ {old} /\ old \in Listed
        /\ \A t \in Listed' : lid'[t] = lid[t] /\ tproc'[t] = tproc[t]
        /\ \A t \in Listed : t \in ThreadEntries \ Unnamed
    BY <1>1, <1>3 DEF Listed, Unscheduled, Unnamed
  <2>8. ASSUME NEW p \in Pids
        PROVE  /\ Room(p)' => Live(p)' \subseteq Listing(threads'[p])
               /\ leftover'[p] = 0 => Listing(threads'[p]) = Live(p)'
    <3>0. Room(p)' = Room(p) /\ leftover'[p] = leftover[p]
        BY <1>1 DEF Room
    <3>1. /\ Room(p) => Live(p) \subseteq Listing(threads[p])
          /\ leftover[p] = 0 => Listing(threads[p]) = Live(p)
        BY ListsOf DEF ListInv
    <3>2. CASE p # tproc[old]
      <4>1. Live(p)' = Live(p)
        BY <2>7, <3>2 DEF Live
      <4> QED BY <1>3, <3>0, <3>1, <3>2, <4>1
    <3>3. CASE p = tproc[old]
      <4>1. Live(p)' = {x \in Live(p) : x[1] # lid[old]}
        <5>1. \A t \in Listed : tproc[t] = p => (t # old <=> lid[t] # lid[old])
            BY <2>4, <2>7, <3>3
        <5>2. \A x : x \in Live(p)' <=> \E t \in Listed : t # old /\ tproc[t] = p /\ x = <<lid[t], t>>
            BY <2>7 DEF Live
        <5>3. \A x : x \in Live(p) <=> \E t \in Listed : tproc[t] = p /\ x = <<lid[t], t>>
            BY DEF Live
        <5> QED BY <5>1, <5>2, <5>3
      <4>2. threads[p] \in ThreadTable /\ threads'[p] = remove(threads[p], lid[old])
        BY <1>3, <3>3 DEF IInv, TypeOK
      <4>3. /\ Listing(threads'[p]) \subseteq Listing(threads[p])
            /\ \A x \in Listing(threads[p]) : x \in Listing(threads'[p]) \/ x[1] = lid[old]
            /\ UniqueKeys(threads[p]) => \A x \in Listing(threads'[p]) : x[1] # lid[old]
        BY <2>4, <4>2, RemovedList
      <4>4. leftover[p] = 0 => UniqueKeys(threads[p])
        BY DEF ListInv, RoomInv
      <4> QED BY <3>0, <3>1, <4>1, <4>3, <4>4
    <3> QED BY <3>2, <3>3
  <2>9. ProcListsThreads'
    <3>1. \A t \in Listed' : tproc'[t] \in Pids
        BY <2>7, ListsOf DEF ListInv
    <3> QED BY <2>8, <3>1, ListsOf
  <2> QED BY <2>2, <2>3, <2>6, <2>9 DEF ListInv
<1> QED BY <1>2, <1>3, PreemptTables

\* A step of spawn_thread before the new thread is listed, and every other
\* step of a thread, keeps the lists.
LEMMA NextListInv == IInv /\ ListInv /\ [Next]_vars => ListInv'
<1> SUFFICES ASSUME IInv, ListInv, [Next]_vars PROVE ListInv'
    OBVIOUS
<1> USE Ids, SchedAssumption
<1>0. /\ lid \in [Tids -> Nat \cup {NONE}] /\ tproc \in [Tids -> Pids \cup {NONE}]
      /\ threads \in [Pids -> ThreadTable] /\ leftover \in [Pids -> Nat]
      /\ lid_counter \in [Pids -> Nat] /\ thread_counter \in 2 .. MaxThreads
      /\ proc_counter \in Pids /\ state \in [Tids -> {"none", "NEW", "ACTIVE", "DEAD"}]
      /\ spawn \in [proc : Pids, nid : Nat, child : Tids]
      /\ pc \in [Tids -> {"body", "add", "lid", "list", "push", "kill", "spin"}]
    BY DEF IInv, TypeOK
<1>a. \A p \in Pids : /\ Taken(threads[p]) \in Nat /\ leftover[p] \in Nat /\ lid_counter[p] \in Nat
                      /\ Pending(p) \in {0, 1}
    BY <1>0, TakenCount DEF Pending
<1>b. \A t \in Listed : t \in ThreadEntries /\ t \in Tids /\ tproc[t] \in Pids
    BY ListsOf DEF ListInv, Listed, ThreadEntries
<1>1. CASE timer
  <2>1. ctask.thread # NONE => state[ctask.thread] \in {"ACTIVE", "DEAD"}
    BY DEF IInv, CurrentIdentity
  <2> QED BY <1>1, <2>1, PreemptListInv DEF timer
<1>2. CASE \E t \in Tids : fault(t)
  <2>1. PICK t \in Tids : fault(t)
    BY <1>2
  <2>2. cthread = t /\ ctask.thread = t /\ state[t] # "none"
    BY <2>1 DEF fault, Running, IInv, CurrentIdentity
  <2>3. /\ \A u \in Tids : u # t => Killed(cthread)[u] = state[u]
        /\ Killed(cthread)[t] = "DEAD"
    BY <2>2 DEF Killed
  <2>4. Preempt(Killed(cthread))
    BY <2>1 DEF fault
  <2> QED BY <2>2, <2>3, <2>4, PreemptListInv
<1>3. CASE create
  <2> DEFINE n == proc_counter'
  <2>1. PICK g \in Leftover :
            /\ threads' = [threads EXCEPT ![n] = g]
            /\ leftover' = [leftover EXCEPT ![n] = Taken(g)]
    BY <1>3 DEF create
  <2>2. /\ UNCHANGED <<state, lid, tproc, thread_counter, pc, spawn>>
        /\ proc_counter' = proc_counter + 1 /\ pc[INIT] = "body"
        /\ lid_counter' = [lid_counter EXCEPT ![n] = 0]
    BY <1>3 DEF create, locals
  <2>3. /\ n \in Pids /\ ThreadEntries' = ThreadEntries /\ Unnamed' = Unnamed
        /\ Listed' = Listed
    BY <1>0, <1>3, <2>2 DEF create, Pids, ThreadEntries, Unnamed, Listed
  <2>4. \A p \in 1 .. proc_counter : p \in Pids /\ p \in 1 .. n /\ p # n
    BY <1>0, <2>2, <2>3 DEF Pids
  <2>5. \A p \in Pids : p # n => /\ lid_counter'[p] = lid_counter[p]
                                 /\ threads'[p] = threads[p] /\ leftover'[p] = leftover[p]
    BY <1>0, <2>1, <2>2
  <2>6. lid_counter'[n] = 0 /\ threads'[n] = g /\ leftover'[n] = Taken(g) /\ Taken(g) \in Nat
    BY <1>0, <2>1, <2>2, <2>3, TakenCount
  <2>7. Taken(g) = 0 => InUse(g) = {}
    BY TakenCount, FS_EmptySet
  <2> HIDE DEF n
  <2>8. LidInv' /\ NidInv'
    BY <2>2, <2>3, <2>4, <2>5 DEF ListInv, LidInv, NidInv, n
  <2>9. RoomInv'
    <3> SUFFICES ASSUME NEW p \in Pids
                 PROVE  /\ Taken(threads'[p]) + Pending(p)' <= leftover'[p] + lid_counter'[p]
                        /\ lid_counter'[p] <= thread_counter'
                        /\ leftover'[p] = 0 => UniqueKeys(threads'[p])
        BY DEF RoomInv
    <3>1. Pending(p)' = 0 /\ Pending(p) = 0
        BY <2>2 DEF Pending
    <3>2. CASE p = n
        BY <1>0, <2>2, <2>6, <2>7, <3>1, <3>2 DEF UniqueKeys
    <3>3. CASE p # n
        BY <2>2, <2>5, <3>1, <3>3 DEF ListInv, RoomInv
    <3> QED BY <3>2, <3>3
  <2>10. ASSUME NEW p \in Pids
         PROVE  /\ Room(p)' => Live(p)' \subseteq Listing(threads'[p])
                /\ leftover'[p] = 0 => Listing(threads'[p]) = Live(p)'
    <3>1. Live(p)' = Live(p)
        BY <2>2, <2>3 DEF Live
    <3>2. CASE p = n
      <4>1. \A t \in Listed : tproc[t] # n
        BY <1>b, <2>4 DEF ListInv, LidInv
      <4>2. Live(n) = {}
        BY <4>1 DEF Live
      <4>3. Taken(g) = 0 => Listing(g) = {}
        BY <2>7 DEF Listing, InUse
      <4> QED BY <2>6, <3>1, <3>2, <4>2, <4>3
    <3>3. CASE p # n
      <4>1. Room(p)' = Room(p)
        BY <2>5, <3>3 DEF Room
      <4> QED BY <2>5, <3>1, <3>3, <4>1, ListsOf DEF ListInv
    <3> QED BY <3>2, <3>3
  <2>11. ProcListsThreads'
    BY <1>b, <2>2, <2>3, <2>10, ListsOf
  <2> QED BY <2>8, <2>9, <2>11 DEF ListInv
<1>4. CASE \E p \in Pids : spawn_enter(p)
  <2>1. PICK p \in Pids : spawn_enter(p)
    BY <1>4
  <2>2. /\ UNCHANGED <<state, lid, tproc, proc_counter, threads, leftover>> /\ p <= proc_counter
        /\ pc[INIT] = "body" /\ pc'[INIT] = "add" /\ thread_counter' = thread_counter + 1
        /\ spawn'.proc = p /\ spawn'.nid = lid_counter[p]
        /\ lid_counter' = [lid_counter EXCEPT ![p] = @ + 1]
    BY <1>0, <2>1 DEF spawn_enter, Goto
  <2>3. /\ lid_counter'[p] = lid_counter[p] + 1
        /\ \A r \in Pids : /\ lid_counter[r] \in Nat /\ lid_counter'[r] \in Nat
                           /\ lid_counter[r] <= lid_counter'[r]
                           /\ r # p => lid_counter'[r] = lid_counter[r]
    BY <1>0, <2>2
  <2>3a. lid_counter' \in [Pids -> Nat]
    BY <1>0, <2>2
  <2>4. /\ ThreadEntries' = ThreadEntries /\ Unnamed' = {} /\ Unnamed = {} /\ Listed' = Listed
        /\ p \in 1 .. proc_counter
    BY <1>0, <2>2 DEF ThreadEntries, Unnamed, Listed, Pids
  <2>5. \A t \in ThreadEntries : t \in Tids /\ tproc[t] \in Pids
    BY <1>0 DEF ThreadEntries, ListInv, LidInv, Pids
  <2>6. \A t \in ThreadEntries : lid[t] \in Nat /\ lid[t] < lid_counter[tproc[t]]
    BY <2>4 DEF ListInv, LidInv
  <2>7. LidInv'
    <3>1. \A t \in ThreadEntries : lid[t] < lid_counter'[tproc[t]]
        BY <2>3, <2>5, <2>6
    <3> QED BY <2>2, <2>4, <2>6, <3>1 DEF ListInv, LidInv
  <2>8. NidInv'
    <3>1. \A t \in ThreadEntries : tproc[t] = p => lid[t] # lid_counter[p]
        BY <2>3, <2>6
    <3> QED BY <2>2, <2>3, <2>4, <3>1 DEF NidInv
  <2>9. ProcListsThreads'
    BY <2>2, <2>3, <2>3a, <2>4, SameLists
  <2>10. RoomInv'
    <3> SUFFICES ASSUME NEW r \in Pids
                 PROVE  /\ Taken(threads[r]) + Pending(r)' <= leftover[r] + lid_counter'[r]
                        /\ lid_counter'[r] <= thread_counter + 1
                        /\ leftover[r] = 0 => UniqueKeys(threads[r])
        BY <2>2 DEF RoomInv
    <3>1. Pending(r) = 0 /\ Pending(r)' = IF r = p THEN 1 ELSE 0
        BY <2>2 DEF Pending
    <3>2. /\ Taken(threads[r]) + 0 <= leftover[r] + lid_counter[r]
          /\ lid_counter[r] <= thread_counter
          /\ leftover[r] = 0 => UniqueKeys(threads[r])
        BY <3>1 DEF ListInv, RoomInv
    <3>3. CASE r = p
        BY <1>0, <1>a, <2>3, <3>1, <3>2, <3>3
    <3>4. CASE r # p
        BY <1>0, <1>a, <2>3, <3>1, <3>2, <3>4
    <3> QED BY <3>3, <3>4
  <2> QED BY <2>7, <2>8, <2>9, <2>10 DEF ListInv
<1>5. CASE spawn_add
  <2> DEFINE c == spawn.child
  <2>1. /\ UNCHANGED <<proc_counter, thread_counter, lid_counter, threads, leftover, spawn>>
        /\ pc[INIT] = "add" /\ pc'[INIT] = "lid" /\ c \in Tids
        /\ state' = [state EXCEPT ![c] = "NEW"]
        /\ tproc' = [tproc EXCEPT ![c] = spawn.proc]
        /\ lid' = [lid EXCEPT ![c] = NONE]
    BY <1>0, <1>5 DEF spawn_add, Goto
  <2>2. state[c] = "none" /\ c \notin ThreadEntries /\ ThreadEntries' = ThreadEntries \cup {c}
    BY <1>0, <2>1 DEF IInv, SpawnInv, ThreadEntries
  <2>3. /\ \A t \in ThreadEntries : t # c /\ tproc'[t] = tproc[t] /\ lid'[t] = lid[t]
        /\ tproc'[c] = spawn.proc
    BY <1>0, <2>1, <2>2 DEF ThreadEntries
  <2>4. /\ ThreadEntries' \ Unnamed' = ThreadEntries /\ Unnamed = {}
        /\ Listed' = Listed
    BY <2>1, <2>2 DEF Unnamed, Listed
  <2>6. LidInv'
    BY <2>1, <2>2, <2>3, <2>4 DEF ListInv, LidInv, NidInv
  <2>7. NidInv'
    BY <2>1, <2>2, <2>3 DEF ListInv, NidInv
  <2>8. ProcListsThreads'
    BY <1>0, <1>a, <1>b, <2>1, <2>3, <2>4, SameLists
  <2>9. RoomInv'
    BY <2>1 DEF ListInv, RoomInv, Pending
  <2> QED BY <2>6, <2>7, <2>8, <2>9 DEF ListInv
<1>6. CASE spawn_lid
  <2> DEFINE c == spawn.child
  <2>1. /\ UNCHANGED <<state, tproc, proc_counter, thread_counter, lid_counter, threads, leftover,
                       spawn>>
        /\ pc[INIT] = "lid" /\ pc'[INIT] = "list" /\ c \in Tids /\ state[c] = "NEW"
        /\ lid' = [lid EXCEPT ![c] = spawn.nid]
    BY <1>0, <1>6 DEF spawn_lid, Goto, IInv, SpawnInv
  <2>2. /\ lid'[c] = spawn.nid /\ spawn.nid \in Nat
        /\ \A t \in ThreadEntries : t # c => lid'[t] = lid[t]
    BY <1>0, <2>1 DEF ThreadEntries
  <2>3. /\ ThreadEntries' = ThreadEntries /\ c \in ThreadEntries /\ Unnamed = {c} /\ Unnamed' = {}
        /\ Listed' = Listed /\ Listed = ThreadEntries \ {c}
    BY <2>1 DEF ThreadEntries, Unnamed, Listed
  <2>4. /\ spawn.nid < lid_counter[spawn.proc] /\ tproc[c] = spawn.proc
        /\ \A t \in ThreadEntries \ {c} : tproc[t] = spawn.proc => lid[t] # spawn.nid
    BY <2>1 DEF ListInv, NidInv
  <2>5. LidInv'
    BY <2>1, <2>2, <2>3, <2>4 DEF ListInv, LidInv
  <2>6. NidInv'
    BY <2>1, <2>2, <2>3, <2>4 DEF ListInv, NidInv
  <2>7. ProcListsThreads'
    BY <1>0, <1>a, <2>1, <2>2, <2>3, SameLists
  <2>8. RoomInv'
    BY <2>1 DEF ListInv, RoomInv, Pending
  <2> QED BY <2>5, <2>6, <2>7, <2>8 DEF ListInv
<1>7. CASE spawn_list
  <2> DEFINE c == spawn.child
             p == spawn.proc
             n == spawn.nid
  <2>1. /\ UNCHANGED <<state, lid, tproc, proc_counter, thread_counter, lid_counter, leftover,
                       spawn>>
        /\ pc[INIT] = "list" /\ pc'[INIT] = "push"
        /\ threads' = [threads EXCEPT ![p] = add(@, n, c)]
    BY <1>0, <1>7 DEF spawn_list, Goto, tables
  <2>2. /\ ThreadEntries' = ThreadEntries /\ Unnamed = {} /\ Unnamed' = {}
        /\ Listed' = ThreadEntries /\ Listed = ThreadEntries \ {c}
    BY <2>1 DEF ThreadEntries, Unnamed, Listed
  <2>3. /\ p \in Pids /\ tproc[c] = p /\ lid[c] = n /\ n \in Nat /\ c \in Tids
        /\ \A t \in ThreadEntries \ {c} : tproc[t] = p => lid[t] # n
    BY <1>0, <2>1 DEF ListInv, NidInv
  <2>3a. p' = p /\ c' = c /\ n' = n
    BY <2>1
  <2>4. c \in ThreadEntries /\ c \in Nat
    <3>1. c \in Nat
        BY <2>3, Zenon
    <3> QED BY <2>1, <2>3, <3>1 DEF IInv, SpawnInv, ThreadEntries
  <2>5. /\ threads'[p] = add(threads[p], n, c) /\ threads[p] \in ThreadTable
        /\ \A r \in Pids : r # p => threads'[r] = threads[r]
    BY <1>0, <2>1, <2>3
  <2>6. Taken(threads[p]) + 1 <= leftover[p] + lid_counter[p]
    <3>1. Pending(p) = 1
        BY <2>1 DEF Pending
    <3> QED BY <2>3, <3>1 DEF ListInv, RoomInv
  <2>7. leftover[p] = 0 => Room(p)
    BY <1>0, <1>a, <2>3, CapacityAssumption DEF ListInv, RoomInv, Room
  <2>8. Room(p) => Taken(threads[p]) < HASHTABLE_CAPACITY
    BY <1>a, <2>3, <2>6, CapacityAssumption DEF Room
  <2> HIDE DEF c, p, n
  <2>9. /\ Taken(threads'[p]) <= Taken(threads[p]) + 1 /\ Taken(threads'[p]) \in Nat
        /\ Room(p) => Listing(threads'[p]) = Listing(threads[p]) \cup {<<n, c>>}
        /\ UniqueKeys(threads[p]) /\ (\A x \in Listing(threads[p]) : x[1] # n) =>
               UniqueKeys(threads'[p])
    <3>1. Taken(threads'[p]) \in Nat
        BY TakenCount
    <3>2. /\ Taken(threads'[p]) <= Taken(threads[p]) + 1
          /\ Taken(threads[p]) < HASHTABLE_CAPACITY =>
                 Listing(threads'[p]) = Listing(threads[p]) \cup {<<n, c>>}
          /\ UniqueKeys(threads[p]) /\ (\A x \in Listing(threads[p]) : x[1] # n) =>
                 UniqueKeys(threads'[p])
      <4>1. /\ n \in Nat /\ c \in Nat /\ threads[p] \in ThreadTable
            /\ threads'[p] = add(threads[p], n, c)
        BY <2>3, <2>4, <2>5
      <4> DEFINE u == add(threads[p], n, c)
      <4>2. /\ Taken(u) <= Taken(threads[p]) + 1
            /\ Taken(threads[p]) < HASHTABLE_CAPACITY =>
                   Listing(u) = Listing(threads[p]) \cup {<<n, c>>}
            /\ UniqueKeys(threads[p]) /\ (\A x \in Listing(threads[p]) : x[1] # n) =>
                   UniqueKeys(u)
        BY <4>1, AddedList, Zenon
      <4>3. threads'[p] = u
        BY <4>1
      <4> HIDE DEF u
      <4> QED BY <4>2, <4>3
    <3> QED BY <2>8, <3>1, <3>2
  <2>10. LidInv' /\ NidInv'
    BY <2>1, <2>2 DEF ListInv, LidInv, NidInv
  <2>11. /\ Room(p) => Live(p) \subseteq Listing(threads[p])
         /\ leftover[p] = 0 => Listing(threads[p]) = Live(p)
    BY <2>3, ListsOf DEF ListInv
  <2>12. RoomInv'
    <3> SUFFICES ASSUME NEW r \in Pids
                 PROVE  /\ Taken(threads'[r]) + Pending(r)' <= leftover[r] + lid_counter[r]
                        /\ lid_counter[r] <= thread_counter
                        /\ leftover[r] = 0 => UniqueKeys(threads'[r])
        BY <2>1 DEF RoomInv
    <3>1. Pending(r)' = 0
        BY <2>1 DEF Pending
    <3>2. /\ Taken(threads[r]) + Pending(r) <= leftover[r] + lid_counter[r]
          /\ lid_counter[r] <= thread_counter
          /\ leftover[r] = 0 => UniqueKeys(threads[r])
        BY DEF ListInv, RoomInv
    <3>3. CASE r # p
      <4>1. Taken(threads[r]) <= leftover[r] + lid_counter[r]
        BY <1>a, <3>2
      <4> QED BY <1>a, <2>5, <3>1, <3>2, <3>3, <4>1
    <3>4. CASE r = p
      <4>1. Taken(threads'[p]) + 0 <= leftover[p] + lid_counter[p]
        BY <1>a, <2>3, <2>6, <2>9
      <4>2. leftover[p] = 0 => \A x \in Listing(threads[p]) : x[1] # n
        <5>1. \A x \in Live(p) : x[1] # n
            BY <2>2, <2>3 DEF Live
        <5> QED BY <2>11, <5>1
      <4> QED BY <2>9, <3>1, <3>2, <3>4, <4>1, <4>2
    <3> QED BY <3>3, <3>4
  <2>13. ASSUME NEW r \in Pids
         PROVE  /\ Room(r)' => Live(r)' \subseteq Listing(threads'[r])
                /\ leftover'[r] = 0 => Listing(threads'[r]) = Live(r)'
    <3>1. Room(r)' = Room(r) /\ leftover'[r] = leftover[r]
        BY <2>1 DEF Room
    <3>2. CASE r # p
      <4>1. Live(r)' = Live(r)
        BY <2>1, <2>2, <2>3, <3>2 DEF Live
      <4> QED BY <2>5, <3>1, <3>2, <4>1, ListsOf DEF ListInv
    <3>3. CASE r = p
      <4>1. Live(p)' = Live(p) \cup {<<n, c>>}
        <5>1. \A x : x \in Live(p)' <=>
                  \E t \in ThreadEntries : tproc[t] = p /\ x = <<lid[t], t>>
            BY <2>1, <2>2, <2>3a DEF Live
        <5>2. \A x : x \in Live(p) <=>
                  \E t \in ThreadEntries \ {c} : tproc[t] = p /\ x = <<lid[t], t>>
            BY <2>2 DEF Live
        <5> QED BY <2>3, <2>4, <5>1, <5>2
      <4>2. Live(r)' = Live(p)' /\ Room(r) = Room(p)
        BY <2>3a, <3>3 DEF Live
      <4> QED BY <2>7, <2>9, <2>11, <3>1, <3>3, <4>1, <4>2
    <3> QED BY <3>2, <3>3
  <2>14. \A t \in Listed' : tproc'[t] \in Pids
    BY <1>b, <2>1, <2>2, <2>3
  <2>15. ProcListsThreads'
    BY <2>13, <2>14, ListsOf
  <2> QED BY <2>10, <2>12, <2>15 DEF ListInv
<1>8. CASE spawn_push
  <2>1. /\ UNCHANGED <<state, tables, threads, spawn>>
        /\ pc[INIT] = "push" /\ pc'[INIT] = "body"
    BY <1>0, <1>8 DEF spawn_push, Goto
  <2> QED BY <2>1, QuietStep DEF ThreadEntries
<1>9. CASE \E t \in Tids : panic(t)
  <2>1. UNCHANGED <<state, tables, threads, spawn, pc>>
    BY <1>9 DEF panic, locals
  <2> QED BY <2>1, QuietStep DEF ThreadEntries
<1>10. CASE \E t \in Tids : finish_self(t)
  <2>1. PICK t \in Tids : finish_self(t)
    BY <1>10
  <2>2. /\ UNCHANGED <<state, tables, threads, spawn>>
        /\ pc[t] = "body" /\ pc' = [pc EXCEPT ![t] = "kill"]
    BY <2>1 DEF finish_self, EntryReturns, Goto
  <2>3. \A s \in {"add", "lid", "list"} : pc'[INIT] = s <=> pc[INIT] = s
    BY <1>0, <2>2
  <2> QED BY <2>2, <2>3, QuietStep DEF ThreadEntries
<1>11. CASE \E t \in Tids : finish_kill(t)
  <2>1. PICK t \in Tids : finish_kill(t)
    BY <1>11
  <2>2. /\ UNCHANGED <<tables, threads, spawn>>
        /\ pc[t] = "kill" /\ pc' = [pc EXCEPT ![t] = "spin"] /\ state' = Killed(me[t])
    BY <2>1 DEF finish_kill, Goto
  <2>3. \A s \in {"add", "lid", "list"} : pc'[INIT] = s <=> pc[INIT] = s
    BY <1>0, <2>2
  <2>4. ThreadEntries' = ThreadEntries
    BY <1>0, <2>2 DEF Killed, ThreadEntries
  <2> QED BY <2>2, <2>3, <2>4, QuietStep
<1>12. CASE UNCHANGED vars
  <2>1. UNCHANGED <<state, tables, threads, spawn, pc>>
    BY <1>12 DEF vars, locals
  <2> QED BY <2>1, QuietStep DEF ThreadEntries
<1> QED BY <1>1, <1>2, <1>3, <1>4, <1>5, <1>6, <1>7, <1>8, <1>9, <1>10, <1>11, <1>12 DEF Next

\* The two threads that main() spawned are in the list of the kernel process,
\* if there was room.
LEMMA InitListInv == Init => ListInv
<1> SUFFICES ASSUME Init PROVE ListInv
    OBVIOUS
<1> USE Ids, SchedAssumption
<1>1. /\ \A t \in Tids : state[t] # "none" <=> t \in {TTY, INIT}
      /\ \A t \in {TTY, INIT} : lid[t] = t /\ tproc[t] = KPROC
      /\ proc_counter = 1 /\ thread_counter = 2 /\ pc[INIT] = "body"
      /\ lid_counter = [p \in Pids |-> IF p = KPROC THEN 2 ELSE 0]
    BY DEF Init, TTY, INIT
<1>2. KPROC \in 1 .. 1 /\ TTY = 0 /\ INIT = 1
    BY DEF KPROC, TTY, INIT
<1>3. ThreadEntries = {TTY, INIT} /\ Unnamed = {} /\ Listed = {TTY, INIT}
  <2>1. ThreadEntries = {TTY, INIT}
    BY <1>1 DEF ThreadEntries
  <2>2. Unnamed = {} /\ Listed = ThreadEntries
    BY <1>1 DEF Unnamed, Listed
  <2> QED BY <2>1, <2>2
<1>4. LidInv
    BY <1>1, <1>2, <1>3 DEF LidInv
<1>5. NidInv
    BY <1>1 DEF NidInv
<1>6. PICK g \in Leftover :
          /\ leftover = [p \in Pids |-> IF p = KPROC THEN Taken(g) ELSE 0]
          /\ threads = [p \in Pids |-> IF p = KPROC THEN add(add(g, 0, TTY), 1, INIT)
                                       ELSE EmptyTable(0)]
    BY DEF Init
<1> DEFINE a == add(g, 0, TTY)
           b == add(a, 1, INIT)
<1>7. g \in ThreadTable /\ 0 \in Nat /\ 1 \in Nat /\ TTY \in Nat /\ INIT \in Nat
    BY <1>2
<1>8. /\ a \in ThreadTable /\ Taken(a) <= Taken(g) + 1
      /\ Taken(g) < HASHTABLE_CAPACITY => Listing(a) = Listing(g) \cup {<<0, 0>>}
      /\ UniqueKeys(g) /\ (\A x \in Listing(g) : x[1] # 0) => UniqueKeys(a)
    BY <1>2, <1>7, AddedList
<1>9. /\ Taken(b) <= Taken(a) + 1
      /\ Taken(a) < HASHTABLE_CAPACITY => Listing(b) = Listing(a) \cup {<<1, 1>>}
      /\ UniqueKeys(a) /\ (\A x \in Listing(a) : x[1] # 1) => UniqueKeys(b)
    BY <1>2, <1>7, <1>8, AddedList
<1>10. Taken(g) \in Nat /\ Taken(a) \in Nat /\ Taken(b) \in Nat
    BY TakenCount
<1>11. \A t : Taken(t) = 0 => InUse(t) = {}
  <2> SUFFICES ASSUME NEW t, Taken(t) = 0 PROVE InUse(t) = {}
    OBVIOUS
  <2> QED BY TakenCount, FS_EmptySet
<1>12. \A t : InUse(t) = {} => Listing(t) = {} /\ UniqueKeys(t)
    BY DEF Listing, InUse, UniqueKeys
<1>13. InUse(EmptyTable(0)) = {} /\ Taken(EmptyTable(0)) = 0
  <2>1. InUse(EmptyTable(0)) = {}
    BY DEF EmptyTable, InUse, Unused
  <2> QED BY <2>1, TakenCount, FS_EmptySet
<1> HIDE DEF a, b
<1>14. HASHTABLE_CAPACITY \in Nat /\ HASHTABLE_CAPACITY >= 2
    BY CapacityAssumption
<1>15. Taken(g) = 0 => UniqueKeys(b) /\ Listing(b) = {<<0, 0>>, <<1, 1>>}
  <2> SUFFICES ASSUME Taken(g) = 0 PROVE UniqueKeys(b) /\ Listing(b) = {<<0, 0>>, <<1, 1>>}
    OBVIOUS
  <2>1. Listing(g) = {} /\ UniqueKeys(g)
    BY <1>11, <1>12
  <2>2. Listing(a) = {<<0, 0>>} /\ UniqueKeys(a) /\ Taken(a) < HASHTABLE_CAPACITY
    BY <1>8, <1>10, <1>14, <2>1
  <2> QED BY <1>9, <2>2
<1>16. /\ leftover[KPROC] = Taken(g) /\ threads[KPROC] = b /\ lid_counter[KPROC] = 2
       /\ \A p \in Pids : p # KPROC => /\ leftover[p] = 0 /\ lid_counter[p] = 0
                                       /\ threads[p] = EmptyTable(0)
    BY <1>1, <1>6 DEF a, b
<1>17. \A p \in Pids : Pending(p) = 0
    BY <1>1 DEF Pending
<1>18. RoomInv
  <2> SUFFICES ASSUME NEW p \in Pids
               PROVE  /\ Taken(threads[p]) + 0 <= leftover[p] + lid_counter[p]
                      /\ lid_counter[p] <= 2
                      /\ leftover[p] = 0 => UniqueKeys(threads[p])
    BY <1>1, <1>17 DEF RoomInv
  <2>1. CASE p = KPROC
    BY <1>8, <1>9, <1>10, <1>15, <1>16, <2>1
  <2>2. CASE p # KPROC
    BY <1>12, <1>13, <1>16, <2>2
  <2> QED BY <2>1, <2>2
<1>19. Live(KPROC) = {<<0, 0>>, <<1, 1>>} /\ \A p \in Pids : p # KPROC => Live(p) = {}
    BY <1>1, <1>2, <1>3 DEF Live
<1>20. Room(KPROC) => Live(KPROC) \subseteq Listing(b)
  <2> SUFFICES ASSUME Room(KPROC) PROVE {<<0, 0>>, <<1, 1>>} \subseteq Listing(b)
    BY <1>19
  <2>1. Taken(g) + 2 <= HASHTABLE_CAPACITY
    BY <1>16 DEF Room
  <2>2. Taken(g) < HASHTABLE_CAPACITY /\ Taken(a) < HASHTABLE_CAPACITY
    BY <1>8, <1>10, <1>14, <2>1
  <2> QED BY <1>8, <1>9, <2>2
<1>21. ProcListsThreads
  <2>1. \A t \in Listed : tproc[t] \in Pids
    BY <1>1, <1>3
  <2>2. ASSUME NEW p \in Pids
        PROVE  /\ Room(p) => Live(p) \subseteq Listing(threads[p])
               /\ leftover[p] = 0 => Listing(threads[p]) = Live(p)
    <3>1. CASE p = KPROC
        BY <1>15, <1>16, <1>19, <1>20, <3>1
    <3>2. CASE p # KPROC
        BY <1>12, <1>13, <1>16, <1>19, <3>2
    <3> QED BY <3>1, <3>2
  <2> QED BY <2>1, <2>2, ListsOf
<1> QED BY <1>4, <1>5, <1>18, <1>21 DEF ListInv

\* However spawn_thread is interrupted, and whatever memory the hash table of
\* a process came to lie in: while the slots that were found in use and the
\* ids given out fit in, every thread of the process is in the table under
\* the id that the thread has; if none was found in use the table holds
\* exactly these.  Without room add() fails, and nothing is promised.
THEOREM SchedProcListsThreads == Spec => []ProcListsThreads
<1>1. ListInv => ProcListsThreads
    BY DEF ListInv
<1> QED BY <1>1, InitListInv, SpecIInv, NextListInv, PTL DEF Spec

-----------------------------------------------------------------------------
(* The loop of scheduler_increment.                                        *)

\* There is one task that the loop takes.
LEMMA PickOne ==
    ASSUME NEW q \in RunQueues
    PROVE  /\ \E i \in 1 .. Len(q) : IsPick(q, i)
           /\ \A i, j : IsPick(q, i) /\ IsPick(q, j) => i = j
<1>1. q \in Seq(TaskIn) /\ q # <<>>
    BY DEF RunQueues, TaskIn
<1>2. Len(q) \in Nat \ {0}
    BY <1>1, EmptySeq, LenProperties
<1>3. \A i \in 1 .. Len(q) : Level(q[i]) \in Nat
  <2> SUFFICES ASSUME NEW i \in 1 .. Len(q) PROVE Level(q[i]) \in Nat
      OBVIOUS
  <2>1. q[i] \in TaskIn
      BY <1>1, ElementOfSeq
  <2> QED BY <2>1 DEF Level, TaskIn
<1> DEFINE L == {Level(q[i]) : i \in 1 .. Len(q)}
<1>4. PICK l \in L : \A m \in L : l <= m
  <2>1. Level(q[1]) \in L
      BY <1>2
  <2>2. L \subseteq Nat /\ L # {}
      BY <1>3, <2>1
  <2> HIDE DEF L
  <2> QED BY <2>2, MinIn
<1> DEFINE I == {i \in 1 .. Len(q) : Level(q[i]) = l}
<1>5. PICK i \in I : \A j \in I : i <= j
  <2>1. I \subseteq Nat /\ I # {}
      BY <1>2, <1>4
  <2> HIDE DEF I
  <2> QED BY <2>1, MinIn
<1>6. IsPick(q, i)
  <2>1. \A j \in 1 .. Len(q) : Level(q[j]) >= l
      BY <1>3, <1>4
  <2>2. \A j \in 1 .. i - 1 : j \in 1 .. Len(q) /\ Level(q[j]) # l
      BY <1>2, <1>5
  <2> QED BY <1>2, <1>3, <2>1, <2>2 DEF IsPick
<1>7. ASSUME NEW a, NEW b, IsPick(q, a), IsPick(q, b) PROVE a = b
  <2>1. /\ a \in 1 .. Len(q) /\ b \in 1 .. Len(q)
        /\ \A j \in 1 .. a - 1 : Level(q[j]) > Level(q[a])
        /\ \A j \in a + 1 .. Len(q) : Level(q[j]) >= Level(q[a])
        /\ \A j \in 1 .. b - 1 : Level(q[j]) > Level(q[b])
        /\ \A j \in b + 1 .. Len(q) : Level(q[j]) >= Level(q[b])
      BY <1>7 DEF IsPick
  <2>2. ASSUME a < b PROVE FALSE
    <3>1. a \in 1 .. b - 1 /\ b \in a + 1 .. Len(q)
        BY <1>2, <2>1, <2>2
    <3> QED BY <1>3, <2>1, <3>1
  <2>3. ASSUME b < a PROVE FALSE
    <3>1. b \in 1 .. a - 1 /\ a \in b + 1 .. Len(q)
        BY <1>2, <2>1, <2>3
    <3> QED BY <1>3, <2>1, <3>1
  <2> QED BY <1>2, <2>1, <2>2, <2>3
<1> QED BY <1>6, <1>7

\* A task that is due is the one to take, and the queue is the rest.
LEMMA DueAtHead ==
    ASSUME NEW q \in RunQueues, Head(q).cpriority <= 0
    PROVE  IsPick(q, 1) /\ Picked(q, 1) = Head(q) /\ Rotated(q, 1) = Tail(q)
<1>1. q \in Seq(TaskIn) /\ q # <<>>
    BY DEF RunQueues, TaskIn
<1>2. Len(q) \in Nat \ {0}
    BY <1>1, EmptySeq, LenProperties
<1>3. \A i \in 1 .. Len(q) : q[i] \in TaskIn
    BY <1>1, ElementOfSeq
<1>4. \A x \in TaskIn : /\ x.cpriority \in Int /\ Level(x) \in Nat
                        /\ x = [thread |-> x.thread, cpriority |-> x.cpriority]
                        /\ [x EXCEPT !.cpriority = @ - 0] = x
    BY DEF TaskIn, Level
<1>5. Head(q) = q[1] /\ q[1] \in TaskIn
    BY <1>1, <1>2, <1>3, HeadTailProperties
<1>6. Level(q[1]) = 0
    BY <1>4, <1>5 DEF Level
<1>7. IsPick(q, 1)
    BY <1>2, <1>3, <1>4, <1>6 DEF IsPick
<1>8. Picked(q, 1) = Head(q)
  <2>1. q[1].cpriority - 0 = q[1].cpriority
      BY <1>4, <1>5
  <2> QED BY <1>4, <1>5, <1>6, <2>1 DEF Picked
<1>9. Rotated(q, 1) = Tail(q)
  <2>1. Rotated(q, 1) = [j \in 1 .. Len(q) - 1 |-> q[j + 1]]
    <3>1. ASSUME NEW j \in 1 .. Len(q) - 1
          PROVE  1 + j <= Len(q) /\ 1 + j = j + 1 /\ j + 1 \in 1 .. Len(q)
        BY <1>2
    <3> QED BY <1>3, <1>4, <1>6, <3>1 DEF Rotated
  <2>2. Tail(q) = [j \in 1 .. Len(q) - 1 |-> q[j + 1]]
    <3>1. /\ Tail(q) \in Seq(TaskIn) /\ Len(Tail(q)) = Len(q) - 1
          /\ \A j \in 1 .. Len(q) - 1 : Tail(q)[j] = q[j + 1]
        BY <1>1, HeadTailProperties
    <3>2. Tail(q) = [j \in 1 .. Len(q) - 1 |-> Tail(q)[j]]
      <4>1. Tail(q) \in [1 .. Len(q) - 1 -> TaskIn]
          BY <3>1, LenProperties
      <4> HIDE DEF TaskIn
      <4> QED BY <4>1
    <3> QED BY <3>1, <3>2
  <2> QED BY <2>1, <2>2
<1> QED BY <1>7, <1>8, <1>9

\* A round that takes no task leaves the choice as it was.
LEMMA CountDownPick ==
    ASSUME NEW q \in RunQueues, Head(q).cpriority > 0, NEW i, IsPick(q, i)
    PROVE  LET r == CountDown(q)
               k == IF i = 1 THEN Len(q) ELSE i - 1
           IN  /\ r \in RunQueues /\ Len(r) = Len(q) /\ IsPick(r, k)
               /\ Level(r[k]) = IF i = 1 THEN Level(q[i]) - 1 ELSE Level(q[i])
               /\ Level(q[i]) \in Nat /\ (i = 1 => Level(q[i]) > 0)
               /\ Picked(r, k) = Picked(q, i) /\ Rotated(r, k) = Rotated(q, i)
<1> DEFINE n == Len(q)
           r == CountDown(q)
           k == IF i = 1 THEN n ELSE i - 1
           last == [q[1] EXCEPT !.cpriority = @ - 1]
<1>1. q \in Seq(TaskIn) /\ q # <<>>
    BY DEF RunQueues, TaskIn
<1>2. n \in Nat \ {0}
    BY <1>1, EmptySeq, LenProperties
<1>3. \A j \in 1 .. n : q[j] \in TaskIn
    BY <1>1, ElementOfSeq
<1>4. Head(q) = q[1] /\ q[1] \in TaskIn
    BY <1>1, <1>2, <1>3, HeadTailProperties
<1>5. \A x \in TaskIn : x.cpriority \in Int /\ Level(x) \in Nat
    BY DEF TaskIn, Level
<1>6. last \in TaskIn /\ last.cpriority = q[1].cpriority - 1 /\ last.thread = q[1].thread
    BY <1>4 DEF TaskIn
<1>7. /\ r \in Seq(TaskIn) /\ Len(r) = n /\ r[n] = last
      /\ \A j \in 1 .. n - 1 : r[j] = q[j + 1]
  <2>1. /\ Tail(q) \in Seq(TaskIn) /\ Len(Tail(q)) = n - 1
        /\ \A j \in 1 .. n - 1 : Tail(q)[j] = q[j + 1]
      BY <1>1, <1>2, HeadTailProperties
  <2>2. r = Append(Tail(q), last)
      BY <1>4 DEF CountDown
  <2> HIDE DEF r, last
  <2> QED BY <1>2, <1>6, <2>1, <2>2, AppendProperties
<1>8. r \in RunQueues
  <2>1. r # <<>>
    <3> HIDE DEF r
    <3> QED BY <1>2, <1>7
  <2> QED BY <1>7, <2>1 DEF RunQueues, TaskIn
<1> HIDE DEF r, last
<1>9. /\ i \in 1 .. n
      /\ \A j \in 1 .. i - 1 : Level(q[j]) > Level(q[i])
      /\ \A j \in i + 1 .. n : Level(q[j]) >= Level(q[i])
    BY DEF IsPick
<1>10. k \in 1 .. n
    BY <1>2, <1>9
<1>11. Level(q[1]) = q[1].cpriority /\ Level(last) = q[1].cpriority - 1
    BY <1>4, <1>5, <1>6 DEF Level
<1>12. \A j \in 1 .. n : Level(q[j]) \in Nat
    BY <1>3, <1>5
<1>13. CASE i = 1
  <2>1. Level(r[k]) = Level(q[1]) - 1 /\ Level(q[1]) > 0 /\ k = n
      BY <1>4, <1>5, <1>7, <1>11, <1>13
  <2>2. IsPick(r, k)
    <3>1. ASSUME NEW j \in 1 .. n - 1 PROVE Level(r[j]) > Level(q[1]) - 1
      <4>1. j + 1 \in 1 + 1 .. n /\ j + 1 \in 1 .. n /\ 1 \in 1 .. n
          BY <1>2
      <4>2. Level(r[j]) = Level(q[j + 1])
          BY <1>7
      <4> QED BY <1>9, <1>12, <1>13, <4>1, <4>2
    <3> HIDE DEF k
    <3> QED BY <1>2, <1>7, <1>10, <2>1, <3>1 DEF IsPick
  <2>3. Picked(r, k) = Picked(q, i)
    <3>1. r[k] = last
        BY <1>7, <2>1
    <3>2. last.cpriority - Level(last) = q[1].cpriority - Level(q[1])
        BY <1>4, <1>5, <1>6, <1>11
    <3> QED BY <1>6, <1>13, <3>1, <3>2 DEF Picked
  <2>4. Rotated(r, k) = Rotated(q, i)
    <3> SUFFICES ASSUME NEW j \in 1 .. n - 1 PROVE Rotated(r, k)[j] = Rotated(q, i)[j]
        BY <1>7 DEF Rotated
    <3>1. /\ ~(n + j <= n) /\ n + j - n = j /\ 1 + j <= n /\ 1 + j = j + 1
          /\ j + 1 \in 1 .. n
        BY <1>2
    <3>2. Rotated(r, k)[j] = [r[j] EXCEPT !.cpriority = @ - Level(r[k]) - 1]
        BY <1>7, <2>1, <3>1 DEF Rotated
    <3>3. Rotated(q, i)[j] = [q[j + 1] EXCEPT !.cpriority = @ - Level(q[1])]
        BY <1>13, <3>1 DEF Rotated
    <3>4. q[j + 1].cpriority - Level(r[k]) - 1 = q[j + 1].cpriority - Level(q[1])
        BY <1>3, <1>4, <1>5, <2>1, <3>1
    <3>5. r[j] = q[j + 1]
        BY <1>7
    <3> QED BY <3>2, <3>3, <3>4, <3>5
  <2> QED BY <1>4, <1>5, <1>7, <1>8, <1>13, <2>1, <2>2, <2>3, <2>4 DEF r
<1>14. CASE i # 1
  <2>1. /\ k = i - 1 /\ k \in 1 .. n - 1 /\ k + 1 = i /\ r[k] = q[i]
        /\ Level(q[1]) > Level(q[i])
    <3>1. k = i - 1 /\ k \in 1 .. n - 1 /\ k + 1 = i /\ 1 \in 1 .. i - 1
        BY <1>2, <1>9, <1>14
    <3> HIDE DEF k
    <3> QED BY <1>7, <1>9, <3>1
  <2> HIDE DEF k
  <2>2. IsPick(r, k)
    <3>1. ASSUME NEW j \in 1 .. k - 1 PROVE Level(r[j]) > Level(q[i])
      <4>1. j \in 1 .. n - 1 /\ j + 1 \in 1 .. i - 1
          BY <1>2, <1>9, <2>1
      <4> QED BY <1>7, <1>9, <4>1
    <3>2. ASSUME NEW j \in k + 1 .. n - 1 PROVE Level(r[j]) >= Level(q[i])
      <4>1. j \in 1 .. n - 1 /\ j + 1 \in i + 1 .. n
          BY <1>2, <2>1
      <4> QED BY <1>7, <1>9, <4>1
    <3>3. Level(r[n]) >= Level(q[i])
        BY <1>5, <1>4, <1>7, <1>9, <1>11, <1>12, <2>1
    <3>4. \A j \in k + 1 .. n : j = n \/ j \in k + 1 .. n - 1
        BY <1>2, <2>1
    <3> QED BY <1>7, <1>10, <2>1, <3>1, <3>2, <3>3, <3>4 DEF IsPick
  <2>3. Picked(r, k) = Picked(q, i)
      BY <2>1 DEF Picked
  <2>4. Rotated(r, k) = Rotated(q, i)
    <3> SUFFICES ASSUME NEW j \in 1 .. n - 1 PROVE Rotated(r, k)[j] = Rotated(q, i)[j]
        BY <1>7 DEF Rotated
    <3>1. j \in Int /\ i \in Int /\ n \in Int
        BY <1>2, <1>9
    <3>2. CASE k + j < n
      <4>1. k + j <= n /\ k + j \in 1 .. n - 1 /\ (k + j) + 1 = i + j /\ i + j <= n
          BY <2>1, <3>1, <3>2
      <4>2. r[k + j] = q[i + j]
          BY <1>7, <4>1
      <4>3. Rotated(r, k)[j] = [r[k + j] EXCEPT !.cpriority = @ - Level(r[k])]
          BY <1>7, <4>1 DEF Rotated
      <4>4. Rotated(q, i)[j] = [q[i + j] EXCEPT !.cpriority = @ - Level(q[i])]
          BY <4>1 DEF Rotated
      <4> QED BY <2>1, <4>2, <4>3, <4>4
    <3>3. CASE k + j = n
      <4>1. k + j <= n /\ ~(i + j <= n) /\ i + j - n = 1
          BY <2>1, <3>1, <3>3
      <4>2. Rotated(r, k)[j] = [last EXCEPT !.cpriority = @ - Level(q[i])]
          BY <1>7, <2>1, <3>3, <4>1 DEF Rotated
      <4>3. Rotated(q, i)[j] = [q[1] EXCEPT !.cpriority = @ - Level(q[i]) - 1]
          BY <4>1 DEF Rotated
      <4>4. Level(q[i]) \in Nat
          BY <1>9, <1>12
      <4>5. q[1].cpriority \in Int /\ last.cpriority = q[1].cpriority - 1
          BY <1>4, <1>6 DEF TaskIn
      <4>6. last.cpriority - Level(q[i]) = q[1].cpriority - Level(q[i]) - 1
          BY <4>4, <4>5
      <4>7. \A v : [last EXCEPT !.cpriority = v] = [q[1] EXCEPT !.cpriority = v]
          BY <1>4 DEF TaskIn, last
      <4> QED BY <4>2, <4>3, <4>6, <4>7
    <3>4. CASE k + j > n
      <4>1. /\ ~(k + j <= n) /\ ~(i + j <= n) /\ k + j - n \in 1 .. n - 1
            /\ (k + j - n) + 1 = i + j - n
          BY <2>1, <3>1, <3>4
      <4>2. r[k + j - n] = q[i + j - n]
          BY <1>7, <4>1
      <4>3. Rotated(r, k)[j] = [r[k + j - n] EXCEPT !.cpriority = @ - Level(r[k]) - 1]
          BY <1>7, <4>1 DEF Rotated
      <4>4. Rotated(q, i)[j] = [q[i + j - n] EXCEPT !.cpriority = @ - Level(q[i]) - 1]
          BY <4>1 DEF Rotated
      <4> QED BY <2>1, <4>2, <4>3, <4>4
    <3> QED BY <2>1, <3>1, <3>2, <3>3, <3>4
  <2> QED BY <1>7, <1>8, <1>9, <1>12, <1>14, <2>1, <2>2, <2>3, <2>4 DEF k, r
<1> QED BY <1>13, <1>14

\* The loop ends, with the choice of Preempt.
LEMMA LoopPicks ==
    ASSUME NEW q \in RunQueues, NEW i, IsPick(q, i)
    PROVE  Loop(q) = [task |-> Picked(q, i), queue |-> Rotated(q, i)]
<1> DEFINE Pick(s) == CHOOSE j : IsPick(s, j)
           Out(s, j) == [task |-> Picked(s, j), queue |-> Rotated(s, j)]
           Body(h) == [s \in RunQueues |->
                          IF Head(s).cpriority <= 0
                          THEN [task |-> Head(s), queue |-> Tail(s)]
                          ELSE h[CountDown(s)]]
           f == [s \in RunQueues |-> Out(s, Pick(s))]
           loop == CHOOSE h : h = Body(h)
<1>1. \A s \in RunQueues : IsPick(s, Pick(s))
    BY PickOne
<1>2. \A s \in RunQueues : \A j : IsPick(s, j) => j = Pick(s)
    BY <1>1, PickOne
<1>3. \A s \in RunQueues : Head(s).cpriority > 0 \/ Head(s).cpriority <= 0
  <2> SUFFICES ASSUME NEW s \in RunQueues
               PROVE  Head(s).cpriority > 0 \/ Head(s).cpriority <= 0
      OBVIOUS
  <2>1. Head(s) \in TaskIn
      BY HeadTailProperties DEF RunQueues, TaskIn
  <2> QED BY <2>1 DEF TaskIn
<1> HIDE DEF Pick
<1>4. f = Body(f)
  <2> SUFFICES ASSUME NEW s \in RunQueues PROVE f[s] = Body(f)[s]
      OBVIOUS
  <2>1. CASE Head(s).cpriority <= 0
    <3>1. Pick(s) = 1 /\ Out(s, 1) = [task |-> Head(s), queue |-> Tail(s)]
        BY <1>2, <2>1, DueAtHead
    <3> HIDE DEF Out
    <3> QED BY <2>1, <3>1
  <2>2. CASE Head(s).cpriority > 0
    <3>1. ~(Head(s).cpriority <= 0)
      <4>1. Head(s) \in TaskIn
          BY HeadTailProperties DEF RunQueues, TaskIn
      <4> QED BY <2>2, <4>1 DEF TaskIn
    <3>2. PICK k : /\ CountDown(s) \in RunQueues /\ IsPick(CountDown(s), k)
                   /\ Out(CountDown(s), k) = Out(s, Pick(s))
        BY <1>1, <2>2, CountDownPick
    <3>3. Pick(CountDown(s)) = k
        BY <1>2, <3>2
    <3> HIDE DEF Out
    <3> QED BY <3>1, <3>2, <3>3
  <2> QED BY <1>3, <2>1, <2>2
<1>5. loop = Body(loop)
  <2> HIDE DEF f, Body
  <2> QED BY <1>4
<1>6. Loop(q) = loop[q]
    BY DEF Loop
<1> HIDE DEF loop, f
<1>7. \A s \in RunQueues : loop[s] = IF Head(s).cpriority <= 0
                                     THEN [task |-> Head(s), queue |-> Tail(s)]
                                     ELSE loop[CountDown(s)]
    BY <1>5
<1> HIDE DEF Body
\* The rounds left: each one takes one off.
<1> DEFINE Rounds(s, j) == Level(s[j]) * Len(s) + j
           Ends(n) == \A s \in RunQueues : \A j :
                          IsPick(s, j) /\ Rounds(s, j) = n => loop[s] = Out(s, j)
           S == {n \in Nat : Ends(n)}
<1>8. \A s \in RunQueues : \A j : IsPick(s, j) =>
          Level(s[j]) \in Nat /\ Len(s) \in Nat \ {0} /\ j \in 1 .. Len(s)
  <2> SUFFICES ASSUME NEW s \in RunQueues, NEW j, IsPick(s, j)
               PROVE  Level(s[j]) \in Nat /\ Len(s) \in Nat \ {0} /\ j \in 1 .. Len(s)
      OBVIOUS
  <2>1. s \in Seq(TaskIn) /\ s # <<>> /\ j \in 1 .. Len(s)
      BY DEF RunQueues, TaskIn, IsPick
  <2>2. s[j] \in TaskIn /\ Len(s) \in Nat \ {0}
      BY <2>1, ElementOfSeq, EmptySeq, LenProperties
  <2> QED BY <2>1, <2>2 DEF TaskIn, Level
<1>9. Ends(0)
  <2> SUFFICES ASSUME NEW s \in RunQueues, NEW j, IsPick(s, j), Rounds(s, j) = 0
               PROVE  FALSE
      OBVIOUS
  <2>1. Level(s[j]) \in Nat /\ Len(s) \in Nat /\ j \in Nat \ {0}
      BY <1>8
  <2>2. Level(s[j]) * Len(s) \in Nat
      BY <2>1
  <2> QED BY <2>1, <2>2
<1>10. ASSUME NEW n \in Nat, Ends(n) PROVE Ends(n + 1)
  <2> SUFFICES ASSUME NEW s \in RunQueues, NEW j, IsPick(s, j), Rounds(s, j) = n + 1
               PROVE  loop[s] = Out(s, j)
      OBVIOUS
  <2>1. CASE Head(s).cpriority <= 0
    <3>1. j = 1 /\ Out(s, 1) = [task |-> Head(s), queue |-> Tail(s)]
        BY <1>2, <2>1, DueAtHead
    <3> HIDE DEF Out
    <3> QED BY <1>7, <2>1, <3>1
  <2>2. CASE ~(Head(s).cpriority <= 0)
    <3> DEFINE r == CountDown(s)
               k == IF j = 1 THEN Len(s) ELSE j - 1
    <3>1. Head(s).cpriority > 0
        BY <1>3, <2>2
    <3>2. /\ r \in RunQueues /\ Len(r) = Len(s) /\ IsPick(r, k)
          /\ Level(r[k]) = IF j = 1 THEN Level(s[j]) - 1 ELSE Level(s[j])
          /\ Picked(r, k) = Picked(s, j) /\ Rotated(r, k) = Rotated(s, j)
        BY <3>1, CountDownPick
    <3>3. Out(r, k) = Out(s, j)
        BY <3>2
    <3>4. Level(s[j]) \in Nat /\ Len(s) \in Nat \ {0} /\ j \in 1 .. Len(s)
        BY <1>8
    <3>5. Rounds(r, k) = n
      <4>1. \A l, m \in Nat : (l - 1) * m + m = l * m
          OBVIOUS
      <4>2. CASE j = 1
        <5>1. Rounds(r, k) = (Level(s[j]) - 1) * Len(s) + Len(s)
            BY <3>2, <4>2
        <5>2. Rounds(r, k) = Level(s[j]) * Len(s)
            BY <3>4, <4>1, <5>1
        <5>3. Level(s[j]) * Len(s) \in Nat
            BY <3>4
        <5> HIDE DEF r, k
        <5> QED BY <4>2, <5>2, <5>3
      <4>3. CASE j # 1
        <5>1. Rounds(r, k) = Level(s[j]) * Len(s) + (j - 1)
            BY <3>2, <4>3
        <5>2. Level(s[j]) * Len(s) \in Nat
            BY <3>4
        <5>3. Level(s[j]) * Len(s) + j = n + 1
            OBVIOUS
        <5>4. ASSUME NEW a \in Nat, a + j = n + 1 PROVE a + (j - 1) = n
            BY <3>4, <5>4
        <5> HIDE DEF Rounds
        <5> QED BY <5>1, <5>2, <5>3, <5>4
      <4> QED BY <4>2, <4>3
    <3> HIDE DEF r, k, Out, Rounds
    <3>6. loop[r] = Out(r, k)
        BY <1>10, <3>2, <3>5
    <3>7. loop[s] = loop[r]
        BY <1>7, <2>2 DEF r
    <3> QED BY <3>3, <3>6, <3>7
  <2> QED BY <2>1, <2>2
<1>11. S = Nat
  <2> HIDE DEF Ends
  <2>1. S \subseteq Nat /\ 0 \in S /\ \A n \in S : n + 1 \in S
      BY <1>9, <1>10
  <2> HIDE DEF S
  <2> QED BY <2>1, Induction
<1>12. Rounds(q, i) \in S
  <2>1. Level(q[i]) \in Nat /\ Len(q) \in Nat /\ i \in Nat
      BY <1>8
  <2>2. Level(q[i]) * Len(q) \in Nat
      BY <2>1
  <2>3. Rounds(q, i) \in Nat
      BY <2>1, <2>2
  <2> HIDE DEF S, Rounds
  <2> QED BY <1>11, <2>3
<1>13. Ends(Rounds(q, i))
  <2> HIDE DEF Ends, Rounds
  <2> QED BY <1>12
<1>14. loop[q] = Out(q, i)
  <2> HIDE DEF Out, Rounds
  <2> QED BY <1>13
<1> QED BY <1>6, <1>14

\* LoopIsPick, for every number of threads and every choice of priorities:
\* the loop of scheduler_increment ends, and takes the task that Preempt
\* takes, from the queue that Preempt leaves.
THEOREM SchedLoopIsPick == Spec => []LoopIsPick
<1>1. ASSUME IInv, RunQueueNeverEmpty PROVE LoopIsPick
  <2> DEFINE q == Requeued(state)
             x == [thread |-> ctask.thread, cpriority |-> Priority[ctask.thread]]
  <2>1. schedule \in Seq(TaskIn)
      BY <1>1 DEF IInv, TypeOK, TaskIn
  <2>2. q \in RunQueues
    <3>1. CASE ctask.thread = NONE \/ Dead(state)
        BY <1>1, <2>1, <3>1 DEF Requeued, RunQueueNeverEmpty, RunQueues, TaskIn
    <3>2. CASE ~(ctask.thread = NONE \/ Dead(state))
      <4>1. ctask.thread \in Tids
          BY <1>1, <3>2 DEF IInv, TypeOK, Task
      <4>2. x \in TaskIn
          BY <4>1, SchedAssumption DEF TaskIn
      <4>3. q = Append(schedule, x)
          BY <3>2 DEF Requeued
      <4>4. Append(schedule, x) \in Seq(TaskIn) /\ Append(schedule, x) # <<>>
        <5> HIDE DEF x
        <5> QED BY <2>1, <4>2, AppendProperties
      <4> QED BY <4>3, <4>4 DEF RunQueues, TaskIn
    <3> QED BY <3>1, <3>2
  <2> HIDE DEF q
  <2>3. PICK i \in 1 .. Len(q) : IsPick(q, i)
      BY <2>2, PickOne
  <2>4. Loop(q) = [task |-> Picked(q, i), queue |-> Rotated(q, i)]
      BY <2>2, <2>3, LoopPicks
  <2>5. Loop(q).task = Picked(q, i) /\ Loop(q).queue = Rotated(q, i)
      BY <2>4
  <2>6. LoopIsPick <=> \E j \in 1 .. Len(q) :
            IsPick(q, j) /\ Loop(q).task = Picked(q, j) /\ Loop(q).queue = Rotated(q, j)
      BY DEF LoopIsPick, q
  <2> QED BY <2>3, <2>5, <2>6
<1> QED BY <1>1, SpecIInv, SchedRunQueueNeverEmpty, PTL
=============================================================================
