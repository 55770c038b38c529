------------------------------- MODULE Queue -------------------------------
(***************************************************************************)
(* The ring of include/tupai/util/queue.hpp (_queue_t), the storage of     *)
(* fifo_t, of the scheduler's run queue and of the two tty pipes.  head is *)
(* the slot of the NEWEST item, tail the slot of the oldest; an empty ring *)
(* keeps head = tail and the next push reuses that slot.                   *)
(*                                                                         *)
(* Here push and pop are single steps, which is what a caller gets when    *)
(* nothing interrupts it.                                                  *)
(***************************************************************************)
EXTENDS Naturals, Sequences

CONSTANTS N,      \* the template parameter N: the number of slots
          Item    \* the values of the template parameter T

ASSUME QueueAssumption == N \in Nat \ {0}

VARIABLES items,  \* T items[N]; not initialised by the constructor
          head,
          tail,
          length,
          out     \* <<item>>: what the last pop returned, <<>> before

queue_vars == <<items, head, tail, length, out>>

Slots == 0 .. N - 1

queue_init ==
    /\ items \in [Slots -> Item]
    /\ head = 0
    /\ tail = 0
    /\ length = 0
    /\ out = <<>>

\* The slot after s.
Succ(s) == (s + 1) % N

\* Mutant of push: a full ring does not give up its oldest item.
push_keeps_tail(item) ==
    /\ head' = IF length # 0 THEN Succ(head) ELSE head
    /\ items' = [items EXCEPT ![head'] = item]
    /\ length' = IF length < N THEN length + 1 ELSE length
    /\ UNCHANGED <<tail, out>>

\* Mutant of push: off by one in the test that stops length from growing.
push_length_overflow(item) ==
    /\ head' = IF length # 0 THEN Succ(head) ELSE head
    /\ tail' = IF length # 0 /\ head' = tail THEN Succ(tail) ELSE tail
    /\ items' = [items EXCEPT ![head'] = item]
    /\ length' = IF length <= N THEN length + 1 ELSE length
    /\ out' = out

push(item) ==
    /\ head' = IF length # 0 THEN Succ(head) ELSE head
    /\ tail' = IF length # 0 /\ head' = tail THEN Succ(tail) ELSE tail
    /\ items' = [items EXCEPT ![head'] = item]
    /\ length' = IF length < N THEN length + 1 ELSE length
    /\ out' = out

\* Mutant of pop: tail advances past the newest item too.
pop_always_advances ==
    /\ length # 0
    /\ length' = length - 1
    /\ out' = <<items[tail]>>
    /\ tail' = Succ(tail)
    /\ UNCHANGED <<items, head>>

\* pop() itself has no guard; every fifo_t reader waits for len() to be
\* non-zero before it calls it.  scheduler_increment does not test: its queue
\* is never empty (Sched, RunQueueNeverEmpty).
pop ==
    /\ length # 0
    /\ length' = length - 1
    /\ out' = <<items[tail]>>
    /\ tail' = IF length' # 0 THEN Succ(tail) ELSE tail
    /\ UNCHANGED <<items, head>>

queue_next == pop \/ \E item \in Item : push(item)

queue_spec == queue_init /\ [][queue_next]_queue_vars

-----------------------------------------------------------------------------
\* The state of _queue_t: indices stay inside items[].
QueueTypeOK ==
    /\ items \in [Slots -> Item]
    /\ head \in Slots
    /\ tail \in Slots
    /\ length \in 0 .. N
    /\ out \in {<<>>} \cup {<<i>> : i \in Item}

\* The three counters of _queue_t, which push and pop update independently,
\* always describe one ring: the newest item is length - 1 slots after the
\* oldest, and an empty ring has head = tail, the slot the next push writes.
RingShape ==
    head = IF length = 0 THEN tail ELSE (tail + (length - 1)) % N

\* The items from tail to head, oldest first.
Contents == [i \in 1 .. length |-> items[(tail + (i - 1)) % N]]

Fifo == INSTANCE AbstractFifo WITH buf <- Contents

\* push and pop implement a bounded first-in first-out buffer: items come
\* out in the order they went in, and a push on a full ring loses the oldest
\* one and nothing else.
ImplementsFifo == Fifo!Spec
=============================================================================
