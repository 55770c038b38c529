-------------------------------- MODULE Ring --------------------------------
(***************************************************************************)
(* A pipe, fifo_t<uint8_t, PIPE_SIZE> of include/tupai/util/fifo.hpp on    *)
(* unsafe_queue_t of queue.hpp: its push and pop when nothing comes        *)
(* between their accesses.  RingRace takes them apart.                     *)
(***************************************************************************)
EXTENDS Integers, Sequences, SequencesExt

CONSTANT PIPE_SIZE

ASSUME RingAssumption == PIPE_SIZE \in Nat \ {0, 1}

NUL == "NUL"
Indices == 0 .. PIPE_SIZE - 1

EmptyPipe == [items |-> [n \in Indices |-> NUL], head |-> 0, tail |-> 0, length |-> 0]

\* The first part of a push: head goes on, and tail if the ring is full.
Advanced(q) ==
    LET h == (q.head + 1) % PIPE_SIZE
    IN  IF q.length = 0 THEN q
        ELSE [q EXCEPT !.head = h,
                       !.tail = IF h = @ THEN (@ + 1) % PIPE_SIZE ELSE @]

Pushed(q, c) ==
    LET m == Advanced(q)
    IN  [m EXCEPT !.items[m.head] = c, !.length = IF @ < PIPE_SIZE THEN @ + 1 ELSE @]

Popped(q) == [q EXCEPT !.length = @ - 1,
                       !.tail = IF q.length # 1 THEN (@ + 1) % PIPE_SIZE ELSE @]

Oldest(q) == q.items[q.tail]
Fits(q, text) == q.length + Len(text) <= PIPE_SIZE

\* What a pipe holds, oldest first.
Stored(q) == [n \in 1 .. q.length |-> q.items[(q.tail + n - 1) % PIPE_SIZE]]
=============================================================================
