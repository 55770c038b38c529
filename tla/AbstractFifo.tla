---------------------------- MODULE AbstractFifo ----------------------------
(***************************************************************************)
(* What _queue_t and fifo_t (include/tupai/util/queue.hpp, fifo.hpp)       *)
(* promise their callers: a first-in first-out buffer of at most N items   *)
(* in which a push on a full buffer overwrites the oldest item.            *)
(***************************************************************************)
EXTENDS Naturals, Sequences

CONSTANTS N,      \* the template parameter N: the capacity
          Item    \* the values of the template parameter T

VARIABLES buf,    \* the items waiting, oldest first
          out     \* <<item>> once a pop has returned it, <<>> before

vars == <<buf, out>>

Init == buf = <<>> /\ out = <<>>

\* The oldest item makes room when the buffer is full.
Push(item) ==
    /\ buf' = Append(IF Len(buf) = N THEN Tail(buf) ELSE buf, item)
    /\ out' = out

\* A reader waits until there is an item and takes the oldest.
Pop ==
    /\ buf # <<>>
    /\ out' = <<Head(buf)>>
    /\ buf' = Tail(buf)

Next == Pop \/ \E item \in Item : Push(item)

Spec == Init /\ [][Next]_vars
=============================================================================
