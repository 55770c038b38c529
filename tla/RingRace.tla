------------------------------ MODULE RingRace ------------------------------
(***************************************************************************)
(* A pipe with its writer and its reader.  The fields of the ring are      *)
(* volatile, the mutex does nothing and the spinlock of tty_write is not   *)
(* taken by the thread that reads, so a thread is preempted between any    *)
(* two accesses: wr.at and rd.at are the accesses that come next.  The     *)
(* keyboard and exception handlers write with interrupts off, in one step. *)
(* print() holds the interrupt lock, but kmem_alloc in clog.push()         *)
(* releases it whenever the log grows: then its write is not protected.    *)
(***************************************************************************)
EXTENDS Ring

CONSTANT MaxSent    \* bound: characters written; the n-th one is n

VARIABLES pipe, wr, rd,
          sent, got,    \* history: what was written and read
          apart         \* history: reader and writer never met, nothing overflowed

ring_vars == <<pipe, wr, rd, sent, got, apart>>

ring_init ==
    /\ pipe = EmptyPipe
    /\ wr = [at |-> "idle", l |-> 0]
    /\ rd = [at |-> "spin", l |-> 0, c |-> NUL]
    /\ sent = 0 /\ got = <<>>
    /\ apart = TRUE

Pushing == wr.at # "idle"
Popping == rd.at # "spin"
Meet(b) == apart' = (apart /\ ~b)

-----------------------------------------------------------------------------
(* The writer: push(), begun and ended by the actions of the next group. *)

Write(from, to, load) ==
    /\ wr.at = from
    /\ wr' = [at |-> to, l |-> load]
    /\ UNCHANGED <<rd, got>>

push_begin ==
    /\ sent < MaxSent
    /\ sent' = sent + 1
    /\ Write("idle", IF pipe.length # 0 THEN "head" ELSE "put", 0)
    /\ Meet(Popping)
    /\ UNCHANGED pipe

push_head ==
    /\ Write("head", "full", 0)
    /\ pipe' = [pipe EXCEPT !.head = (@ + 1) % PIPE_SIZE]
    /\ UNCHANGED <<sent, apart>>

\* The ring is full: its oldest character goes.
push_full ==
    /\ Write("full", IF pipe.head = pipe.tail THEN "load_tail" ELSE "put", 0)
    /\ Meet(pipe.head = pipe.tail)
    /\ UNCHANGED <<pipe, sent>>

push_load_tail == Write("load_tail", "store_tail", pipe.tail) /\ UNCHANGED <<pipe, sent, apart>>

push_store_tail ==
    /\ Write("store_tail", "put", 0)
    /\ pipe' = [pipe EXCEPT !.tail = (wr.l + 1) % PIPE_SIZE]
    /\ UNCHANGED <<sent, apart>>

push_put ==
    /\ Write("put", "room", 0)
    /\ pipe' = [pipe EXCEPT !.items[pipe.head] = sent]
    /\ UNCHANGED <<sent, apart>>

push_room ==
    /\ Write("room", IF pipe.length < PIPE_SIZE THEN "load_length" ELSE "idle", 0)
    /\ UNCHANGED <<pipe, sent, apart>>

push_load_length ==
    Write("load_length", "store_length", pipe.length) /\ UNCHANGED <<pipe, sent, apart>>

push_store_length ==
    /\ Write("store_length", "idle", 0)
    /\ pipe' = [pipe EXCEPT !.length = wr.l + 1]
    /\ UNCHANGED <<sent, apart>>

\* A handler writes: tty_write_in, or the log of an exception.
handler_write ==
    /\ ~Pushing /\ sent < MaxSent
    /\ sent' = sent + 1
    /\ pipe' = Pushed(pipe, sent')
    /\ Meet(Popping \/ ~Fits(pipe, <<sent'>>))
    /\ UNCHANGED <<wr, rd, got>>

-----------------------------------------------------------------------------
(* The reader: read_unsafe() and pop(). *)

Read(from, to, load, c) ==
    /\ rd.at = from
    /\ rd' = [at |-> to, l |-> load, c |-> c]
    /\ UNCHANGED <<wr, sent>>

\* Mutant of read_unsafe: the wait is left out.
read_at_once ==
    /\ Read("spin", "load_length", 0, NUL)
    /\ Meet(Pushing)
    /\ UNCHANGED <<pipe, got>>

read_unsafe ==
    /\ pipe.length # 0
    /\ Read("spin", "load_length", 0, NUL)
    /\ Meet(Pushing)
    /\ UNCHANGED <<pipe, got>>

pop_load_length ==
    Read("load_length", "store_length", pipe.length, NUL) /\ UNCHANGED <<pipe, got, apart>>

pop_store_length ==
    /\ Read("store_length", "item", 0, NUL)
    /\ pipe' = [pipe EXCEPT !.length = rd.l - 1]
    /\ UNCHANGED <<got, apart>>

pop_item == Read("item", "test", 0, Oldest(pipe)) /\ UNCHANGED <<pipe, got, apart>>

\* The last character is left where it is.
pop_test ==
    /\ IF pipe.length # 0 THEN Read("test", "load_tail", 0, rd.c) ELSE Read("test", "done", 0, rd.c)
    /\ UNCHANGED <<pipe, got, apart>>

pop_load_tail == Read("load_tail", "store_tail", pipe.tail, rd.c) /\ UNCHANGED <<pipe, got, apart>>

pop_store_tail ==
    /\ Read("store_tail", "done", 0, rd.c)
    /\ pipe' = [pipe EXCEPT !.tail = (rd.l + 1) % PIPE_SIZE]
    /\ UNCHANGED <<got, apart>>

pop_done ==
    /\ Read("done", "spin", 0, NUL)
    /\ got' = Append(got, rd.c)
    /\ UNCHANGED <<pipe, apart>>

ring_next ==
    \/ push_begin \/ push_head \/ push_full \/ push_load_tail \/ push_store_tail
    \/ push_put \/ push_room \/ push_load_length \/ push_store_length \/ handler_write
    \/ read_unsafe \/ pop_load_length \/ pop_store_length \/ pop_item \/ pop_test
    \/ pop_load_tail \/ pop_store_tail \/ pop_done

ring_spec == ring_init /\ [][ring_next]_ring_vars

-----------------------------------------------------------------------------
\* However reader and writer interrupt each other, the indices stay in the
\* ring and the length does not wrap, since the one reader waits for a
\* character before it takes one.  As long as the two do not meet in the
\* ring and it does not overflow, the characters come out in the order in
\* which they went in, and none is lost or repeated.
PipeSafe ==
    /\ pipe.head \in Indices /\ pipe.tail \in Indices
    /\ pipe.length \in 0 .. PIPE_SIZE
    /\ apart => /\ \A n \in 1 .. Len(got) : got[n] = n
                /\ ~Popping /\ ~Pushing =>
                      got \o Stored(pipe) = [n \in 1 .. sent |-> n]
=============================================================================
