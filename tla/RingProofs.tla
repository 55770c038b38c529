----------------------------- MODULE RingProofs -----------------------------
(***************************************************************************)
(* A pipe of any size with its reader and its writer, preempted between    *)
(* any two accesses: the ring is never damaged, and it is a first-in       *)
(* first-out buffer as long as the two do not meet in it.  Then the        *)
(* console that two such pipes make, from the keyboard to the screen: the  *)
(* screen shows the line that the shell has read.                          *)
(***************************************************************************)
EXTENDS RingRace, Console, Recursion, SequenceTheorems, TLAPS

\* The n-th cell from the tail on, counted from 0.
Cell(q, n) == (q.tail + n) % PIPE_SIZE

\* The ring q holds the k characters after the first ones, in order, and its
\* head is on the last of them, or on the tail if there is none.
Holds(q, first, k) == \A n \in 0 .. k - 1 : q.items[Cell(q, n)] = first + n + 1
Linked(q, k) == q.head = IF k = 0 THEN q.tail ELSE Cell(q, k - 1)
Full(q, first, k) == k \in 0 .. PIPE_SIZE /\ first + k = sent /\ Holds(q, first, k) /\ Linked(q, k)

\* All characters but the one that is being written are in q or were read.
Before(q, k) == Len(got) + k + 1 = sent /\ Holds(q, Len(got), k)

Chars == Nat \cup {NUL}

TypeInv ==
    /\ pipe \in [items : [Indices -> Chars], head : Indices, tail : Indices,
                 length : 0 .. PIPE_SIZE]
    /\ wr \in [at : {"idle", "head", "full", "load_tail", "store_tail", "put", "room",
                     "load_length", "store_length"}, l : Nat]
    /\ rd \in [at : {"spin", "load_length", "store_length", "item", "test", "load_tail",
                     "store_tail", "done"}, l : Nat, c : Chars]
    /\ sent \in Nat
    /\ got \in Seq(Chars)
    /\ apart \in BOOLEAN

\* Whoever comes between: only the reader lowers the length and only the
\* writer raises it, so what each has found out about it stays true.
LengthInv ==
    /\ rd.at = "load_length" => pipe.length # 0
    /\ rd.at = "store_length" => rd.l \in 1 .. PIPE_SIZE
    /\ wr.at = "load_length" => pipe.length < PIPE_SIZE
    /\ wr.at = "store_length" => wr.l < PIPE_SIZE

\* While reader and writer keep apart, what the reader and the ring have at
\* each access of the reader.
ReaderInv ==
    /\ \A n \in 1 .. Len(got) : got[n] = n
    /\ rd.at \in {"spin", "load_length", "store_length"} /\ ~Pushing =>
           Full(pipe, Len(got), pipe.length)
    /\ rd.at = "store_length" => rd.l = pipe.length
    /\ rd.at \in {"item", "test", "load_tail", "store_tail"} =>
           Full(pipe, Len(got), pipe.length + 1)
    /\ rd.at \in {"test", "load_tail", "store_tail", "done"} => rd.c = Len(got) + 1
    /\ rd.at \in {"load_tail", "store_tail"} => pipe.length # 0
    /\ rd.at = "store_tail" => rd.l = pipe.tail
    /\ rd.at = "done" => Full(pipe, Len(got) + 1, pipe.length)

\* The same, at each access of the writer.
WriterInv ==
    /\ wr.at \in {"head", "full"} => pipe.length # 0
    /\ wr.at \in {"head", "full", "put"} => Before(pipe, pipe.length)
    /\ wr.at = "head" => Linked(pipe, pipe.length)
    /\ wr.at = "full" =>
           pipe.head = IF pipe.length = PIPE_SIZE THEN pipe.tail ELSE Cell(pipe, pipe.length)
    /\ wr.at = "put" => pipe.length < PIPE_SIZE /\ pipe.head = Cell(pipe, pipe.length)
    /\ wr.at \in {"room", "load_length", "store_length"} =>
           pipe.length < PIPE_SIZE /\ Full(pipe, Len(got), pipe.length + 1)
    /\ wr.at = "store_length" => wr.l = pipe.length
    /\ wr.at \notin {"load_tail", "store_tail"}

ApartInv == apart => (~Pushing \/ ~Popping) /\ ReaderInv /\ WriterInv

\* The inductive invariant.
IInv == TypeInv /\ LengthInv /\ ApartInv

-----------------------------------------------------------------------------
\* The cells of a ring go round: arithmetic without the remainder.
LEMMA CellValue ==
    ASSUME NEW s \in Indices, NEW k \in 0 .. PIPE_SIZE
    PROVE  /\ (s + k) % PIPE_SIZE \in Indices
           /\ (s + k) % PIPE_SIZE = IF s + k < PIPE_SIZE THEN s + k ELSE s + k - PIPE_SIZE
    BY RingAssumption DEF Indices

LEMMA Succ ==
    ASSUME NEW s \in Nat
    PROVE  (s + 1) % PIPE_SIZE \in Indices
    BY RingAssumption DEF Indices

\* Cells at different distances from the tail are different.
LEMMA CellApart ==
    ASSUME NEW q, q.tail \in Indices, NEW m \in Indices, NEW n \in Indices, m # n
    PROVE  Cell(q, m) # Cell(q, n)
<1>1. m \in 0 .. PIPE_SIZE /\ n \in 0 .. PIPE_SIZE
    BY RingAssumption DEF Indices
<1>2. /\ Cell(q, m) = IF q.tail + m < PIPE_SIZE THEN q.tail + m ELSE q.tail + m - PIPE_SIZE
      /\ Cell(q, n) = IF q.tail + n < PIPE_SIZE THEN q.tail + n ELSE q.tail + n - PIPE_SIZE
    BY <1>1, CellValue DEF Cell
<1> QED BY <1>2, RingAssumption DEF Indices

LEMMA CellNext ==
    ASSUME NEW q, q.tail \in Indices, NEW n \in Indices
    PROVE  /\ Cell(q, n) \in Indices
           /\ Cell(q, 0) = q.tail
           /\ (Cell(q, n) + 1) % PIPE_SIZE = Cell(q, n + 1)
           /\ Cell(q, PIPE_SIZE) = q.tail
<1>1. /\ n \in 0 .. PIPE_SIZE /\ n + 1 \in 0 .. PIPE_SIZE /\ 0 \in 0 .. PIPE_SIZE
      /\ 1 \in 0 .. PIPE_SIZE /\ PIPE_SIZE \in 0 .. PIPE_SIZE
    BY RingAssumption DEF Indices
<1>2. /\ Cell(q, n) \in Indices
      /\ Cell(q, n) = IF q.tail + n < PIPE_SIZE THEN q.tail + n ELSE q.tail + n - PIPE_SIZE
    BY <1>1, CellValue DEF Cell
<1>3. Cell(q, n + 1) = IF q.tail + (n + 1) < PIPE_SIZE THEN q.tail + (n + 1)
                       ELSE q.tail + (n + 1) - PIPE_SIZE
    BY <1>1, CellValue DEF Cell
<1>4. Cell(q, 0) = q.tail /\ Cell(q, PIPE_SIZE) = q.tail
  <2>1. Cell(q, 0) = IF q.tail + 0 < PIPE_SIZE THEN q.tail + 0 ELSE q.tail + 0 - PIPE_SIZE
    BY <1>1, CellValue DEF Cell
  <2>2. Cell(q, PIPE_SIZE) = IF q.tail + PIPE_SIZE < PIPE_SIZE THEN q.tail + PIPE_SIZE
                             ELSE q.tail + PIPE_SIZE - PIPE_SIZE
    BY <1>1, CellValue DEF Cell
  <2> QED BY <2>1, <2>2, RingAssumption DEF Indices
<1>5. (Cell(q, n) + 1) % PIPE_SIZE = IF Cell(q, n) + 1 < PIPE_SIZE THEN Cell(q, n) + 1
                                     ELSE Cell(q, n) + 1 - PIPE_SIZE
    BY <1>1, <1>2, CellValue
<1> QED BY <1>2, <1>3, <1>4, <1>5, RingAssumption DEF Indices

\* When the tail moves on, each cell is one nearer to it.
LEMMA CellShift ==
    ASSUME NEW q, q.tail \in Indices, NEW r, r.tail = (q.tail + 1) % PIPE_SIZE,
           NEW n \in Indices
    PROVE  Cell(r, n) = Cell(q, n + 1)
<1>1. /\ n \in 0 .. PIPE_SIZE /\ n + 1 \in 0 .. PIPE_SIZE /\ 1 \in 0 .. PIPE_SIZE
    BY RingAssumption DEF Indices
<1>2. /\ r.tail \in Indices
      /\ r.tail = IF q.tail + 1 < PIPE_SIZE THEN q.tail + 1 ELSE q.tail + 1 - PIPE_SIZE
    BY <1>1, CellValue
<1>3. Cell(r, n) = IF r.tail + n < PIPE_SIZE THEN r.tail + n ELSE r.tail + n - PIPE_SIZE
    BY <1>1, <1>2, CellValue DEF Cell
<1>4. Cell(q, n + 1) = IF q.tail + (n + 1) < PIPE_SIZE THEN q.tail + (n + 1)
                       ELSE q.tail + (n + 1) - PIPE_SIZE
    BY <1>1, CellValue DEF Cell
<1> QED BY <1>2, <1>3, <1>4, RingAssumption DEF Indices

-----------------------------------------------------------------------------
\* However the two interleave: the accesses of the writer.
LEMMA WriterTypes ==
    ASSUME TypeInv, LengthInv,
           \/ push_begin \/ push_head \/ push_full \/ push_load_tail \/ push_store_tail
           \/ push_put \/ push_room \/ push_load_length \/ push_store_length
    PROVE  TypeInv' /\ LengthInv'
<1> USE RingAssumption
<1>0. pipe.head \in Indices /\ pipe.tail \in Indices /\ pipe.length \in 0 .. PIPE_SIZE
      /\ pipe.head \in Nat /\ pipe.tail \in Nat /\ wr.l \in Nat /\ pipe.length \in Nat
    BY DEF TypeInv, Indices
<1>1. CASE push_begin
    BY <1>0, <1>1 DEF push_begin, Write, Meet, TypeInv, LengthInv
<1>2. CASE push_head
    BY <1>0, <1>2, Succ DEF push_head, Write, TypeInv, LengthInv
<1>3. CASE push_full
    BY <1>0, <1>3 DEF push_full, Write, Meet, TypeInv, LengthInv
<1>4. CASE push_load_tail
    BY <1>0, <1>4 DEF push_load_tail, Write, TypeInv, LengthInv
<1>5. CASE push_store_tail
    BY <1>0, <1>5, Succ DEF push_store_tail, Write, TypeInv, LengthInv
<1>6. CASE push_put
    BY <1>0, <1>6 DEF push_put, Write, TypeInv, LengthInv, Chars
<1>7. CASE push_room
    BY <1>0, <1>7 DEF push_room, Write, TypeInv, LengthInv
<1>8. CASE push_load_length
    BY <1>0, <1>8 DEF push_load_length, Write, TypeInv, LengthInv
<1>9. CASE push_store_length
    BY <1>0, <1>9 DEF push_store_length, Write, TypeInv, LengthInv
<1> QED BY <1>1, <1>2, <1>3, <1>4, <1>5, <1>6, <1>7, <1>8, <1>9

\* The accesses of the reader.
LEMMA ReaderTypes ==
    ASSUME TypeInv, LengthInv,
           \/ read_unsafe \/ pop_load_length \/ pop_store_length \/ pop_item \/ pop_test
           \/ pop_load_tail \/ pop_store_tail \/ pop_done
    PROVE  TypeInv' /\ LengthInv'
<1> USE RingAssumption
<1>0. pipe.head \in Indices /\ pipe.tail \in Indices /\ pipe.length \in 0 .. PIPE_SIZE
      /\ pipe.tail \in Nat /\ rd.l \in Nat /\ rd.c \in Chars /\ NUL \in Chars
      /\ pipe.items[pipe.tail] \in Chars
    BY DEF TypeInv, Indices, Chars
<1>1. CASE read_unsafe
    BY <1>0, <1>1 DEF read_unsafe, Read, Meet, TypeInv, LengthInv
<1>2. CASE pop_load_length
    BY <1>0, <1>2 DEF pop_load_length, Read, TypeInv, LengthInv
<1>3. CASE pop_store_length
    BY <1>0, <1>3 DEF pop_store_length, Read, TypeInv, LengthInv
<1>4. CASE pop_item
    BY <1>0, <1>4 DEF pop_item, Read, Oldest, TypeInv, LengthInv
<1>5. CASE pop_test
    BY <1>0, <1>5 DEF pop_test, Read, TypeInv, LengthInv
<1>6. CASE pop_load_tail
    BY <1>0, <1>6 DEF pop_load_tail, Read, TypeInv, LengthInv
<1>7. CASE pop_store_tail
    BY <1>0, <1>7, Succ DEF pop_store_tail, Read, TypeInv, LengthInv
<1>8. CASE pop_done
    BY <1>0, <1>8 DEF pop_done, Read, TypeInv, LengthInv
<1> QED BY <1>1, <1>2, <1>3, <1>4, <1>5, <1>6, <1>7, <1>8

-----------------------------------------------------------------------------
\* A character is put in the cell after those that q holds.
LEMMA PutHolds ==
    ASSUME NEW q, NEW r, q.tail \in Indices, q.items \in [Indices -> Chars], NEW first \in Nat,
           NEW k \in Indices, Holds(q, first, k), r.tail = q.tail,
           r.items = [q.items EXCEPT ![Cell(q, k)] = first + k + 1]
    PROVE  Holds(r, first, k + 1)
<1> SUFFICES ASSUME NEW n \in 0 .. k PROVE r.items[Cell(r, n)] = first + n + 1
    BY RingAssumption DEF Holds, Indices
<1>1. Cell(r, n) = Cell(q, n)
    BY DEF Cell
<1>2. n \in Indices /\ Cell(q, n) \in Indices
  <2>1. n \in Indices
    BY RingAssumption DEF Indices
  <2> QED BY <2>1, CellNext
<1>3. CASE n = k
    BY <1>1, <1>2, <1>3
<1>4. CASE n # k
  <2>1. Cell(q, n) # Cell(q, k)
    BY <1>2, <1>4, CellApart
  <2>2. n \in 0 .. k - 1
    BY <1>4, RingAssumption DEF Indices
  <2> QED BY <1>1, <1>2, <2>1, <2>2 DEF Holds
<1> QED BY <1>3, <1>4

\* The oldest character is taken.
LEMMA TakeHolds ==
    ASSUME NEW q, NEW r, q.tail \in Indices, NEW first \in Nat, NEW k \in Indices,
           Holds(q, first, k + 1), r.items = q.items, r.tail = (q.tail + 1) % PIPE_SIZE
    PROVE  Holds(r, first + 1, k)
<1> SUFFICES ASSUME NEW n \in 0 .. k - 1 PROVE r.items[Cell(r, n)] = (first + 1) + n + 1
    BY DEF Holds
<1>1. n \in Indices /\ n + 1 \in 0 .. (k + 1) - 1
    BY RingAssumption DEF Indices
<1>2. Cell(r, n) = Cell(q, n + 1)
    BY <1>1, CellShift
<1>3. q.items[Cell(q, n + 1)] = first + (n + 1) + 1
    BY <1>1 DEF Holds
<1> QED BY <1>1, <1>2, <1>3, RingAssumption DEF Indices

\* The writer alone in the ring.
LEMMA WriterApart ==
    ASSUME IInv, apart',
           \/ push_begin \/ push_head \/ push_full \/ push_load_tail \/ push_store_tail
           \/ push_put \/ push_room \/ push_load_length \/ push_store_length
    PROVE  (~Pushing' \/ ~Popping') /\ ReaderInv' /\ WriterInv'
<1> USE RingAssumption
<1>0. /\ pipe.head \in Indices /\ pipe.tail \in Indices /\ pipe.length \in 0 .. PIPE_SIZE
      /\ pipe.items \in [Indices -> Chars] /\ Len(got) \in Nat /\ sent \in Nat
      /\ pipe \in [items : [Indices -> Chars], head : Indices, tail : Indices,
                   length : 0 .. PIPE_SIZE]
      /\ 0 \in Indices
    BY DEF IInv, TypeInv, Indices
<1>1. apart /\ UNCHANGED <<rd, got>> /\ rd.at = "spin"
  <2>1. apart /\ UNCHANGED <<rd, got>>
    BY DEF push_begin, push_head, push_full, push_load_tail, push_store_tail, push_put,
       push_room, push_load_length, push_store_length, Write, Meet
  <2>2. CASE push_begin
    <3>1. apart' = (apart /\ ~Popping)
        BY <2>2 DEF push_begin, Meet
    <3>2. ~Popping
        BY <3>1
    <3> QED BY <2>1, <3>2 DEF Popping
  <2>3. CASE ~push_begin
    <3>1. Pushing
        BY <2>3 DEF push_head, push_full, push_load_tail, push_store_tail, push_put,
           push_room, push_load_length, push_store_length, Write, Pushing
    <3> QED BY <2>1, <3>1 DEF IInv, ApartInv, Popping
  <2> QED BY <2>1, <2>2, <2>3
<1>2. ReaderInv /\ WriterInv
    BY <1>1 DEF IInv, ApartInv
<1>3. ~Popping'
    BY <1>1 DEF Popping
<1>4. \A n \in 1 .. Len(got') : got'[n] = n
    BY <1>1, <1>2 DEF ReaderInv
\* No access but the last leaves the reader anything to look at.
<1>5. ASSUME wr'.at # "idle" PROVE ReaderInv'
    BY <1>1, <1>4, <1>5 DEF ReaderInv, Pushing
<1>6. CASE push_begin
  <2>1. ~Pushing /\ sent' = sent + 1 /\ pipe' = pipe
        /\ wr'.at = IF pipe.length # 0 THEN "head" ELSE "put"
    BY <1>6 DEF push_begin, Write, Pushing
  <2>2. Full(pipe, Len(got), pipe.length)
    BY <1>1, <1>2, <2>1 DEF ReaderInv
  <2>3. Before(pipe, pipe.length)'
    BY <1>0, <1>1, <2>1, <2>2 DEF Full, Before, Holds, Cell
  <2>4. pipe.length = 0 => pipe.head = Cell(pipe, pipe.length)
    BY <1>0, <2>2, CellNext DEF Full, Linked
  <2>5. WriterInv'
    BY <1>0, <1>1, <2>1, <2>2, <2>3, <2>4 DEF WriterInv, Full, Linked, Cell, Before, Holds
  <2> QED BY <1>3, <1>5, <2>1, <2>5
<1>7. CASE push_head
  <2>1. /\ wr.at = "head" /\ wr'.at = "full" /\ sent' = sent
        /\ pipe'.head = (pipe.head + 1) % PIPE_SIZE
        /\ pipe'.items = pipe.items /\ pipe'.tail = pipe.tail /\ pipe'.length = pipe.length
    BY <1>0, <1>7 DEF push_head, Write
  <2>2. pipe.length # 0 /\ Before(pipe, pipe.length) /\ Linked(pipe, pipe.length)
    BY <1>2, <2>1 DEF WriterInv
  <2>3. pipe.length - 1 \in Indices /\ pipe.head = Cell(pipe, pipe.length - 1)
    BY <1>0, <2>2 DEF Linked, Indices
  <2>4. pipe'.head = Cell(pipe, pipe.length) /\ Cell(pipe, PIPE_SIZE) = pipe.tail
    <3>1. (Cell(pipe, pipe.length - 1) + 1) % PIPE_SIZE = Cell(pipe, (pipe.length - 1) + 1)
        BY <1>0, <2>3, CellNext
    <3>2. (pipe.length - 1) + 1 = pipe.length
        BY <1>0
    <3> QED BY <1>0, <2>1, <2>3, <3>1, <3>2, CellNext
  <2>5. WriterInv'
    BY <1>1, <2>1, <2>2, <2>4 DEF WriterInv, Before, Holds, Cell
  <2> QED BY <1>3, <1>5, <2>1, <2>5
<1>8. CASE push_full
  <2>1. /\ wr.at = "full" /\ UNCHANGED <<pipe, sent>> /\ pipe.head # pipe.tail /\ wr'.at = "put"
    BY <1>8 DEF push_full, Write, Meet
  <2>2. WriterInv'
    BY <1>0, <1>1, <1>2, <2>1 DEF WriterInv, Before, Holds, Cell
  <2> QED BY <1>3, <1>5, <2>1, <2>2
<1>9. CASE push_load_tail \/ push_store_tail
    BY <1>2, <1>9 DEF WriterInv, push_load_tail, push_store_tail, Write
<1>10. CASE push_put
  <2>1. /\ wr.at = "put" /\ wr'.at = "room" /\ sent' = sent
        /\ pipe'.items = [pipe.items EXCEPT ![pipe.head] = sent]
        /\ pipe'.head = pipe.head /\ pipe'.tail = pipe.tail /\ pipe'.length = pipe.length
    BY <1>0, <1>10 DEF push_put, Write
  <2>2. /\ Before(pipe, pipe.length) /\ pipe.length < PIPE_SIZE
        /\ pipe.head = Cell(pipe, pipe.length)
    BY <1>2, <2>1 DEF WriterInv
  <2>3. pipe.length \in Indices /\ sent = Len(got) + pipe.length + 1
        /\ Holds(pipe, Len(got), pipe.length)
    BY <1>0, <2>2 DEF Before, Indices
  <2>4. Holds(pipe', Len(got), pipe.length + 1)
    BY <1>0, <2>1, <2>2, <2>3, PutHolds
  <2>5. Linked(pipe', pipe.length + 1)
    <3>1. pipe'.head = Cell(pipe', pipe.length)
        BY <2>1, <2>2 DEF Cell
    <3>2. (pipe.length + 1) - 1 = pipe.length /\ pipe.length + 1 # 0
        BY <1>0
    <3> QED BY <3>1, <3>2 DEF Linked
  <2>6. Full(pipe, Len(got), pipe.length + 1)'
    BY <1>0, <1>1, <2>1, <2>2, <2>3, <2>4, <2>5 DEF Full, Holds, Linked, Cell
  <2>7. WriterInv'
    BY <1>1, <2>1, <2>2, <2>6 DEF WriterInv
  <2> QED BY <1>3, <1>5, <2>1, <2>7
<1>11. CASE push_room
  <2>1. wr.at = "room" /\ UNCHANGED <<pipe, sent>> /\ wr'.at = "load_length"
    BY <1>2, <1>11 DEF WriterInv, push_room, Write
  <2>2. WriterInv'
    BY <1>1, <1>2, <2>1 DEF WriterInv, Full, Holds, Linked, Cell
  <2> QED BY <1>3, <1>5, <2>1, <2>2
<1>12. CASE push_load_length
  <2>1. /\ wr.at = "load_length" /\ UNCHANGED <<pipe, sent>> /\ wr'.at = "store_length"
        /\ wr'.l = pipe.length
    BY <1>12 DEF push_load_length, Write
  <2>2. WriterInv'
    BY <1>1, <1>2, <2>1 DEF WriterInv, Full, Holds, Linked, Cell
  <2> QED BY <1>3, <1>5, <2>1, <2>2
<1>13. CASE push_store_length
  <2>1. /\ wr.at = "store_length" /\ wr'.at = "idle" /\ sent' = sent
        /\ pipe'.items = pipe.items /\ pipe'.head = pipe.head /\ pipe'.tail = pipe.tail
        /\ pipe'.length = wr.l + 1
    BY <1>0, <1>13 DEF push_store_length, Write
  <2>2. Full(pipe, Len(got), pipe.length + 1) /\ wr.l = pipe.length
    BY <1>2, <2>1 DEF WriterInv
  <2>3. Full(pipe, Len(got), pipe.length)'
    BY <1>1, <2>1, <2>2 DEF Full, Holds, Linked, Cell
  <2>4. ReaderInv' /\ WriterInv'
    BY <1>1, <1>4, <2>1, <2>3 DEF ReaderInv, WriterInv
  <2> QED BY <1>3, <2>4
<1> QED BY <1>6, <1>7, <1>8, <1>9, <1>10, <1>11, <1>12, <1>13

\* A handler writes a character in one step.
LEMMA HandlerIInv == ASSUME IInv, handler_write PROVE IInv'
<1> USE RingAssumption
<1> DEFINE h == (pipe.head + 1) % PIPE_SIZE
           m == IF pipe.length = 0 THEN pipe
                ELSE [pipe EXCEPT !.head = h,
                                  !.tail = IF h = pipe.tail THEN (pipe.tail + 1) % PIPE_SIZE
                                           ELSE pipe.tail]
<1>0. /\ pipe.head \in Indices /\ pipe.tail \in Indices /\ pipe.length \in 0 .. PIPE_SIZE
      /\ pipe.items \in [Indices -> Chars] /\ Len(got) \in Nat /\ sent \in Nat
      /\ pipe \in [items : [Indices -> Chars], head : Indices, tail : Indices,
                   length : 0 .. PIPE_SIZE]
      /\ 0 \in Indices /\ pipe.head \in Nat /\ pipe.tail \in Nat
    BY DEF IInv, TypeInv, Indices
<1>1. /\ ~Pushing /\ sent' = sent + 1 /\ UNCHANGED <<wr, rd, got>>
      /\ apart' = (apart /\ ~(Popping \/ ~Fits(pipe, <<sent'>>)))
      /\ pipe' = [m EXCEPT !.items[m.head] = sent + 1,
                           !.length = IF m.length < PIPE_SIZE THEN m.length + 1 ELSE m.length]
    BY DEF handler_write, Meet, Pushed, Advanced
<1>2. h \in Indices /\ (pipe.tail + 1) % PIPE_SIZE \in Indices
    BY <1>0, Succ
<1>3. /\ m \in [items : [Indices -> Chars], head : Indices, tail : Indices,
                length : 0 .. PIPE_SIZE]
      /\ m.items = pipe.items /\ m.length = pipe.length
      /\ m.head = IF pipe.length = 0 THEN pipe.head ELSE h
      /\ m.tail = IF pipe.length # 0 /\ h = pipe.tail THEN (pipe.tail + 1) % PIPE_SIZE
                  ELSE pipe.tail
  <2> HIDE DEF h
  <2> QED BY <1>0, <1>2
<1> HIDE DEF h, m
<1>4. /\ pipe' \in [items : [Indices -> Chars], head : Indices, tail : Indices,
                    length : 0 .. PIPE_SIZE]
      /\ pipe'.items = [pipe.items EXCEPT ![m.head] = sent + 1]
      /\ pipe'.head = m.head /\ pipe'.tail = m.tail
      /\ pipe'.length = IF pipe.length < PIPE_SIZE THEN pipe.length + 1 ELSE pipe.length
  <2> DEFINE items == [m.items EXCEPT ![m.head] = sent + 1]
             length == IF m.length < PIPE_SIZE THEN m.length + 1 ELSE m.length
  <2>1. items \in [Indices -> Chars] /\ items = [pipe.items EXCEPT ![m.head] = sent + 1]
    BY <1>0, <1>3 DEF Chars
  <2>2. /\ length \in 0 .. PIPE_SIZE
        /\ length = IF pipe.length < PIPE_SIZE THEN pipe.length + 1 ELSE pipe.length
    BY <1>0, <1>3
  <2>3. pipe' = [m EXCEPT !.items = items, !.length = length]
    BY <1>1
  <2> HIDE DEF items, length
  <2> QED BY <1>3, <2>1, <2>2, <2>3
<1>5. TypeInv' /\ LengthInv'
  <2>1. apart' \in BOOLEAN
    BY <1>1
  <2>2. TypeInv'
    BY <1>0, <1>1, <1>4, <2>1 DEF IInv, TypeInv
  <2>3. LengthInv'
    BY <1>0, <1>1, <1>4 DEF IInv, LengthInv, Pushing
  <2> QED BY <2>2, <2>3
<1>6. ASSUME apart' PROVE (~Pushing' \/ ~Popping') /\ ReaderInv' /\ WriterInv'
  <2>1. apart /\ ~Popping /\ Fits(pipe, <<sent'>>)
    BY <1>1, <1>6
  <2>2. pipe.length < PIPE_SIZE /\ pipe.length \in Indices
    BY <1>0, <2>1 DEF Fits, Indices
  <2>3. ReaderInv /\ Full(pipe, Len(got), pipe.length) /\ rd.at = "spin"
    BY <1>1, <2>1 DEF IInv, ApartInv, ReaderInv, Popping
  \* There is room, so the head moves to the next cell and not onto the tail.
  <2>4. m.head = Cell(pipe, pipe.length) /\ m.tail = pipe.tail
    <3>1. CASE pipe.length = 0
        BY <1>0, <1>3, <2>3, <3>1, CellNext DEF Full, Linked
    <3>2. CASE pipe.length # 0
      <4>1. pipe.length - 1 \in Indices /\ pipe.head = Cell(pipe, pipe.length - 1)
        BY <1>0, <2>2, <2>3, <3>2 DEF Full, Linked, Indices
      <4>2. h = Cell(pipe, (pipe.length - 1) + 1) /\ (pipe.length - 1) + 1 = pipe.length
        <5>1. (Cell(pipe, pipe.length - 1) + 1) % PIPE_SIZE = Cell(pipe, (pipe.length - 1) + 1)
            BY <1>0, <4>1, CellNext
        <5> QED BY <1>0, <4>1, <5>1 DEF h
      <4>3. Cell(pipe, pipe.length) # Cell(pipe, 0) /\ Cell(pipe, 0) = pipe.tail
        BY <1>0, <2>2, <3>2, CellApart, CellNext
      <4> QED BY <1>3, <3>2, <4>2, <4>3
    <3> QED BY <3>1, <3>2
  <2>5. Holds(pipe, Len(got), pipe.length) /\ sent + 1 = Len(got) + pipe.length + 1
    BY <1>0, <2>3 DEF Full
  <2>6. Holds(pipe', Len(got), pipe.length + 1)
    BY <1>0, <1>4, <2>2, <2>4, <2>5, PutHolds
  <2>7. Linked(pipe', pipe.length + 1)
    <3>1. pipe'.head = Cell(pipe', pipe.length)
        BY <1>4, <2>4 DEF Cell
    <3>2. (pipe.length + 1) - 1 = pipe.length /\ pipe.length + 1 # 0
        BY <1>0
    <3> QED BY <3>1, <3>2 DEF Linked
  <2>8. pipe'.length = pipe.length + 1 /\ pipe.length + 1 \in 0 .. PIPE_SIZE
    BY <1>0, <1>4, <2>2
  <2>9. Full(pipe, Len(got), pipe.length)'
    BY <1>0, <1>1, <2>5, <2>6, <2>7, <2>8 DEF Full, Holds, Linked, Cell
  <2>10. ReaderInv' /\ WriterInv'
    BY <1>1, <2>3, <2>9 DEF ReaderInv, WriterInv, Pushing
  <2> QED BY <1>1, <2>1, <2>10 DEF Pushing
<1> QED BY <1>5, <1>6 DEF IInv, ApartInv

\* The reader alone in the ring.
LEMMA ReaderApart ==
    ASSUME IInv, apart',
           \/ read_unsafe \/ pop_load_length \/ pop_store_length \/ pop_item \/ pop_test
           \/ pop_load_tail \/ pop_store_tail \/ pop_done
    PROVE  (~Pushing' \/ ~Popping') /\ ReaderInv' /\ WriterInv'
<1> USE RingAssumption
<1>0. /\ pipe.head \in Indices /\ pipe.tail \in Indices /\ pipe.length \in 0 .. PIPE_SIZE
      /\ pipe.items \in [Indices -> Chars] /\ Len(got) \in Nat /\ sent \in Nat
      /\ pipe \in [items : [Indices -> Chars], head : Indices, tail : Indices,
                   length : 0 .. PIPE_SIZE]
      /\ got \in Seq(Chars) /\ rd.c \in Chars
    BY DEF IInv, TypeInv, Indices
<1>1. apart /\ UNCHANGED <<wr, sent>> /\ wr.at = "idle"
  <2>1. apart /\ UNCHANGED <<wr, sent>>
    BY DEF read_unsafe, pop_load_length, pop_store_length, pop_item, pop_test,
       pop_load_tail, pop_store_tail, pop_done, Read, Meet
  <2>2. CASE read_unsafe
    <3>1. apart' = (apart /\ ~Pushing)
        BY <2>2 DEF read_unsafe, Meet
    <3>2. ~Pushing
        BY <3>1
    <3> QED BY <2>1, <3>2 DEF Pushing
  <2>3. CASE ~read_unsafe
    <3>1. Popping
        BY <2>3 DEF pop_load_length, pop_store_length, pop_item, pop_test,
           pop_load_tail, pop_store_tail, pop_done, Read, Popping
    <3> QED BY <2>1, <3>1 DEF IInv, ApartInv, Pushing
  <2> QED BY <2>1, <2>2, <2>3
<1>2. ReaderInv
    BY <1>1 DEF IInv, ApartInv
<1>3. ~Pushing /\ ~Pushing' /\ WriterInv'
    BY <1>1 DEF Pushing, WriterInv
<1>4. \A n \in 1 .. Len(got) : got[n] = n
    BY <1>2 DEF ReaderInv
<1>6. CASE read_unsafe
  <2>1. rd.at = "spin" /\ rd'.at = "load_length" /\ UNCHANGED <<pipe, got>>
    BY <1>6 DEF read_unsafe, Read
  <2>2. ReaderInv'
    BY <1>1, <1>2, <1>3, <2>1 DEF ReaderInv, Full, Holds, Linked, Cell
  <2> QED BY <1>3, <2>2
<1>7. CASE pop_load_length
  <2>1. /\ rd.at = "load_length" /\ rd'.at = "store_length" /\ UNCHANGED <<pipe, got>>
        /\ rd'.l = pipe.length
    BY <1>7 DEF pop_load_length, Read
  <2>2. ReaderInv'
    BY <1>1, <1>2, <1>3, <2>1 DEF ReaderInv, Full, Holds, Linked, Cell
  <2> QED BY <1>3, <2>2
<1>8. CASE pop_store_length
  <2>1. /\ rd.at = "store_length" /\ rd'.at = "item" /\ got' = got
        /\ pipe'.items = pipe.items /\ pipe'.head = pipe.head /\ pipe'.tail = pipe.tail
        /\ pipe'.length = rd.l - 1
    BY <1>0, <1>8 DEF pop_store_length, Read
  <2>2. Full(pipe, Len(got), pipe.length) /\ rd.l = pipe.length
    BY <1>2, <1>3, <2>1 DEF ReaderInv
  <2>3. pipe'.length + 1 = pipe.length
    BY <1>0, <2>1, <2>2
  <2>4. Full(pipe, Len(got), pipe.length + 1)'
    BY <1>1, <2>1, <2>2, <2>3 DEF Full, Holds, Linked, Cell
  <2>5. ReaderInv'
    BY <1>4, <2>1, <2>4 DEF ReaderInv
  <2> QED BY <1>3, <2>5
<1>9. CASE pop_item
  <2>1. /\ rd.at = "item" /\ rd'.at = "test" /\ UNCHANGED <<pipe, got>>
        /\ rd'.c = pipe.items[pipe.tail]
    BY <1>9 DEF pop_item, Read, Oldest
  <2>2. Full(pipe, Len(got), pipe.length + 1)
    BY <1>2, <2>1 DEF ReaderInv
  <2>3. pipe.items[Cell(pipe, 0)] = Len(got) + 0 + 1 /\ Cell(pipe, 0) = pipe.tail
    <3>1. 0 \in 0 .. (pipe.length + 1) - 1 /\ 0 \in Indices
        BY <1>0 DEF Indices
    <3> QED BY <1>0, <2>2, <3>1, CellNext DEF Full, Holds
  <2>4. rd'.c = Len(got) + 1
    BY <1>0, <2>1, <2>3
  <2>5. Full(pipe, Len(got), pipe.length + 1)'
    BY <1>1, <2>1, <2>2 DEF Full, Holds, Linked, Cell
  <2>6. ReaderInv'
    BY <1>4, <2>1, <2>4, <2>5 DEF ReaderInv
  <2> QED BY <1>3, <2>6
<1>10. CASE pop_test
  <2>1. /\ rd.at = "test" /\ UNCHANGED <<pipe, got>> /\ rd'.c = rd.c
        /\ rd'.at = IF pipe.length # 0 THEN "load_tail" ELSE "done"
    BY <1>10 DEF pop_test, Read
  <2>2. Full(pipe, Len(got), pipe.length + 1) /\ rd.c = Len(got) + 1
    BY <1>2, <2>1 DEF ReaderInv
  <2>3. CASE pipe.length # 0
    <3>1. Full(pipe, Len(got), pipe.length + 1)'
        BY <1>1, <2>1, <2>2 DEF Full, Holds, Linked, Cell
    <3>2. ReaderInv'
        BY <1>4, <2>1, <2>2, <2>3, <3>1 DEF ReaderInv
    <3> QED BY <1>3, <3>2
  \* The one character stays in the ring, but head and tail are on it.
  <2>4. CASE pipe.length = 0
    <3>1. Linked(pipe, 0)
        <4>1. 0 \in Indices /\ (pipe.length + 1) - 1 = 0 /\ pipe.length + 1 # 0
            BY <1>0, <2>4 DEF Indices
        <4>2. pipe.head = Cell(pipe, 0)
            BY <2>2, <4>1 DEF Full, Linked
        <4> QED BY <1>0, <4>1, <4>2, CellNext DEF Linked
    <3>2. Full(pipe, Len(got) + 1, pipe.length)
        BY <1>0, <2>2, <2>4, <3>1 DEF Full, Holds
    <3>3. Full(pipe, Len(got) + 1, pipe.length)'
        BY <1>1, <2>1, <3>2 DEF Full, Holds, Linked, Cell
    <3>4. ReaderInv'
        BY <1>4, <2>1, <2>2, <2>4, <3>3 DEF ReaderInv
    <3> QED BY <1>3, <3>4
  <2> QED BY <2>3, <2>4
<1>11. CASE pop_load_tail
  <2>1. /\ rd.at = "load_tail" /\ rd'.at = "store_tail" /\ UNCHANGED <<pipe, got>>
        /\ rd'.c = rd.c /\ rd'.l = pipe.tail
    BY <1>11 DEF pop_load_tail, Read
  <2>2. ReaderInv'
    BY <1>1, <1>2, <1>3, <2>1 DEF ReaderInv, Full, Holds, Linked, Cell
  <2> QED BY <1>3, <2>2
<1>12. CASE pop_store_tail
  <2>1. /\ rd.at = "store_tail" /\ rd'.at = "done" /\ got' = got /\ rd'.c = rd.c
        /\ pipe'.items = pipe.items /\ pipe'.head = pipe.head /\ pipe'.length = pipe.length
        /\ pipe'.tail = (rd.l + 1) % PIPE_SIZE
    BY <1>0, <1>12 DEF pop_store_tail, Read
  <2>2. /\ Full(pipe, Len(got), pipe.length + 1) /\ rd.c = Len(got) + 1 /\ rd.l = pipe.tail
        /\ pipe.length # 0
    BY <1>2, <2>1 DEF ReaderInv
  <2>3. /\ pipe.length \in Indices /\ pipe.length - 1 \in Indices
        /\ pipe.length + 1 # 0 /\ (pipe.length + 1) - 1 = pipe.length
        /\ (pipe.length - 1) + 1 = pipe.length /\ pipe.length # 0
    <3>1. pipe.length + 1 \in 0 .. PIPE_SIZE
        BY <2>2 DEF Full
    <3> QED BY <1>0, <2>2, <3>1 DEF Indices
  <2>4. Holds(pipe', Len(got) + 1, pipe.length)
    BY <1>0, <2>1, <2>2, <2>3, TakeHolds DEF Full
  <2>5. Linked(pipe', pipe.length)
    <3>1. pipe.head = Cell(pipe, pipe.length)
        BY <2>2, <2>3 DEF Full, Linked
    <3>2. Cell(pipe', pipe.length - 1) = Cell(pipe, (pipe.length - 1) + 1)
        BY <1>0, <2>1, <2>2, <2>3, CellShift
    <3> QED BY <2>1, <2>3, <3>1, <3>2 DEF Linked
  <2>6. Full(pipe, Len(got) + 1, pipe.length)'
    <3>1. (Len(got) + 1) + pipe.length = sent /\ pipe.length \in 0 .. PIPE_SIZE
        BY <1>0, <2>2 DEF Full
    <3> QED BY <1>1, <2>1, <2>4, <2>5, <3>1 DEF Full, Holds, Linked, Cell
  <2>7. ReaderInv'
    BY <1>4, <2>1, <2>2, <2>6 DEF ReaderInv
  <2> QED BY <1>3, <2>7
<1>13. CASE pop_done
  <2>1. rd.at = "done" /\ rd'.at = "spin" /\ pipe' = pipe /\ got' = Append(got, rd.c)
    BY <1>13 DEF pop_done, Read
  <2>2. rd.c = Len(got) + 1 /\ Full(pipe, Len(got) + 1, pipe.length)
    BY <1>2, <2>1 DEF ReaderInv
  <2>3. Len(got') = Len(got) + 1
    BY <1>0, <2>1
  <2>4. ASSUME NEW n \in 1 .. Len(got) + 1 PROVE got'[n] = n
    BY <1>0, <1>4, <2>1, <2>2
  <2>5. Full(pipe, Len(got), pipe.length)'
    BY <1>1, <2>1, <2>2, <2>3 DEF Full, Holds, Linked, Cell
  <2>6. ReaderInv'
    BY <2>1, <2>3, <2>4, <2>5 DEF ReaderInv
  <2> QED BY <1>3, <2>6
<1> QED BY <1>6, <1>7, <1>8, <1>9, <1>10, <1>11, <1>12, <1>13

-----------------------------------------------------------------------------
LEMMA InitIInv == ring_init => IInv
<1> SUFFICES ASSUME ring_init PROVE IInv
    OBVIOUS
<1> USE RingAssumption
<1>1. 0 \in Indices /\ 0 \in 0 .. PIPE_SIZE /\ NUL \in Chars /\ got = <<>> /\ Len(got) = 0
      /\ pipe.length = 0 /\ pipe.head = 0 /\ pipe.tail = 0 /\ sent = 0 /\ apart = TRUE
      /\ wr = [at |-> "idle", l |-> 0] /\ rd = [at |-> "spin", l |-> 0, c |-> NUL]
    BY DEF ring_init, EmptyPipe, Indices, Chars
<1>2. TypeInv
  <2>1. pipe \in [items : [Indices -> Chars], head : Indices, tail : Indices,
                  length : 0 .. PIPE_SIZE]
    BY <1>1 DEF ring_init, EmptyPipe
  <2>2. got \in Seq(Chars)
    BY <1>1
  <2> QED BY <1>1, <2>1, <2>2 DEF TypeInv
<1>3. LengthInv
    BY <1>1 DEF LengthInv
<1>4. Full(pipe, Len(got), pipe.length)
    BY <1>1 DEF Full, Holds, Linked
<1>5. ReaderInv
    BY <1>1, <1>4 DEF ReaderInv
<1>6. WriterInv /\ ~Pushing
    BY <1>1 DEF WriterInv, Pushing
<1> QED BY <1>2, <1>3, <1>5, <1>6 DEF IInv, ApartInv

LEMMA NextIInv == IInv /\ [ring_next]_ring_vars => IInv'
<1> SUFFICES ASSUME IInv, [ring_next]_ring_vars PROVE IInv'
    OBVIOUS
<1>1. CASE \/ push_begin \/ push_head \/ push_full \/ push_load_tail \/ push_store_tail
           \/ push_put \/ push_room \/ push_load_length \/ push_store_length
  <2>1. TypeInv' /\ LengthInv'
    BY <1>1, WriterTypes DEF IInv
  <2>2. ASSUME apart' PROVE (~Pushing' \/ ~Popping') /\ ReaderInv' /\ WriterInv'
    BY <1>1, <2>2, WriterApart
  <2> QED BY <2>1, <2>2 DEF IInv, ApartInv
<1>2. CASE handler_write
    BY <1>2, HandlerIInv
<1>3. CASE \/ read_unsafe \/ pop_load_length \/ pop_store_length \/ pop_item \/ pop_test
           \/ pop_load_tail \/ pop_store_tail \/ pop_done
  <2>1. TypeInv' /\ LengthInv'
    BY <1>3, ReaderTypes DEF IInv
  <2>2. ASSUME apart' PROVE (~Pushing' \/ ~Popping') /\ ReaderInv' /\ WriterInv'
    BY <1>3, <2>2, ReaderApart
  <2> QED BY <2>1, <2>2 DEF IInv, ApartInv
<1>4. CASE UNCHANGED ring_vars
    BY <1>4 DEF ring_vars, IInv, TypeInv, LengthInv, ApartInv, ReaderInv, WriterInv, Pushing,
       Popping, Full, Before, Holds, Linked, Cell
<1> QED BY <1>1, <1>2, <1>3, <1>4 DEF ring_next

LEMMA SpecIInv == ring_spec => []IInv
    BY InitIInv, NextIInv, PTL DEF ring_spec

\* What was read, followed by what the ring holds, is what was written.
LEMMA IInvPipeSafe == IInv => PipeSafe
<1> SUFFICES ASSUME IInv PROVE PipeSafe
    OBVIOUS
<1> USE RingAssumption
<1>0. /\ pipe.head \in Indices /\ pipe.tail \in Indices /\ pipe.length \in 0 .. PIPE_SIZE
      /\ pipe.items \in [Indices -> Chars] /\ Len(got) \in Nat /\ sent \in Nat
      /\ got \in Seq(Chars)
    BY DEF IInv, TypeInv
<1>1. ASSUME apart PROVE \A n \in 1 .. Len(got) : got[n] = n
    BY <1>1 DEF IInv, ApartInv, ReaderInv
<1>2. ASSUME apart, ~Popping, ~Pushing
      PROVE  got \o Stored(pipe) = [n \in 1 .. sent |-> n]
  <2>1. Full(pipe, Len(got), pipe.length)
    BY <1>2 DEF IInv, ApartInv, ReaderInv, Popping
  <2>2. Len(got) + pipe.length = sent /\ Holds(pipe, Len(got), pipe.length)
    BY <2>1 DEF Full
  <2>3. ASSUME NEW n \in 1 .. pipe.length PROVE Stored(pipe)[n] = Len(got) + n
    <3>1. n - 1 \in 0 .. pipe.length - 1 /\ (n - 1) + 1 = n /\ n \in 1 .. pipe.length
        BY <1>0
    <3>2. pipe.items[Cell(pipe, n - 1)] = Len(got) + (n - 1) + 1
        BY <2>2, <3>1 DEF Holds
    <3>3. Cell(pipe, n - 1) = (pipe.tail + n - 1) % PIPE_SIZE
        <4>1. pipe.tail + (n - 1) = pipe.tail + n - 1
            BY <1>0, <3>1 DEF Indices
        <4> QED BY <4>1 DEF Cell
    <3>4. Stored(pipe)[n] = pipe.items[(pipe.tail + n - 1) % PIPE_SIZE]
        BY <3>1 DEF Stored
    <3>5. Len(got) + (n - 1) + 1 = Len(got) + n
        BY <1>0, <3>1
    <3> QED BY <3>2, <3>3, <3>4, <3>5
  <2>4. Stored(pipe) \in Seq(Chars) /\ Len(Stored(pipe)) = pipe.length
    <3>1. \A n \in 1 .. pipe.length : Stored(pipe)[n] \in Chars
        BY <1>0, <2>3 DEF Chars
    <3>2. Stored(pipe) \in [1 .. pipe.length -> Chars]
        BY <3>1 DEF Stored
    <3>3. Stored(pipe) \in Seq(Chars)
        BY <1>0, <3>2, SeqDef
    <3>4. 1 .. Len(Stored(pipe)) = 1 .. pipe.length /\ Len(Stored(pipe)) \in Nat
        BY <3>2, <3>3, LenProperties
    <3> QED BY <1>0, <3>3, <3>4
  <2> DEFINE all == got \o Stored(pipe)
  <2>5. all \in Seq(Chars) /\ Len(all) = sent
        /\ \A n \in 1 .. Len(got) + pipe.length :
               all[n] = IF n <= Len(got) THEN got[n] ELSE Stored(pipe)[n - Len(got)]
    BY <1>0, <2>2, <2>4, ConcatProperties
  <2> HIDE DEF all
  <2>6. ASSUME NEW n \in 1 .. sent PROVE all[n] = n
    <3>1. CASE n \in 1 .. Len(got)
        BY <1>0, <1>1, <1>2, <2>2, <2>5, <3>1
    <3>2. CASE n \notin 1 .. Len(got)
      <4>1. n - Len(got) \in 1 .. pipe.length /\ Len(got) + (n - Len(got)) = n
        BY <1>0, <2>2, <3>2
      <4>2. all[n] = Stored(pipe)[n - Len(got)]
        BY SMTT(30), <1>0, <2>2, <2>5, <3>2
      <4> QED BY <2>3, <4>1, <4>2
    <3> QED BY <3>1, <3>2
  <2>7. all = [n \in 1 .. sent |-> all[n]]
    BY <1>0, <2>5, LenProperties
  <2> QED BY <2>6, <2>7 DEF all
<1> QED BY <1>0, <1>1, <1>2 DEF PipeSafe

\* A pipe of any size, written and read one access at a time: head, tail and
\* length stay within the ring whatever the interleaving, and as long as the
\* reader and the writer do not meet and the ring does not overflow the
\* characters come out in order, each once.
THEOREM RingPipeSafe == ring_spec => []PipeSafe
    BY SpecIInv, IInvPipeSafe, PTL

-----------------------------------------------------------------------------
(***************************************************************************)
(* The console, for every screen, pipe, line buffer and set of texts.      *)
(***************************************************************************)

\* The characters that are typed, printed and shown.
Glyphs == STRING \cup {BS, NL, CR, NUL, Blank}
Texts == Seq(Glyphs)

Pipes == [items : [Indices -> Glyphs], head : Indices, tail : Indices, length : 0 .. PIPE_SIZE]
Screens == [buffer : [Cells -> Glyphs], col : 0 .. col_max - 1, row : 0 .. row_max - 1]

\* The head of a pipe is on its newest character, or on the tail.
PipeOK(q) == q \in Pipes /\ Linked(q, q.length)

\* How far a push or a pop is.  The length that it has loaded can be raised,
\* or lowered: only a pop lowers the length and only a push raises it.
Pushes == {NoPush} \cup [at : {"put"}, l : {0}] \cup [at : {"raise"}, l : 0 .. PIPE_SIZE - 1]
Pops == {NoPop} \cup [at : {"lower"}, l : 1 .. PIPE_SIZE, c : {NUL}]
        \cup [at : {"item"}, l : {0}, c : {NUL}] \cup [at : {"tail"}, l : {0}, c : Glyphs]

ConsoleTypes ==
    /\ script \in Seq(Nat) /\ kbd \in Seq(Nat)
    /\ inpipe \in Pipes /\ outpipe \in Pipes
    /\ outpush \in Pushes /\ inpop \in Pops /\ outpop \in Pops
    /\ spinlock \in {"free", "shell"}
    /\ shell \in [at : {"run", "write", "wait", "dead", "hung"}, line : Texts,
                  entered : BOOLEAN, nul : BOOLEAN, todo : Texts]
    /\ screen \in Screens
    /\ clean \in BOOLEAN

\* The line has room for one more character until it is entered.
LineRoom ==
    /\ Len(shell.line) < LINE
    /\ ~shell.entered => Len(shell.line) + 1 < LINE
    /\ shell.at = "write" => shell.todo # <<>>
    /\ outpush # NoPush => shell.at = "write"
    /\ shell.at = "wait" => shell.todo = <<>> /\ ~shell.entered

\* The place of the cursor, nothing but blanks from there on, and the text
\* that ends there.
Pos(s) == col_max * s.row + s.col
Tidy(s) == \A n \in Cells : n >= Pos(s) => s.buffer[n] = Blank
Shows(s, text) ==
    /\ Len(text) <= Pos(s)
    /\ \A n \in 1 .. Len(text) : s.buffer[Pos(s) - Len(text) + n - 1] = text[n]

\* outpipe as if the push that is under way were done and the pop not begun,
\* and what is then still to be printed.
Out == IF outpush.at = "put"
       THEN [outpipe EXCEPT !.items[outpipe.head] = Head(shell.todo), !.length = @ + 1]
       ELSE IF outpush.at = "raise" \/ outpop.at \in {"item", "tail"}
       THEN [outpipe EXCEPT !.length = @ + 1]
       ELSE outpipe
Rest == IF outpush = NoPush THEN shell.todo ELSE Tail(shell.todo)

\* The screen as it will be when all that the shell has printed is shown.
Coming == Display(screen, Stored(Out) \o Rest)

\* Out is a sound pipe, and what push and pop have loaded is still right.
OutInv ==
    /\ outpush = NoPush \/ outpop = NoPop
    /\ PipeOK(Out)
    /\ outpush.at = "raise" => outpush.l = outpipe.length
    /\ outpop.at = "lower" => outpop.l = outpipe.length
    /\ outpop.at = "tail" => outpop.c = Oldest(outpipe)

Good == clean /\ shell.at \in {"run", "write", "wait"}

LineInv ==
    Good =>
        /\ OutInv
        /\ Tidy(Coming)
        /\ ~shell.entered /\ ~shell.nul => Shows(Coming, Prompt \o shell.line)

ConsoleInv == ConsoleTypes /\ LineRoom /\ LineInv

-----------------------------------------------------------------------------
(* The screen. *)

\* Glyphs that mean something are different.
LEMMA Signs ==
    /\ BS # NL /\ BS # CR /\ NL # CR
    /\ Blank # BS /\ Blank # NL /\ Blank # CR
    /\ NUL # BS /\ NUL # NL /\ NUL # CR /\ NUL # Blank
    BY Zenon DEF BS, NL, CR, Blank, NUL

LEMMA SignGlyphs == BS \in Glyphs /\ NL \in Glyphs /\ CR \in Glyphs /\ NUL \in Glyphs /\ Blank \in Glyphs
    BY DEF Glyphs

\* Rows of a screen, without products.
LEMMA Rows ==
    ASSUME NEW r \in 0 .. row_max - 1
    PROVE  /\ col_max * r \in Nat /\ col_max * row_max \in Nat /\ col_max * (row_max - 1) \in Nat
           /\ col_max * (r + 1) = col_max * r + col_max
           /\ col_max * r + col_max <= col_max * row_max
           /\ col_max * row_max = col_max * (row_max - 1) + col_max
           /\ r # 0 => col_max * (r - 1) = col_max * r - col_max /\ col_max * (r - 1) \in Nat
           /\ r # row_max - 1 => col_max * r + col_max + col_max <= col_max * row_max
<1>1. \A a \in Nat : \A b \in Nat : a * b \in Nat
    OBVIOUS
<1>2. \A a \in Nat : \A b \in Int : a * (b + 1) = a * b + a /\ a * (b - 1) = a * b - a
    OBVIOUS
<1>3. \A a \in Nat : \A b, c \in Nat : a * (b + c) = a * b + a * c
    OBVIOUS
<1>4. col_max \in Nat /\ row_max \in Nat /\ r \in Nat /\ row_max - 1 - r \in Nat /\ row_max - 1 \in Nat
    BY ScreenAssumption
<1>5. /\ col_max * r \in Nat /\ col_max * row_max \in Nat /\ col_max * (row_max - 1) \in Nat
      /\ col_max * (row_max - 1 - r) \in Nat
    BY <1>1, <1>4
<1>6. col_max * (r + 1) = col_max * r + col_max
    BY <1>2, <1>4
<1>7. col_max * row_max = col_max * (row_max - 1) + col_max
  <2>1. col_max * (row_max - 1) = col_max * row_max - col_max
      BY <1>2, <1>4
  <2> QED BY <2>1, <1>4, <1>5
<1>8. col_max * (row_max - 1) = col_max * r + col_max * (row_max - 1 - r)
  <2>1. r + (row_max - 1 - r) = row_max - 1
      BY <1>4
  <2> QED BY <1>3, <1>4, <2>1
<1>9. r # 0 => col_max * (r - 1) = col_max * r - col_max /\ col_max * (r - 1) \in Nat
  <2>1. r # 0 => r - 1 \in Nat
      BY <1>4
  <2> QED BY <1>1, <1>2, <1>4, <2>1
<1>10. r # row_max - 1 => col_max * (row_max - 1 - r) >= col_max
  <2>1. r # row_max - 1 => row_max - 2 - r \in Nat /\ (row_max - 2 - r) + 1 = row_max - 1 - r
      BY <1>4
  <2>2. r # row_max - 1 => col_max * (row_max - 1 - r) = col_max * (row_max - 2 - r) + col_max
                           /\ col_max * (row_max - 2 - r) \in Nat
      BY <1>1, <1>2, <1>4, <2>1
  <2> QED BY <2>2, <1>4
<1> HIDE ScreenAssumption
<1> DEFINE a == col_max * r
           b == col_max * row_max
           c == col_max * (row_max - 1)
           d == col_max * (row_max - 1 - r)
<1>11. a + col_max <= b /\ (r # row_max - 1 => a + col_max + col_max <= b)
  <2>1. a \in Nat /\ b \in Nat /\ c \in Nat /\ d \in Nat /\ b = c + col_max /\ c = a + d
        /\ (r # row_max - 1 => d >= col_max)
      BY <1>5, <1>7, <1>8, <1>10
  <2> HIDE DEF a, b, c, d
  <2> QED BY <2>1, <1>4
<1> QED BY <1>5, <1>6, <1>7, <1>9, <1>11

LEMMA PosIn ==
    ASSUME NEW s \in Screens
    PROVE  Pos(s) \in Cells /\ Pos(s) \in Nat /\ col_max * row_max \in Nat /\ Pos(s) < col_max * row_max
<1>1. s.row \in 0 .. row_max - 1 /\ s.col \in 0 .. col_max - 1
    BY DEF Screens
<1> DEFINE a == col_max * s.row
           b == col_max * row_max
<1>2. a \in Nat /\ b \in Nat /\ a + col_max <= b
    BY <1>1, Rows
<1>3. Pos(s) = a + s.col
    BY DEF Pos
<1>4. Cells = 0 .. b - 1
    BY DEF Cells
<1> HIDE DEF a, b
<1>5. Pos(s) \in 0 .. b - 1 /\ Pos(s) \in Nat /\ Pos(s) < b
    BY <1>1, <1>2, <1>3, ScreenAssumption
<1> QED BY <1>2, <1>4, <1>5 DEF b

\* One row up.
Raised(b) == [n \in Cells |-> IF n + col_max \in Cells THEN b[n + col_max] ELSE Blank]

\* What wrapping and scrolling make of a cursor that has left its row or the
\* screen.
LEMMA Scrolled ==
    ASSUME NEW b \in [Cells -> Glyphs], NEW r \in 0 .. row_max, NEW c \in 0 .. col_max - 1,
           NEW w, w = [buffer |-> b, col |-> c, row |-> r],
           NEW t, t = IF w.row >= row_max THEN [textmode_scroll(w) EXCEPT !.row = @ - 1] ELSE w
    PROVE  /\ t \in Screens
           /\ r < row_max => t = w
           /\ r = row_max => t = [buffer |-> Raised(b), col |-> c, row |-> r - 1]
<1>1. Raised(b) \in [Cells -> Glyphs]
    BY SignGlyphs DEF Raised
<1>2. textmode_scroll(w) = [buffer |-> Raised(b), col |-> c, row |-> r]
    BY DEF textmode_scroll, Raised
<1>3. row_max \in Nat /\ row_max # 0
    BY ScreenAssumption
<1>4. CASE r < row_max
  <2>1. t = w
      BY <1>4, <1>3
  <2> QED BY <2>1, <1>3, <1>4 DEF Screens
<1>5. CASE r = row_max
  <2>1. t = [buffer |-> Raised(b), col |-> c, row |-> r - 1]
      BY <1>2, <1>3, <1>5
  <2>2. r - 1 \in 0 .. row_max - 1 /\ ~(r < row_max)
      BY <1>3, <1>5
  <2>3. t \in Screens
      BY <1>1, <2>1, <2>2 DEF Screens
  <2> QED BY <2>1, <2>2, <2>3
<1> QED BY <1>3, <1>4, <1>5

LEMMA WriteBS ==
    ASSUME NEW s \in Screens
    PROVE  /\ textmode_write(s, BS) \in Screens
           /\ textmode_write(s, BS).buffer = s.buffer
           /\ Pos(textmode_write(s, BS)) = IF Pos(s) = 0 THEN 0 ELSE Pos(s) - 1
<1> DEFINE p == Put(s, BS)
           t == textmode_write(s, BS)
<1>1. s.row \in 0 .. row_max - 1 /\ s.col \in 0 .. col_max - 1 /\ s.buffer \in [Cells -> Glyphs]
      /\ s = [buffer |-> s.buffer, col |-> s.col, row |-> s.row]
    BY DEF Screens
<1>2. p = IF s.col # 0 THEN [buffer |-> s.buffer, col |-> s.col - 1, row |-> s.row]
          ELSE IF s.row # 0 THEN [buffer |-> s.buffer, col |-> col_max - 1, row |-> s.row - 1] ELSE s
  <2>1. CASE s.col # 0
    <3>1. p = [s EXCEPT !.col = @ - 1]
        BY <2>1, Signs DEF Put
    <3> QED BY <1>1, <2>1, <3>1
  <2>2. CASE s.col = 0 /\ s.row # 0
    <3>1. p = [s EXCEPT !.row = @ - 1, !.col = col_max - 1]
        BY <2>2, Signs DEF Put
    <3> QED BY <1>1, <2>2, <3>1
  <2>3. CASE s.col = 0 /\ s.row = 0
    <3>1. p = s
        BY <2>3, Signs DEF Put
    <3> QED BY <1>1, <2>3, <3>1
  <2> QED BY <2>1, <2>2, <2>3
<1>3. p \in Screens /\ p.buffer = s.buffer
    BY <1>1, <1>2, ScreenAssumption DEF Screens
<1>4. p.row < row_max /\ p.col < col_max /\ ~(p.row >= row_max) /\ ~(p.col >= col_max)
    BY <1>3, ScreenAssumption DEF Screens
<1>5. t = p
    BY <1>4 DEF textmode_write, Wrap
<1>6. Pos(p) = IF Pos(s) = 0 THEN 0 ELSE Pos(s) - 1
  <2> DEFINE a == col_max * s.row
  <2>1. a \in Nat /\ (s.row # 0 => a - col_max \in Nat) /\ (s.row = 0 => a = 0)
      /\ (s.row # 0 => col_max * (s.row - 1) = a - col_max)
      BY <1>1, Rows, ScreenAssumption
  <2>2. Pos(s) = a + s.col
      BY DEF Pos
  <2>3. Pos(p) = IF s.col # 0 THEN a + (s.col - 1)
                 ELSE IF s.row # 0 THEN a - col_max + (col_max - 1) ELSE Pos(s)
      BY <1>2, <2>1 DEF Pos
  <2> HIDE DEF a, p
  <2> QED BY <1>1, <2>1, <2>2, <2>3, ScreenAssumption
<1> QED BY <1>3, <1>5, <1>6

LEMMA WriteCR ==
    ASSUME NEW s \in Screens
    PROVE  textmode_write(s, CR) = s
<1>1. s.row \in 0 .. row_max - 1 /\ s.col \in 0 .. col_max - 1
    BY DEF Screens
<1>2. Put(s, CR) = s
    BY Signs DEF Put
<1>3. ~(s.row >= row_max) /\ ~(s.col >= col_max)
    BY <1>1, ScreenAssumption
<1> QED BY <1>2, <1>3 DEF textmode_write, Wrap

LEMMA WriteNL ==
    ASSUME NEW s \in Screens
    PROVE  /\ textmode_write(s, NL) \in Screens
           /\ \/ /\ textmode_write(s, NL).buffer = s.buffer
                 /\ Pos(textmode_write(s, NL)) > Pos(s)
              \/ /\ textmode_write(s, NL).buffer = Raised(s.buffer)
                 /\ Pos(textmode_write(s, NL)) + col_max > Pos(s)
<1> DEFINE t == textmode_write(s, NL)
           p == Put(s, NL)
<1>1. s.row \in 0 .. row_max - 1 /\ s.col \in 0 .. col_max - 1 /\ s.buffer \in [Cells -> Glyphs]
      /\ s = [buffer |-> s.buffer, col |-> s.col, row |-> s.row] /\ s.row + 1 \in 0 .. row_max
      /\ 0 \in 0 .. col_max - 1
    BY ScreenAssumption DEF Screens
<1>2. p = [buffer |-> s.buffer, col |-> 0, row |-> s.row + 1]
    BY <1>1, Signs DEF Put
<1>3. Wrap(p) = p
    BY <1>2, ScreenAssumption DEF Wrap
<1>4. t = IF p.row >= row_max THEN [textmode_scroll(p) EXCEPT !.row = @ - 1] ELSE p
    BY <1>3 DEF textmode_write
<1> HIDE DEF p, t
<1>5. /\ t \in Screens
      /\ s.row + 1 < row_max => t = p
      /\ s.row + 1 = row_max => t = [buffer |-> Raised(s.buffer), col |-> 0, row |-> s.row + 1 - 1]
    BY <1>1, <1>2, <1>4, Scrolled
<1> DEFINE a == col_max * s.row
<1>6. a \in Nat /\ col_max * (s.row + 1) = a + col_max
    BY <1>1, Rows
<1>7. Pos(s) = a + s.col
    BY DEF Pos
<1>8. CASE s.row + 1 < row_max
  <2>1. t.buffer = s.buffer /\ Pos(t) = a + col_max + 0
      BY <1>2, <1>5, <1>6, <1>8 DEF Pos
  <2> HIDE DEF a
  <2> QED BY <1>1, <1>5, <1>6, <1>7, <2>1, ScreenAssumption DEF t
<1>9. CASE s.row + 1 = row_max
  <2>1. t = [buffer |-> Raised(s.buffer), col |-> 0, row |-> s.row]
      BY <1>1, <1>5, <1>9
  <2>2. t.buffer = Raised(s.buffer) /\ Pos(t) = a + 0
      BY <2>1 DEF Pos
  <2> HIDE DEF a
  <2> QED BY <1>1, <1>5, <1>6, <1>7, <2>2, ScreenAssumption DEF t
<1> QED BY <1>1, <1>8, <1>9, ScreenAssumption

Plain == Glyphs \ {BS, NL, CR}

LEMMA WritePlain ==
    ASSUME NEW s \in Screens, NEW c \in Plain
    PROVE  LET t == textmode_write(s, c)
               b == [s.buffer EXCEPT ![Pos(s)] = c]
           IN  /\ t \in Screens
               /\ \/ t.buffer = b /\ Pos(t) = Pos(s) + 1
                  \/ /\ t.buffer = Raised(b) /\ Pos(t) = Pos(s) + 1 - col_max
                     /\ Pos(s) + 1 = col_max * row_max
<1> DEFINE t == textmode_write(s, c)
           b == [s.buffer EXCEPT ![Pos(s)] = c]
           p == Put(s, c)
           w == Wrap(p)
<1>1. s.row \in 0 .. row_max - 1 /\ s.col \in 0 .. col_max - 1 /\ s.buffer \in [Cells -> Glyphs]
      /\ s = [buffer |-> s.buffer, col |-> s.col, row |-> s.row] /\ s.row + 1 \in 0 .. row_max
      /\ 0 \in 0 .. col_max - 1 /\ s.row \in 0 .. row_max
    BY ScreenAssumption DEF Screens
<1>2. b \in [Cells -> Glyphs]
    BY <1>1 DEF Plain
<1>3. p = [buffer |-> b, col |-> s.col + 1, row |-> s.row]
  <2>1. c # BS /\ c # NL /\ c # CR
      BY DEF Plain
  <2> QED BY <1>1, <2>1 DEF Put, Pos
<1>4. t = IF w.row >= row_max THEN [textmode_scroll(w) EXCEPT !.row = @ - 1] ELSE w
    BY DEF textmode_write
<1>5. w = IF s.col + 1 >= col_max THEN [buffer |-> b, col |-> 0, row |-> s.row + 1]
          ELSE [buffer |-> b, col |-> s.col + 1, row |-> s.row]
  <2> HIDE DEF b, p
  <2>1. p.col = s.col + 1 /\ p.row = s.row
      BY <1>3
  <2>2. p \in [buffer : [Cells -> Glyphs], col : Nat, row : Nat] /\ p.buffer = b
      BY <1>1, <1>2, <1>3
  <2>3. CASE s.col + 1 >= col_max
    <3>1. w = [p EXCEPT !.col = 0, !.row = @ + 1]
        BY <2>1, <2>3 DEF Wrap
    <3> HIDE DEF w
    <3>2. w = [buffer |-> p.buffer, col |-> 0, row |-> p.row + 1]
        BY <2>2, <3>1
    <3> QED BY <2>1, <2>2, <2>3, <3>2
  <2>4. CASE ~(s.col + 1 >= col_max)
      BY <1>3, <2>1, <2>4 DEF Wrap
  <2> QED BY <2>3, <2>4
<1> DEFINE a == col_max * s.row
<1>6. a \in Nat /\ col_max * (s.row + 1) = a + col_max
    BY <1>1, Rows
<1>7. Pos(s) = a + s.col
    BY DEF Pos
<1> HIDE DEF b, p, w, t
<1>8. CASE s.col + 1 < col_max
  <2>1. w = [buffer |-> b, col |-> s.col + 1, row |-> s.row] /\ s.col + 1 \in 0 .. col_max - 1
      BY <1>1, <1>5, <1>8, ScreenAssumption
  <2>2. t \in Screens /\ t = w
      BY <1>1, <1>2, <1>4, <2>1, Scrolled, ScreenAssumption
  <2>3. t.buffer = b /\ Pos(t) = a + (s.col + 1)
      BY <2>1, <2>2 DEF Pos
  <2>4. Pos(t) = Pos(s) + 1
    <3> HIDE DEF a
    <3> QED BY <1>1, <1>6, <1>7, <2>3, ScreenAssumption
  <2> QED BY <2>2, <2>3, <2>4 DEF t, b
<1>9. CASE s.col + 1 = col_max
  <2>1. w = [buffer |-> b, col |-> 0, row |-> s.row + 1]
      BY <1>1, <1>5, <1>9, ScreenAssumption
  <2>2. /\ t \in Screens
        /\ s.row + 1 < row_max => t = w
        /\ s.row + 1 = row_max => t = [buffer |-> Raised(b), col |-> 0, row |-> s.row + 1 - 1]
      BY <1>1, <1>2, <1>4, <2>1, Scrolled
  <2>3. CASE s.row + 1 < row_max
    <3>1. t.buffer = b /\ Pos(t) = a + col_max + 0
        BY <2>1, <2>2, <2>3, <1>6 DEF Pos
    <3>2. Pos(t) = Pos(s) + 1
      <4> HIDE DEF a
      <4> QED BY <1>1, <1>6, <1>7, <1>9, <3>1, ScreenAssumption
    <3> QED BY <2>2, <3>1, <3>2 DEF t, b
  <2>4. CASE s.row + 1 = row_max
    <3>1. t = [buffer |-> Raised(b), col |-> 0, row |-> s.row]
        BY <1>1, <2>2, <2>4
    <3>2. t.buffer = Raised(b) /\ Pos(t) = a + 0 /\ col_max * row_max = a + col_max
        BY <3>1, <2>4, <1>6 DEF Pos
    <3>3. Pos(t) = Pos(s) + 1 - col_max /\ Pos(s) + 1 = a + col_max
      <4> HIDE DEF a
      <4> QED BY <1>1, <1>6, <1>7, <1>9, <3>2, ScreenAssumption
    <3> QED BY <2>2, <3>2, <3>3 DEF t, b
  <2> QED BY <1>1, <2>3, <2>4, ScreenAssumption
<1> QED BY <1>1, <1>8, <1>9, ScreenAssumption

LEMMA WriteType ==
    ASSUME NEW s \in Screens, NEW c \in Glyphs
    PROVE  textmode_write(s, c) \in Screens
<1>1. CASE c = BS
    BY <1>1, WriteBS
<1>2. CASE c = NL
    BY <1>2, WriteNL
<1>3. CASE c = CR
    BY <1>3, WriteCR
<1>4. CASE c \in Plain
    BY <1>4, WritePlain
<1> QED BY <1>1, <1>2, <1>3, <1>4 DEF Plain

\* A character other than a backspace leaves nothing behind the cursor.
LEMMA WriteTidy ==
    ASSUME NEW s \in Screens, Tidy(s), NEW c \in Glyphs, c # BS
    PROVE  Tidy(textmode_write(s, c))
<1> DEFINE t == textmode_write(s, c)
           max == col_max * row_max
<1>1. t \in Screens
    BY WriteType
<1>2. Pos(s) \in Nat /\ Pos(t) \in Nat /\ max \in Nat /\ Pos(s) \in Cells
    BY <1>1, PosIn
<1>3. Cells = 0 .. max - 1
    BY DEF Cells
<1>4. col_max \in Nat
    BY ScreenAssumption
<1>5. \A n \in Cells : n >= Pos(s) => s.buffer[n] = Blank
    BY DEF Tidy
<1>6. s.buffer \in [Cells -> Glyphs]
    BY DEF Screens
<1>7. CASE c = NL
  <2>1. \/ t.buffer = s.buffer /\ Pos(t) > Pos(s)
        \/ t.buffer = Raised(s.buffer) /\ Pos(t) + col_max > Pos(s)
      BY <1>7, WriteNL
  <2> HIDE DEF t, max
  <2>2. SUFFICES ASSUME NEW n \in Cells, n >= Pos(t) PROVE t.buffer[n] = Blank
      BY DEF Tidy, t
  <2>3. CASE t.buffer = s.buffer /\ Pos(t) > Pos(s)
    <3>1. n >= Pos(s)
        BY <1>2, <1>3, <2>2, <2>3
    <3> QED BY <1>5, <2>3, <3>1
  <2>4. CASE t.buffer = Raised(s.buffer) /\ Pos(t) + col_max > Pos(s)
    <3>1. n + col_max >= Pos(s)
        BY <1>2, <1>3, <1>4, <2>2, <2>4
    <3> QED BY <1>5, <2>4, <3>1 DEF Raised
  <2> QED BY <2>1, <2>3, <2>4
<1>8. CASE c = CR
    BY <1>8, WriteCR
<1>9. CASE c \in Plain
  <2> DEFINE b == [s.buffer EXCEPT ![Pos(s)] = c]
  <2>1. \/ t.buffer = b /\ Pos(t) = Pos(s) + 1
        \/ t.buffer = Raised(b) /\ Pos(t) = Pos(s) + 1 - col_max /\ Pos(s) + 1 = max
      BY <1>9, WritePlain
  <2>2. \A n \in Cells : n # Pos(s) => b[n] = s.buffer[n]
      BY <1>6
  <2> HIDE DEF t, max, b
  <2>3. SUFFICES ASSUME NEW n \in Cells, n >= Pos(t) PROVE t.buffer[n] = Blank
      BY DEF Tidy, t
  <2>4. CASE t.buffer = b /\ Pos(t) = Pos(s) + 1
    <3>1. n >= Pos(s) /\ n # Pos(s)
        BY <1>2, <1>3, <2>3, <2>4
    <3> QED BY <1>5, <2>2, <2>4, <3>1
  <2>5. CASE t.buffer = Raised(b) /\ Pos(t) = Pos(s) + 1 - col_max /\ Pos(s) + 1 = max
    <3>1. n + col_max \notin Cells
        BY <1>2, <1>3, <1>4, <2>3, <2>5
    <3> QED BY <2>5, <3>1 DEF Raised
  <2> QED BY <2>1, <2>4, <2>5
<1> QED BY <1>7, <1>8, <1>9 DEF Plain

\* A character that is shown lengthens the text before the cursor.
LEMMA WriteShows ==
    ASSUME NEW s \in Screens, NEW c \in Plain, NEW text \in Texts, Shows(s, text),
           Len(text) + 1 <= col_max * (row_max - 1)
    PROVE  Shows(textmode_write(s, c), Append(text, c))
<1> DEFINE t == textmode_write(s, c)
           max == col_max * row_max
           b == [s.buffer EXCEPT ![Pos(s)] = c]
           L == Len(text)
<1>1. t \in Screens /\ \/ t.buffer = b /\ Pos(t) = Pos(s) + 1
                       \/ t.buffer = Raised(b) /\ Pos(t) = Pos(s) + 1 - col_max /\ Pos(s) + 1 = max
    BY WritePlain
<1>2. Pos(s) \in Nat /\ Pos(t) \in Nat /\ max \in Nat /\ Pos(s) \in Cells /\ Pos(t) < max
    BY <1>1, PosIn
<1>3. Cells = 0 .. max - 1 /\ L \in Nat
    BY DEF Cells, Texts
<1>4. col_max \in Nat /\ L + 1 <= max - col_max
  <2>1. 0 \in 0 .. row_max - 1
      BY ScreenAssumption
  <2>2. max = col_max * (row_max - 1) + col_max /\ col_max * (row_max - 1) \in Nat
      BY <2>1, Rows
  <2> DEFINE d == col_max * (row_max - 1)
  <2> HIDE DEF max, d, L
  <2> QED BY <1>2, <1>3, <2>2, ScreenAssumption DEF d, L
<1>5. s.buffer \in [Cells -> Glyphs]
    BY DEF Screens
<1>6. b[Pos(s)] = c /\ \A n \in Cells : n # Pos(s) => b[n] = s.buffer[n]
    BY <1>2, <1>5
<1>7. L <= Pos(s) /\ \A n \in 1 .. L : s.buffer[Pos(s) - L + n - 1] = text[n]
    BY DEF Shows
<1>8. Len(Append(text, c)) = L + 1 /\ Append(text, c)[L + 1] = c
      /\ \A n \in 1 .. L : Append(text, c)[n] = text[n]
    BY AppendProperties DEF Texts, Plain
<1> DEFINE new == Append(text, c)
<1> HIDE DEF t, max, b, L, new
\* Relative to the old cursor, before the screen is raised.
<1>9. \A n \in 1 .. L + 1 : Pos(s) - L + n - 1 \in Cells /\ b[Pos(s) - L + n - 1] = new[n]
  <2> SUFFICES ASSUME NEW n \in 1 .. L + 1
               PROVE  Pos(s) - L + n - 1 \in Cells /\ b[Pos(s) - L + n - 1] = new[n]
      OBVIOUS
  <2>1. Pos(s) - L + n - 1 \in Cells
      BY <1>2, <1>3, <1>7
  <2>2. CASE n = L + 1
    <3>1. Pos(s) - L + n - 1 = Pos(s)
        BY <1>2, <1>3, <2>2
    <3> QED BY <1>6, <1>8, <2>1, <2>2, <3>1 DEF new
  <2>3. CASE n # L + 1
    <3>1. n \in 1 .. L /\ Pos(s) - L + n - 1 # Pos(s)
        BY <1>2, <1>3, <2>3
    <3> QED BY <1>6, <1>7, <1>8, <2>1, <3>1 DEF new
  <2> QED BY <2>2, <2>3
<1>10. CASE t.buffer = b /\ Pos(t) = Pos(s) + 1
  <2>1. L + 1 <= Pos(t)
      BY <1>2, <1>3, <1>7, <1>10
  <2>2. \A n \in 1 .. L + 1 : Pos(t) - (L + 1) + n - 1 = Pos(s) - L + n - 1
      BY <1>2, <1>3, <1>10
  <2>3. \A n \in 1 .. L + 1 : t.buffer[Pos(t) - (L + 1) + n - 1] = new[n]
      BY <1>9, <1>10, <2>2
  <2> QED BY <1>8, <2>1, <2>3 DEF Shows, t, new
<1>11. CASE t.buffer = Raised(b) /\ Pos(t) = Pos(s) + 1 - col_max /\ Pos(s) + 1 = max
  <2>1. L + 1 <= Pos(t)
      BY <1>2, <1>3, <1>4, <1>11
  <2>2. \A n \in 1 .. L + 1 : /\ Pos(t) - (L + 1) + n - 1 + col_max = Pos(s) - L + n - 1
                              /\ Pos(t) - (L + 1) + n - 1 \in Cells
    <3> SUFFICES ASSUME NEW n \in 1 .. L + 1
                 PROVE  /\ Pos(t) - (L + 1) + n - 1 + col_max = Pos(s) - L + n - 1
                        /\ Pos(t) - (L + 1) + n - 1 \in Cells
        OBVIOUS
    <3> DEFINE x == Pos(t)
               y == Pos(s)
               k == col_max
    <3>1. /\ x \in Nat /\ y \in Nat /\ k \in Nat /\ x < max /\ L + 1 <= x /\ x = y + 1 - k
        BY <1>2, <1>4, <1>11, <2>1
    <3> HIDE DEF x, y, k
    <3>2. n \in Nat /\ 1 <= n /\ n <= L + 1
        BY <1>3
    <3>3. x - (L + 1) + n - 1 + k = y - L + n - 1
        BY <1>3, <3>1, <3>2
    <3>4. x - (L + 1) + n - 1 \in 0 .. max - 1
        BY <1>2, <1>3, <3>1, <3>2
    <3> QED BY <1>3, <3>3, <3>4 DEF x, y, k
  <2>3. \A n \in 1 .. L + 1 : t.buffer[Pos(t) - (L + 1) + n - 1] = new[n]
      BY <1>9, <1>11, <2>2 DEF Raised
  <2> QED BY <1>8, <2>1, <2>3 DEF Shows, t, new
<1> QED BY <1>1, <1>10, <1>11

\* Erasing a character: backspace, blank, backspace.
Erased(s) == textmode_write(textmode_write(textmode_write(s, BS), Blank), BS)

LEMMA EraseWrites ==
    ASSUME NEW s \in Screens
    PROVE  /\ Erased(s) \in Screens
           /\ Pos(Erased(s)) = IF Pos(s) = 0 THEN 0 ELSE Pos(s) - 1
           /\ Erased(s).buffer = [s.buffer EXCEPT ![Pos(Erased(s))] = Blank]
<1> DEFINE s1 == textmode_write(s, BS)
           s2 == textmode_write(s1, Blank)
           s3 == textmode_write(s2, BS)
           max == col_max * row_max
<1>1. s1 \in Screens /\ s1.buffer = s.buffer /\ Pos(s1) = IF Pos(s) = 0 THEN 0 ELSE Pos(s) - 1
    BY WriteBS
<1>2. Blank \in Plain
    BY Signs, SignGlyphs DEF Plain
<1>3. Pos(s) \in Nat /\ Pos(s) < max /\ max \in Nat
    BY PosIn
<1>4. max > 1
  <2>1. 0 \in 0 .. row_max - 1
      BY ScreenAssumption
  <2>2. max = col_max * (row_max - 1) + col_max /\ col_max * (row_max - 1) \in Nat
      BY <2>1, Rows
  <2>3. LINE \in Nat \ {0, 1} /\ Len(Prompt) \in Nat /\ LINE - 1 + Len(Prompt) <= col_max * (row_max - 1)
    <3>1. Prompt \in Seq(STRING)
        BY ConsoleAssumption DEF Printed
    <3> QED BY <3>1, ConsoleAssumption
  <2> DEFINE d == col_max * (row_max - 1)
             k == Len(Prompt)
  <2> HIDE DEF max, d, k
  <2> QED BY <2>2, <2>3, ScreenAssumption DEF d, k
<1>5. /\ s2 \in Screens
      /\ \/ s2.buffer = [s1.buffer EXCEPT ![Pos(s1)] = Blank] /\ Pos(s2) = Pos(s1) + 1
         \/ Pos(s1) + 1 = max
    BY <1>1, <1>2, WritePlain
<1> HIDE DEF s1, s2, max
<1>6. Pos(s1) + 1 # max
    BY <1>1, <1>3, <1>4
<1>7. s3 \in Screens /\ s3.buffer = s2.buffer /\ Pos(s3) = IF Pos(s2) = 0 THEN 0 ELSE Pos(s2) - 1
    BY <1>5, WriteBS
<1>8. Pos(s3) = Pos(s1)
    BY <1>1, <1>3, <1>5, <1>6, <1>7
<1>9. Erased(s) = s3
    BY DEF Erased, s1, s2
<1> HIDE DEF s3
<1> QED BY <1>1, <1>5, <1>6, <1>7, <1>8, <1>9

LEMMA EraseTidy ==
    ASSUME NEW s \in Screens, Tidy(s)
    PROVE  Tidy(Erased(s))
<1> DEFINE u == Erased(s)
<1>1. /\ u \in Screens
      /\ Pos(u) = IF Pos(s) = 0 THEN 0 ELSE Pos(s) - 1
      /\ u.buffer = [s.buffer EXCEPT ![Pos(u)] = Blank]
    BY EraseWrites
<1>2. Pos(s) \in Nat /\ Pos(u) \in Cells /\ s.buffer \in [Cells -> Glyphs] /\ col_max * row_max \in Nat
    BY <1>1, PosIn DEF Screens
<1>3. Cells = 0 .. col_max * row_max - 1
    BY DEF Cells
<1> DEFINE max == col_max * row_max
<1> HIDE DEF u, max
<1>4. \A n \in Cells : n >= Pos(u) => n = Pos(u) \/ n >= Pos(s)
    BY <1>1, <1>2, <1>3 DEF max
<1> SUFFICES ASSUME NEW n \in Cells, n >= Pos(u) PROVE u.buffer[n] = Blank
    BY DEF Tidy, u
<1>5. CASE n = Pos(u)
    BY <1>1, <1>2, <1>5
<1>6. CASE n # Pos(u)
  <2>1. u.buffer[n] = s.buffer[n]
      BY <1>1, <1>2, <1>6
  <2> QED BY <1>4, <1>6, <2>1 DEF Tidy
<1> QED BY <1>5, <1>6

LEMMA EraseShows ==
    ASSUME NEW s \in Screens, NEW text \in Texts, NEW c \in Glyphs, Shows(s, Append(text, c))
    PROVE  Shows(Erased(s), text)
<1> DEFINE u == Erased(s)
           L == Len(text)
           new == Append(text, c)
<1>1. /\ u \in Screens
      /\ Pos(u) = IF Pos(s) = 0 THEN 0 ELSE Pos(s) - 1
      /\ u.buffer = [s.buffer EXCEPT ![Pos(u)] = Blank]
    BY EraseWrites
<1>2. Pos(s) \in Nat /\ Pos(u) \in Cells /\ s.buffer \in [Cells -> Glyphs] /\ L \in Nat
      /\ Pos(u) \in Nat /\ Pos(u) < col_max * row_max /\ col_max * row_max \in Nat
    BY <1>1, PosIn DEF Screens, Texts
<1>3. Len(new) = L + 1 /\ \A n \in 1 .. L : new[n] = text[n]
    BY AppendProperties DEF Texts
<1>4. L + 1 <= Pos(s) /\ \A n \in 1 .. L + 1 : s.buffer[Pos(s) - (L + 1) + n - 1] = new[n]
    BY <1>3 DEF Shows
<1> DEFINE max == col_max * row_max
<1>5. Cells = 0 .. max - 1
    BY DEF Cells
<1> HIDE DEF u, L, new, max
<1>6. L <= Pos(u) /\ Pos(u) = Pos(s) - 1
    BY <1>1, <1>2, <1>4
<1>7. \A n \in 1 .. L : /\ Pos(u) - L + n - 1 = Pos(s) - (L + 1) + n - 1
                        /\ Pos(u) - L + n - 1 \in Cells
                        /\ Pos(u) - L + n - 1 # Pos(u)
                        /\ n \in 1 .. L + 1
    BY <1>2, <1>5, <1>6 DEF max
<1>8. \A n \in 1 .. L : u.buffer[Pos(u) - L + n - 1] = text[n]
    BY <1>1, <1>2, <1>3, <1>4, <1>7
<1> QED BY <1>6, <1>8 DEF Shows, u, L

\* The screens while a text is shown, one for each of its characters.
IsShown(f, s, text) ==
    /\ f \in [0 .. Len(text) -> Screens]
    /\ f[0] = s
    /\ \A n \in 1 .. Len(text) : f[n] = textmode_write(f[n - 1], text[n])
    /\ Display(s, text) = f[Len(text)]

LEMMA DisplayRounds ==
    ASSUME NEW s \in Screens, NEW text \in Texts
    PROVE  \E f : IsShown(f, s, text)
<1> DEFINE N == Len(text)
           D == SUBSET (1 .. N)
           g == [x \in (1 .. N) \X Screens |-> textmode_write(x[2], text[x[1]])]
           Eq(it) == it = [d \in D |-> IF d = {} THEN s ELSE textmode_write(it[d \ {Max(d)}], text[Max(d)])]
           it0 == CHOOSE it : Eq(it)
<1>1. N \in Nat /\ DOMAIN text = 1 .. N /\ \A n \in 1 .. N : text[n] \in Glyphs
    BY DEF Texts
<1>2. Display(s, text) = it0[1 .. N]
    BY <1>1, Zenon DEF Display, FoldLeft, MapThenFoldSet
<1>3. g \in [(1 .. N) \X Screens -> Screens]
    BY <1>1, WriteType
<1>4. PICK it \in [D -> Screens] : IsFold(it, s, g, N)
  <2> HIDE DEF g, N
  <2> QED BY <1>1, <1>3, FoldSolution
<1>5. Eq(it)
  <2>1. \A d \in D : d # {} => Max(d) \in 1 .. N /\ it[d \ {Max(d)}] \in Screens
      BY <1>1, MaxIn
  <2>2. \A d \in D : d # {} => g[<<Max(d), it[d \ {Max(d)}]>>] = textmode_write(it[d \ {Max(d)}], text[Max(d)])
      BY <2>1
  <2>3. \A d \in D : it[d] = IF d = {} THEN s ELSE textmode_write(it[d \ {Max(d)}], text[Max(d)])
    <3> HIDE DEF g
    <3> QED BY <1>4, <2>2 DEF IsFold
  <2> DEFINE R(d) == IF d = {} THEN s ELSE textmode_write(it[d \ {Max(d)}], text[Max(d)])
  <2>4. \A d \in D : it[d] = R(d)
      BY <2>3
  <2> HIDE DEF g, D, R
  <2>5. it = [d \in D |-> R(d)]
      BY <2>4
  <2> QED BY <2>5 DEF R
<1>6. Eq(it0)
  <2> HIDE DEF Eq
  <2> QED BY <1>5
<1> HIDE DEF it0, g
<1> DEFINE f == [n \in 0 .. N |-> it0[1 .. n]]
<1>7. f[0] = s
  <2>1. 1 .. 0 = {} /\ 1 .. 0 \in D /\ 0 \in 0 .. N
      BY <1>1
  <2> QED BY <1>6, <2>1
<1>8. \A n \in 1 .. N : f[n] = textmode_write(f[n - 1], text[n])
  <2> SUFFICES ASSUME NEW n \in 1 .. N PROVE f[n] = textmode_write(f[n - 1], text[n])
      OBVIOUS
  <2>1. n \in Nat \ {0} /\ 1 .. n \in D /\ n \in 0 .. N /\ n - 1 \in 0 .. N
      BY <1>1
  <2>2. Max(1 .. n) = n /\ 1 .. n # {} /\ (1 .. n) \ {n} = 1 .. n - 1
      BY <2>1, Positions
  <2>3. it0[1 .. n] = textmode_write(it0[1 .. n - 1], text[n])
    <3>1. it0[1 .. n] = textmode_write(it0[(1 .. n) \ {Max(1 .. n)}], text[Max(1 .. n)])
        BY <1>6, <2>1, <2>2
    <3> QED BY <2>2, <3>1
  <2> QED BY <2>1, <2>3
<1>9. \A n \in 0 .. N : f[n] \in Screens
  <2> DEFINE S == {n \in 0 .. N : f[n] \in Screens}
  <2> HIDE DEF f
  <2>1. 0 \in S
      BY <1>1, <1>7
  <2>2. ASSUME NEW n \in 0 .. N - 1, n \in S PROVE n + 1 \in S
    <3>1. n + 1 \in 1 .. N /\ n + 1 \in 0 .. N /\ (n + 1) - 1 = n
        BY <1>1
    <3>2. f[n + 1] = textmode_write(f[n], text[n + 1])
        BY <1>8, <3>1
    <3> QED BY <1>1, <2>2, <3>1, <3>2, WriteType
  <2>3. 0 .. N \subseteq S
    <3> HIDE DEF S, N
    <3> QED BY <1>1, <2>1, <2>2, BoundedInduction
  <2> QED BY <2>3
<1>10. f \in [0 .. N -> Screens] /\ f[N] = it0[1 .. N]
    BY <1>1, <1>9
<1> HIDE DEF f
<1> QED BY <1>2, <1>7, <1>8, <1>10 DEF IsShown

LEMMA DisplayType ==
    ASSUME NEW s \in Screens, NEW text \in Texts
    PROVE  Display(s, text) \in Screens
<1>1. PICK f : IsShown(f, s, text)
    BY DisplayRounds
<1>2. Len(text) \in Nat
    BY DEF Texts
<1> QED BY <1>1, <1>2 DEF IsShown

\* Two rounds that agree on the screen and the text are the same.
Follows(f, text, N) == \A n \in 1 .. N : f[n] = textmode_write(f[n - 1], text[n])
Agree(a, b, N) == \A n \in 1 .. N : a[n] = b[n]

LEMMA RoundsAgree ==
    ASSUME NEW N \in Nat, NEW f, NEW h, NEW t, NEW u, f[0] = h[0],
           Agree(t, u, N), Follows(f, t, N), Follows(h, u, N)
    PROVE  \A n \in 0 .. N : f[n] = h[n]
<1> DEFINE S == {n \in 0 .. N : f[n] = h[n]}
<1>1. 0 \in S
    OBVIOUS
<1>2. ASSUME NEW n \in 0 .. N - 1, n \in S PROVE n + 1 \in S
  <2>1. n + 1 \in 1 .. N /\ n + 1 \in 0 .. N /\ (n + 1) - 1 = n
      OBVIOUS
  <2>2. f[n + 1] = textmode_write(f[n], t[n + 1]) /\ h[n + 1] = textmode_write(h[n], u[n + 1])
      BY <2>1 DEF Follows
  <2> QED BY <1>2, <2>1, <2>2 DEF Agree
<1>3. 0 .. N \subseteq S
  <2> HIDE DEF S
  <2> QED BY <1>1, <1>2, BoundedInduction
<1> QED BY <1>3

LEMMA DisplayConcat ==
    ASSUME NEW s \in Screens, NEW a \in Texts, NEW b \in Texts
    PROVE  Display(s, a \o b) = Display(Display(s, a), b)
<1> DEFINE m == Display(s, a)
           c == a \o b
           A == Len(a)
           B == Len(b)
<1>1. m \in Screens /\ c \in Texts /\ A \in Nat /\ B \in Nat
    BY DisplayType, ConcatProperties DEF Texts
<1>2. Len(c) = A + B /\ (\A n \in 1 .. A : c[n] = a[n]) /\ (\A n \in 1 .. B : c[A + n] = b[n])
  <2>1. Len(c) = A + B /\ \A n \in 1 .. Len(c) : c[n] = IF n <= A THEN a[n] ELSE b[n - A]
      BY ConcatProperties DEF Texts
  <2> HIDE DEF c, A, B
  <2>2. \A n \in 1 .. B : A + n \in 1 .. Len(c) /\ ~(A + n <= A) /\ (A + n) - A = n
      BY <1>1, <2>1
  <2>3. \A n \in 1 .. A : n \in 1 .. Len(c) /\ n <= A
      BY <1>1, <2>1
  <2> QED BY <2>1, <2>2, <2>3
<1>3. PICK f : IsShown(f, s, a)
    BY DisplayRounds
<1>4. PICK g : IsShown(g, m, b)
    BY <1>1, DisplayRounds
<1>5. PICK h : IsShown(h, s, c)
    BY <1>1, DisplayRounds
<1> DEFINE k == [n \in 0 .. B |-> h[A + n]]
<1> HIDE DEF c, A, B, m
<1>6. \A n \in 0 .. A : f[n] = h[n]
  <2>1. \A n \in 1 .. A : f[n] = textmode_write(f[n - 1], a[n])
      BY <1>3 DEF IsShown, A
  <2>2. \A n \in 1 .. A : h[n] = textmode_write(h[n - 1], c[n])
    <3>1. \A n \in 1 .. A : n \in 1 .. Len(c)
        BY <1>1, <1>2
    <3> QED BY <1>5, <3>1 DEF IsShown
  <2>3. f[0] = h[0]
      BY <1>3, <1>5 DEF IsShown
  <2>4. Agree(a, c, A) /\ Follows(f, a, A) /\ Follows(h, c, A)
      BY <1>2, <2>1, <2>2 DEF Agree, Follows
  <2> QED BY <1>1, <2>3, <2>4, RoundsAgree
<1>7. k[0] = m
  <2>1. f[A] = m /\ A \in 0 .. A /\ 0 \in 0 .. B /\ A + 0 = A
      BY <1>1, <1>3 DEF IsShown, A, m
  <2>2. k[0] = h[A + 0]
      BY <2>1
  <2> HIDE DEF k
  <2> QED BY <1>6, <2>1, <2>2
<1>8. \A n \in 1 .. B : k[n] = textmode_write(k[n - 1], b[n])
  <2> SUFFICES ASSUME NEW n \in 1 .. B PROVE k[n] = textmode_write(k[n - 1], b[n])
      OBVIOUS
  <2>1. A + n \in 1 .. Len(c) /\ (A + n) - 1 = A + (n - 1) /\ n \in 0 .. B /\ n - 1 \in 0 .. B
      BY <1>1, <1>2
  <2>2. h[A + n] = textmode_write(h[(A + n) - 1], c[A + n])
      BY <1>5, <2>1 DEF IsShown
  <2> QED BY <1>2, <2>1, <2>2
<1>9. \A n \in 1 .. B : g[n] = textmode_write(g[n - 1], b[n])
    BY <1>4 DEF IsShown, B
<1>10. g[0] = m
    BY <1>4 DEF IsShown
<1> HIDE DEF k
<1>11. \A n \in 0 .. B : g[n] = k[n]
  <2>1. Agree(b, b, B) /\ Follows(g, b, B) /\ Follows(k, b, B)
      BY <1>8, <1>9 DEF Agree, Follows
  <2> QED BY <1>1, <1>7, <1>10, <2>1, RoundsAgree
<1>12. k[B] = h[A + B] /\ B \in 0 .. B
    BY <1>1 DEF k
<1>13. Display(s, c) = h[A + B] /\ Display(m, b) = g[B]
    BY <1>2, <1>4, <1>5 DEF IsShown, B
<1> QED BY <1>11, <1>12, <1>13 DEF c, m

\* The empty text and one character.
LEMMA DisplayFew ==
    ASSUME NEW s \in Screens
    PROVE  /\ Display(s, <<>>) = s
           /\ \A c \in Glyphs : Display(s, <<c>>) = textmode_write(s, c)
<1>1. Display(s, <<>>) = s
  <2>1. <<>> \in Texts /\ Len(<<>>) = 0
      BY DEF Texts
  <2>2. PICK f : IsShown(f, s, <<>>)
      BY <2>1, DisplayRounds
  <2> QED BY <2>1, <2>2 DEF IsShown
<1>2. ASSUME NEW c \in Glyphs PROVE Display(s, <<c>>) = textmode_write(s, c)
  <2> DEFINE t == <<c>>
  <2>1. t \in Texts /\ Len(t) = 1 /\ t[1] = c
      BY DEF Texts
  <2> HIDE DEF t
  <2>2. PICK f : IsShown(f, s, t)
      BY <2>1, DisplayRounds
  <2>3. f[1] = textmode_write(f[1 - 1], t[1]) /\ f[0] = s /\ Display(s, t) = f[1]
      BY <2>1, <2>2 DEF IsShown
  <2> QED BY <2>1, <2>3 DEF t
<1> QED BY <1>1, <1>2

\* A text without a backspace leaves nothing behind the cursor.
LEMMA DisplayTidy ==
    ASSUME NEW s \in Screens, Tidy(s), NEW text \in Texts, \A n \in 1 .. Len(text) : text[n] # BS
    PROVE  Tidy(Display(s, text))
<1> DEFINE N == Len(text)
<1>1. N \in Nat /\ \A n \in 1 .. N : text[n] \in Glyphs /\ text[n] # BS
    BY DEF Texts
<1>2. PICK f : IsShown(f, s, text)
    BY DisplayRounds
<1>3. /\ f \in [0 .. N -> Screens] /\ f[0] = s /\ Display(s, text) = f[N]
      /\ \A n \in 1 .. N : f[n] = textmode_write(f[n - 1], text[n])
    BY <1>2 DEF IsShown
<1> DEFINE S == {n \in 0 .. N : Tidy(f[n])}
<1> HIDE DEF N
<1>4. 0 \in S
    BY <1>1, <1>3
<1>5. ASSUME NEW n \in 0 .. N - 1, n \in S PROVE n + 1 \in S
  <2>1. n + 1 \in 1 .. N /\ n + 1 \in 0 .. N /\ (n + 1) - 1 = n /\ n \in 0 .. N
      BY <1>1
  <2>2. f[n + 1] = textmode_write(f[n], text[n + 1]) /\ f[n] \in Screens
      BY <1>3, <2>1
  <2>3. Tidy(f[n])
      BY <1>5
  <2> QED BY <1>1, <2>1, <2>2, <2>3, WriteTidy
<1>6. 0 .. N \subseteq S
  <2> HIDE DEF S
  <2> QED BY <1>1, <1>4, <1>5, BoundedInduction
<1> QED BY <1>1, <1>3, <1>6

\* A text of plain characters is shown before the cursor.
LEMMA DisplayShows ==
    ASSUME NEW s \in Screens, NEW text \in Seq(Plain), Len(text) <= col_max * (row_max - 1)
    PROVE  Shows(Display(s, text), text)
<1> DEFINE N == Len(text)
           P(n) == SubSeq(text, 1, n)
<1>1. N \in Nat /\ (\A n \in 1 .. N : text[n] \in Plain) /\ text \in Texts /\ Plain \subseteq Glyphs
  <2>1. Plain \subseteq Glyphs
      BY DEF Plain
  <2> QED BY <2>1 DEF Texts
<1>2. PICK f : IsShown(f, s, text)
    BY <1>1, DisplayRounds
<1>3. /\ f \in [0 .. N -> Screens] /\ f[0] = s /\ Display(s, text) = f[N]
      /\ \A n \in 1 .. N : f[n] = textmode_write(f[n - 1], text[n])
    BY <1>2 DEF IsShown
<1>4. \A n \in 0 .. N : P(n) \in Texts /\ Len(P(n)) = n /\ \A k \in 1 .. n : P(n)[k] = text[k]
    BY <1>1, SubSeqProperties DEF Texts
<1>5. \A n \in 0 .. N - 1 : P(n + 1) = Append(P(n), text[n + 1])
  <2> SUFFICES ASSUME NEW n \in 0 .. N - 1 PROVE P(n + 1) = Append(P(n), text[n + 1])
      OBVIOUS
  <2>1. n + 1 \in 1 .. N /\ n + 1 \in 0 .. N /\ n \in 0 .. N
      BY <1>1
  <2>2. /\ P(n) \in Seq(Glyphs) /\ Len(P(n)) = n /\ (\A k \in 1 .. n : P(n)[k] = text[k])
        /\ P(n + 1) \in Seq(Glyphs) /\ Len(P(n + 1)) = n + 1
        /\ \A k \in 1 .. n + 1 : P(n + 1)[k] = text[k]
      BY <1>4, <2>1 DEF Texts
  <2> DEFINE p == P(n)
             q == P(n + 1)
             c == text[n + 1]
             r == Append(p, c)
  <2> HIDE DEF P, p, q, c, r
  <2>3. c \in Glyphs /\ n \in Nat
      BY <1>1, <2>1 DEF c
  <2>4. r \in Seq(Glyphs) /\ Len(r) = n + 1 /\ r[n + 1] = c /\ \A k \in 1 .. n : r[k] = p[k]
      BY <2>2, <2>3, AppendProperties DEF p, r
  <2>5. \A k \in 1 .. n + 1 : r[k] = q[k]
    <3> SUFFICES ASSUME NEW k \in 1 .. n + 1 PROVE r[k] = q[k]
        OBVIOUS
    <3>1. CASE k = n + 1
        BY <2>2, <2>4, <3>1 DEF q, c
    <3>2. CASE k # n + 1
      <4>1. k \in 1 .. n
          BY <2>3, <3>2
      <4> QED BY <2>2, <2>4, <4>1 DEF p, q
    <3> QED BY <3>1, <3>2
  <2>6. r = q
      BY <2>2, <2>4, <2>5, SeqEqual DEF q
  <2> QED BY <2>6 DEF r, q, p, c
<1> DEFINE S == {n \in 0 .. N : Shows(f[n], P(n))}
<1> HIDE DEF N, P
<1>6. 0 \in S
  <2>1. f[0] \in Screens /\ Len(P(0)) = 0 /\ 0 \in 0 .. N
      BY <1>1, <1>3, <1>4
  <2>2. Pos(f[0]) \in Nat
      BY <2>1, PosIn
  <2>3. Shows(f[0], P(0))
    <3>1. 1 .. Len(P(0)) = {}
        BY <2>1
    <3> QED BY <2>1, <2>2, <3>1 DEF Shows
  <2> QED BY <2>1, <2>3
<1>7. ASSUME NEW n \in 0 .. N - 1, n \in S PROVE n + 1 \in S
  <2>1. n + 1 \in 1 .. N /\ n + 1 \in 0 .. N /\ (n + 1) - 1 = n /\ n \in 0 .. N
      BY <1>1
  <2>2. f[n + 1] = textmode_write(f[n], text[n + 1]) /\ f[n] \in Screens
      BY <1>3, <2>1
  <2>3. Shows(f[n], P(n)) /\ P(n) \in Texts /\ Len(P(n)) = n /\ text[n + 1] \in Plain
      BY <1>1, <1>4, <1>7, <2>1
  <2>4. Len(P(n)) + 1 <= col_max * (row_max - 1)
    <3>1. N <= col_max * (row_max - 1) /\ 0 \in 0 .. row_max - 1
        BY ScreenAssumption DEF N
    <3>2. col_max * (row_max - 1) \in Nat
        BY <3>1, Rows
    <3> DEFINE d == col_max * (row_max - 1)
    <3> HIDE DEF d
    <3> QED BY <1>1, <2>1, <2>3, <3>1, <3>2 DEF d
  <2>5. Shows(f[n + 1], Append(P(n), text[n + 1]))
      BY <2>2, <2>3, <2>4, WriteShows
  <2> QED BY <1>5, <2>1, <2>5
<1>8. 0 .. N \subseteq S
  <2> HIDE DEF S
  <2> QED BY <1>1, <1>6, <1>7, BoundedInduction
<1>9. P(N) = text
  <2>1. N \in 0 .. N
      BY <1>1
  <2>2. P(N) \in Seq(Glyphs) /\ Len(P(N)) = N /\ \A k \in 1 .. N : P(N)[k] = text[k]
      BY <1>4, <2>1 DEF Texts
  <2>3. text \in Seq(Glyphs) /\ Len(text) = N
      BY <1>1 DEF Texts, N
  <2> QED BY <2>2, <2>3, SeqEqual
<1>10. N \in S
    BY <1>1, <1>8
<1> QED BY <1>3, <1>9, <1>10

-----------------------------------------------------------------------------
(* The pipes of the console. *)

LEMMA PushIs ==
    ASSUME NEW q, PipeOK(q), NEW c \in Glyphs
    PROVE  LET r == Pushed(q, c)
           IN  /\ PipeOK(r)
               /\ q.length < PIPE_SIZE =>
                      /\ r.length = q.length + 1 /\ r.tail = q.tail
                      /\ r.items = [q.items EXCEPT ![Cell(q, q.length)] = c]
<1> DEFINE L == q.length
           h == (q.head + 1) % PIPE_SIZE
           m == IF L = 0 THEN q
                ELSE [q EXCEPT !.head = h, !.tail = IF h = @ THEN (@ + 1) % PIPE_SIZE ELSE @]
           r == [m EXCEPT !.items[m.head] = c, !.length = IF @ < PIPE_SIZE THEN @ + 1 ELSE @]
<1>1. q \in Pipes /\ q.items \in [Indices -> Glyphs] /\ q.head \in Indices /\ q.tail \in Indices
      /\ L \in 0 .. PIPE_SIZE /\ Linked(q, L) /\ PIPE_SIZE \in Nat \ {0, 1}
    BY RingAssumption DEF PipeOK, Pipes
<1>2. Pushed(q, c) = r
    BY DEF Pushed, Advanced
<1>3. L # 0 => q.head = Cell(q, L - 1) /\ L - 1 \in Indices /\ h = Cell(q, L)
  <2>1. L # 0 => L - 1 \in Indices /\ (L - 1) + 1 = L
      BY <1>1 DEF Indices
  <2> QED BY <1>1, <2>1, CellNext DEF Linked
<1>4. L = 0 => q.head = q.tail
    BY <1>1 DEF Linked
<1>5. Cell(q, 0) = q.tail /\ Cell(q, PIPE_SIZE) = q.tail
  <2>1. 0 \in Indices
      BY <1>1 DEF Indices
  <2> QED BY <1>1, <2>1, CellNext
<1>6. ASSUME m \in Pipes, NEW t, NEW hd, m.items = q.items, m.head = hd, m.tail = t, m.length = L
      PROVE  /\ r \in Pipes /\ r.items = [q.items EXCEPT ![hd] = c] /\ r.head = hd /\ r.tail = t
             /\ r.length = IF L < PIPE_SIZE THEN L + 1 ELSE L
  <2> HIDE DEF m, L
  <2> DEFINE items == [m.items EXCEPT ![m.head] = c]
             length == IF m.length < PIPE_SIZE THEN m.length + 1 ELSE m.length
  <2>0. r = [m EXCEPT !.items = items, !.length = length]
      BY <1>6 DEF Pipes
  <2> HIDE DEF r, items, length
  <2>1. r = [items |-> items, head |-> m.head, tail |-> m.tail, length |-> length]
      BY <1>6, <2>0 DEF Pipes
  <2>2. length \in 0 .. PIPE_SIZE
      BY <1>1, <1>6 DEF length
  <2>3. items \in [Indices -> Glyphs] /\ m.head \in Indices /\ m.tail \in Indices
      BY <1>6 DEF Pipes, items
  <2>4. r \in Pipes
      BY <2>1, <2>2, <2>3 DEF Pipes
  <2> QED BY <1>6, <2>1, <2>4 DEF items, length
<1>7. CASE L = 0
  <2>1. m = q
      BY <1>7
  <2>2. /\ r \in Pipes /\ r.items = [q.items EXCEPT ![q.head] = c] /\ r.head = q.head /\ r.tail = q.tail
        /\ r.length = IF L < PIPE_SIZE THEN L + 1 ELSE L
    <3> HIDE DEF m, r
    <3> QED BY <1>1, <1>6, <2>1
  <2> HIDE DEF m, r
  <2>3. r.length = 1 /\ L < PIPE_SIZE
      BY <1>1, <1>7, <2>2
  <2>4. Cell(r, 0) = r.tail
    <3>1. 0 \in Indices /\ r.tail \in Indices
        BY <1>1, <2>2 DEF Indices
    <3> QED BY <3>1, CellNext
  <2>5. Linked(r, r.length)
      BY <1>4, <1>7, <2>2, <2>3, <2>4 DEF Linked
  <2> QED BY <1>2, <1>4, <1>5, <1>7, <2>2, <2>3, <2>5 DEF PipeOK
<1>8. CASE L # 0
  <2> DEFINE t == IF h = q.tail THEN (q.tail + 1) % PIPE_SIZE ELSE q.tail
  <2>1. h \in Indices /\ t \in Indices
    <3>1. q.head \in Nat /\ q.tail \in Nat
        BY <1>1 DEF Indices
    <3> QED BY <1>1, <3>1, Succ
  <2>2. m = [q EXCEPT !.head = h, !.tail = t]
      BY <1>8
  <2>3. m \in Pipes /\ m.items = q.items /\ m.head = h /\ m.tail = t /\ m.length = L
    <3> HIDE DEF m, t, h
    <3> QED BY <1>1, <2>1, <2>2 DEF Pipes
  <2>4. /\ r \in Pipes /\ r.items = [q.items EXCEPT ![h] = c] /\ r.head = h /\ r.tail = t
        /\ r.length = IF L < PIPE_SIZE THEN L + 1 ELSE L
    <3> HIDE DEF m, r, t, h
    <3> QED BY <1>6, <2>3
  <2> HIDE DEF m, r, h
  <2>5. CASE L < PIPE_SIZE
    <3>1. L \in Indices /\ 0 \in Indices
        BY <1>1, <2>5 DEF Indices
    <3>2. h # q.tail
        BY <1>1, <1>3, <1>5, <1>8, <3>1, CellApart
    <3>3. r.tail = q.tail /\ r.length = L + 1 /\ (L + 1) - 1 = L /\ L + 1 # 0
        BY <1>1, <2>4, <2>5, <3>2
    <3>4. Cell(r, L) = Cell(q, L)
        BY <3>3 DEF Cell
    <3>5. Linked(r, r.length)
        BY <1>3, <1>8, <2>4, <3>3, <3>4 DEF Linked
    <3> QED BY <1>2, <1>3, <1>8, <2>4, <3>3, <3>5 DEF PipeOK
  <2>6. CASE L = PIPE_SIZE
    <3>1. h = q.tail /\ r.tail = (q.tail + 1) % PIPE_SIZE /\ r.length = PIPE_SIZE
        BY <1>1, <1>3, <1>5, <1>8, <2>4, <2>6
    <3>2. PIPE_SIZE - 1 \in Indices /\ (PIPE_SIZE - 1) + 1 = PIPE_SIZE /\ PIPE_SIZE # 0
        BY <1>1 DEF Indices
    <3>3. Cell(r, PIPE_SIZE - 1) = Cell(q, PIPE_SIZE)
        BY <1>1, <3>1, <3>2, CellShift
    <3>4. Linked(r, r.length)
        BY <1>5, <2>4, <3>1, <3>2, <3>3 DEF Linked
    <3>5. ~(L < PIPE_SIZE)
        BY <1>1, <2>6
    <3> QED BY <1>2, <2>4, <3>4, <3>5 DEF PipeOK
  <2> QED BY <1>1, <2>5, <2>6
<1> QED BY <1>7, <1>8

\* A push keeps a pipe a pipe, whatever state it is in.
LEMMA PushPipe ==
    ASSUME NEW q \in Pipes, NEW c \in Glyphs
    PROVE  Advanced(q) \in Pipes /\ Advanced(q).length = q.length /\ Pushed(q, c) \in Pipes
<1> DEFINE h == (q.head + 1) % PIPE_SIZE
           t == IF h = q.tail THEN (q.tail + 1) % PIPE_SIZE ELSE q.tail
           m == Advanced(q)
<1>1. q.head \in Indices /\ q.tail \in Indices /\ q.length \in 0 .. PIPE_SIZE /\ PIPE_SIZE \in Nat \ {0, 1}
    BY RingAssumption DEF Pipes
<1>2. h \in Indices /\ t \in Indices
  <2>1. q.head \in Nat /\ q.tail \in Nat
      BY <1>1 DEF Indices
  <2> QED BY <1>1, <2>1, Succ
<1>3. m = IF q.length = 0 THEN q ELSE [q EXCEPT !.head = h, !.tail = t]
    BY DEF Advanced
<1> HIDE DEF h, t, m
<1>4. m \in Pipes /\ m.length = q.length
    BY <1>2, <1>3 DEF Pipes
<1> DEFINE items == [m.items EXCEPT ![m.head] = c]
           length == IF m.length < PIPE_SIZE THEN m.length + 1 ELSE m.length
<1>5. items \in [Indices -> Glyphs] /\ length \in 0 .. PIPE_SIZE
    BY <1>1, <1>4 DEF Pipes
<1>6. Pushed(q, c) = [m EXCEPT !.items = items, !.length = length]
    BY <1>4 DEF Pushed, m, Pipes
<1> HIDE DEF items, length
<1>7. Pushed(q, c) \in Pipes
    BY <1>4, <1>5, <1>6 DEF Pipes
<1> QED BY <1>4, <1>7 DEF m

LEMMA StoredType ==
    ASSUME NEW q, PipeOK(q)
    PROVE  /\ Stored(q) \in Texts /\ Len(Stored(q)) = q.length
           /\ \A n \in 1 .. q.length : Stored(q)[n] = q.items[Cell(q, n - 1)]
<1>1. q.length \in 0 .. PIPE_SIZE /\ q.tail \in Indices /\ q.items \in [Indices -> Glyphs]
    BY DEF PipeOK, Pipes
<1>2. \A n \in 1 .. q.length : (q.tail + n - 1) % PIPE_SIZE = Cell(q, n - 1) /\ Cell(q, n - 1) \in Indices
  <2> SUFFICES ASSUME NEW n \in 1 .. q.length
               PROVE  (q.tail + n - 1) % PIPE_SIZE = Cell(q, n - 1) /\ Cell(q, n - 1) \in Indices
      OBVIOUS
  <2>1. n - 1 \in Indices /\ q.tail + n - 1 = q.tail + (n - 1)
      BY <1>1, RingAssumption DEF Indices
  <2> QED BY <1>1, <2>1, CellNext DEF Cell
<1>3. Stored(q) = [n \in 1 .. q.length |-> q.items[Cell(q, n - 1)]]
    BY <1>2 DEF Stored
<1>4. \A n \in 1 .. q.length : q.items[Cell(q, n - 1)] \in Glyphs
    BY <1>1, <1>2
<1> DEFINE N == q.length
           e(n) == q.items[Cell(q, n - 1)]
<1>5. N \in Nat /\ \A n \in 1 .. N : e(n) \in Glyphs
    BY <1>1, <1>4, RingAssumption
<1>6. Stored(q) = [n \in 1 .. N |-> e(n)]
    BY <1>3
<1> HIDE DEF N, e
<1>7. Stored(q) \in Seq(Glyphs) /\ Len(Stored(q)) = N /\ \A n \in 1 .. N : Stored(q)[n] = e(n)
    BY <1>5, <1>6
<1> QED BY <1>7 DEF Texts, N, e

LEMMA StoredPush ==
    ASSUME NEW q, PipeOK(q), q.length < PIPE_SIZE, NEW c \in Glyphs
    PROVE  Stored(Pushed(q, c)) = Append(Stored(q), c)
<1> DEFINE r == Pushed(q, c)
           L == q.length
           a == Stored(q)
           b == Append(a, c)
           s == Stored(r)
<1>1. PipeOK(r) /\ r.length = L + 1 /\ r.tail = q.tail /\ r.items = [q.items EXCEPT ![Cell(q, L)] = c]
    BY PushIs
<1>2. a \in Texts /\ Len(a) = L /\ \A n \in 1 .. L : a[n] = q.items[Cell(q, n - 1)]
    BY StoredType
<1> HIDE DEF r
<1>3. s \in Texts /\ Len(s) = L + 1 /\ \A n \in 1 .. L + 1 : s[n] = r.items[Cell(r, n - 1)]
    BY <1>1, StoredType
<1>4. L \in Indices /\ q.tail \in Indices /\ q.items \in [Indices -> Glyphs] /\ L \in Nat
    BY RingAssumption DEF PipeOK, Pipes, Indices
<1> HIDE DEF L, a, s
<1>5. b \in Texts /\ Len(b) = L + 1 /\ b[L + 1] = c /\ \A n \in 1 .. L : b[n] = a[n]
    BY <1>2, AppendProperties DEF Texts
<1> HIDE DEF b
<1>6. \A n \in 1 .. L + 1 : s[n] = b[n]
  <2> SUFFICES ASSUME NEW n \in 1 .. L + 1 PROVE s[n] = b[n]
      OBVIOUS
  <2>1. Cell(r, n - 1) = Cell(q, n - 1) /\ n - 1 \in Indices
      BY <1>1, <1>4, RingAssumption DEF Cell, Indices
  <2>2. s[n] = r.items[Cell(q, n - 1)] /\ Cell(q, n - 1) \in Indices
      BY <1>3, <1>4, <2>1, CellNext
  <2>3. CASE n = L + 1
    <3>1. n - 1 = L
        BY <1>4, <2>3
    <3> QED BY <1>1, <1>4, <1>5, <2>2, <2>3, <3>1
  <2>4. CASE n # L + 1
    <3>1. n \in 1 .. L /\ n - 1 # L
        BY <1>4, <2>4
    <3>2. Cell(q, n - 1) # Cell(q, L)
        BY <1>4, <2>1, <3>1, CellApart
    <3>3. r.items[Cell(q, n - 1)] = q.items[Cell(q, n - 1)]
        BY <1>1, <1>4, <2>2, <3>2
    <3> QED BY <1>2, <1>5, <2>2, <3>1, <3>3
  <2> QED BY <2>3, <2>4
<1>7. s = b
    BY <1>3, <1>5, <1>6, SeqEqual DEF Texts
<1> QED BY <1>7 DEF s, b, r, a

LEMMA PopIs ==
    ASSUME NEW q, PipeOK(q), q.length # 0
    PROVE  /\ PipeOK(Popped(q))
           /\ Oldest(q) \in Glyphs
           /\ Stored(q) = <<Oldest(q)>> \o Stored(Popped(q))
<1> DEFINE r == Popped(q)
           L == q.length
           t == IF L # 1 THEN (q.tail + 1) % PIPE_SIZE ELSE q.tail
<1>1. q \in Pipes /\ q.items \in [Indices -> Glyphs] /\ q.head \in Indices /\ q.tail \in Indices
      /\ L \in 1 .. PIPE_SIZE /\ Linked(q, L) /\ PIPE_SIZE \in Nat \ {0, 1} /\ L - 1 \in 0 .. PIPE_SIZE
    BY RingAssumption DEF PipeOK, Pipes
<1>2. t \in Indices
  <2>1. q.tail \in Nat
      BY <1>1 DEF Indices
  <2> QED BY <1>1, <2>1, Succ
<1>3. r = [q EXCEPT !.length = L - 1, !.tail = t]
    BY DEF Popped
<1> HIDE DEF r, t, L
<1>4. r = [items |-> q.items, head |-> q.head, tail |-> t, length |-> L - 1]
    BY <1>1, <1>3 DEF Pipes
<1>5. r \in Pipes /\ r.items = q.items /\ r.head = q.head /\ r.tail = t /\ r.length = L - 1
    BY <1>1, <1>2, <1>4 DEF Pipes
<1>6. q.head = Cell(q, L - 1) /\ L - 1 \in Indices /\ 0 \in Indices
    BY <1>1 DEF Linked, Indices
<1>7. Cell(q, 0) = q.tail
    BY <1>1, <1>6, CellNext
<1>8. L # 1 => \A n \in Indices : Cell(r, n) = Cell(q, n + 1)
    BY <1>1, <1>5, CellShift DEF t
<1>9. PipeOK(r)
  <2>1. CASE L = 1
    <3>1. r.head = q.tail /\ r.tail = q.tail /\ r.length = 0
        BY <1>5, <1>6, <1>7, <2>1 DEF t
    <3> QED BY <1>5, <3>1 DEF PipeOK, Linked
  <2>2. CASE L # 1
    <3>1. L - 2 \in Indices /\ (L - 2) + 1 = L - 1 /\ (L - 1) - 1 = L - 2 /\ L - 1 # 0
        BY <1>1, <2>2 DEF Indices
    <3>2. Cell(r, L - 2) = Cell(q, L - 1)
        BY <1>8, <2>2, <3>1
    <3> QED BY <1>5, <1>6, <3>1, <3>2 DEF PipeOK, Linked
  <2> QED BY <2>1, <2>2
<1>10. Oldest(q) \in Glyphs
    BY <1>1 DEF Oldest
<1> DEFINE a == Stored(q)
           s == Stored(r)
           o == <<Oldest(q)>>
           b == o \o s
<1>11. a \in Texts /\ Len(a) = L /\ \A n \in 1 .. L : a[n] = q.items[Cell(q, n - 1)]
    BY StoredType DEF L
<1>12. s \in Texts /\ Len(s) = L - 1 /\ \A n \in 1 .. L - 1 : s[n] = q.items[Cell(r, n - 1)]
    BY <1>5, <1>9, StoredType
<1>13. o \in Texts /\ Len(o) = 1 /\ o[1] = Oldest(q)
    BY <1>10 DEF Texts
<1> HIDE DEF a, s, o
<1>14. /\ b \in Texts /\ Len(b) = 1 + (L - 1)
       /\ \A n \in 1 .. Len(b) : b[n] = IF n <= 1 THEN o[n] ELSE s[n - 1]
  <2>1. o \in Seq(Glyphs) /\ s \in Seq(Glyphs)
      BY <1>12, <1>13 DEF Texts
  <2>2. /\ b \in Seq(Glyphs) /\ Len(b) = Len(o) + Len(s)
        /\ \A n \in 1 .. Len(b) : b[n] = IF n <= Len(o) THEN o[n] ELSE s[n - Len(o)]
      BY <2>1, ConcatProperties
  <2> HIDE DEF b
  <2> QED BY <1>12, <1>13, <2>2 DEF Texts
<1> HIDE DEF b
<1>15. Len(b) = L
    BY <1>1, <1>14
<1>16. \A n \in 1 .. L : a[n] = b[n]
  <2> SUFFICES ASSUME NEW n \in 1 .. L PROVE a[n] = b[n]
      OBVIOUS
  <2>1. b[n] = IF n <= 1 THEN o[n] ELSE s[n - 1]
      BY <1>14, <1>15
  <2>2. CASE n = 1
    <3>1. b[n] = Oldest(q) /\ n - 1 = 0
        BY <1>13, <2>1, <2>2
    <3> QED BY <1>7, <1>11, <2>2, <3>1 DEF Oldest
  <2>3. CASE n # 1
    <3>1. n - 1 \in 1 .. L - 1 /\ ~(n <= 1) /\ L # 1 /\ (n - 1) - 1 \in Indices /\ ((n - 1) - 1) + 1 = n - 1
        BY <1>1, <2>3 DEF Indices
    <3>2. s[n - 1] = q.items[Cell(r, (n - 1) - 1)]
        BY <1>12, <3>1
    <3>3. Cell(r, (n - 1) - 1) = Cell(q, n - 1)
        BY <1>8, <3>1
    <3> QED BY <1>11, <2>1, <3>1, <3>2, <3>3
  <2> QED BY <2>2, <2>3
<1>17. a = b
    BY <1>11, <1>14, <1>15, <1>16, SeqEqual DEF Texts
<1> QED BY <1>9, <1>10, <1>17 DEF a, b, o, s, r

\* A text written into a pipe leaves it a pipe, even when it overflows.
LEMMA LogOK ==
    ASSUME NEW q \in Pipes, NEW text \in Texts
    PROVE  FoldLeft(Pushed, q, text) \in Pipes
<1> DEFINE N == Len(text)
           V == Pipes
           D == SUBSET (1 .. N)
           g == [x \in (1 .. N) \X V |-> Pushed(x[2], text[x[1]])]
           Eq(it) == it = [d \in D |-> IF d = {} THEN q ELSE Pushed(it[d \ {Max(d)}], text[Max(d)])]
           it0 == CHOOSE it : Eq(it)
<1>1. N \in Nat /\ DOMAIN text = 1 .. N /\ \A n \in 1 .. N : text[n] \in Glyphs
    BY DEF Texts
<1>2. \A p : p \in V <=> p \in Pipes
    OBVIOUS
<1> HIDE DEF V
<1>3. FoldLeft(Pushed, q, text) = it0[1 .. N]
    BY <1>1, Zenon DEF FoldLeft, MapThenFoldSet
<1>4. \A p \in V : \A c \in Glyphs : Pushed(p, c) \in V
    BY <1>2, PushPipe
<1>5. g \in [(1 .. N) \X V -> V] /\ q \in V
    BY <1>1, <1>2, <1>4
<1>6. PICK it \in [D -> V] : IsFold(it, q, g, N)
  <2> HIDE DEF g, N
  <2> QED BY <1>1, <1>5, FoldSolution
<1>7. Eq(it)
  <2>1. \A d \in D : d # {} => Max(d) \in 1 .. N /\ it[d \ {Max(d)}] \in V
      BY <1>1, MaxIn
  <2>2. \A d \in D : d # {} => g[<<Max(d), it[d \ {Max(d)}]>>] = Pushed(it[d \ {Max(d)}], text[Max(d)])
      BY <2>1
  <2> DEFINE R(d) == IF d = {} THEN q ELSE Pushed(it[d \ {Max(d)}], text[Max(d)])
  <2>3. \A d \in D : it[d] = R(d)
    <3> HIDE DEF g
    <3> QED BY <1>6, <2>2 DEF IsFold
  <2> HIDE DEF g, D, R
  <2>4. it = [d \in D |-> R(d)]
      BY <2>3
  <2> QED BY <2>4 DEF R
<1>8. Eq(it0)
  <2> HIDE DEF Eq
  <2> QED BY <1>7
<1> HIDE DEF it0, g
<1> DEFINE S == {n \in 0 .. N : it0[1 .. n] \in V}
<1>9. 0 \in S
  <2>1. 1 .. 0 = {} /\ 1 .. 0 \in D /\ 0 \in 0 .. N
      BY <1>1
  <2>2. it0[1 .. 0] = q
      BY <1>8, <2>1
  <2> QED BY <1>5, <2>1, <2>2
<1>10. ASSUME NEW n \in 0 .. N - 1, n \in S PROVE n + 1 \in S
  <2>1. n + 1 \in Nat \ {0} /\ 1 .. n + 1 \in D /\ n + 1 \in 1 .. N /\ n + 1 \in 0 .. N /\ (n + 1) - 1 = n
      BY <1>1
  <2>2. Max(1 .. n + 1) = n + 1 /\ 1 .. n + 1 # {} /\ (1 .. n + 1) \ {n + 1} = 1 .. n
      BY <2>1, Positions
  <2>3. it0[1 .. n + 1] = Pushed(it0[(1 .. n + 1) \ {Max(1 .. n + 1)}], text[Max(1 .. n + 1)])
      BY <1>8, <2>1, <2>2
  <2>4. it0[1 .. n + 1] = Pushed(it0[1 .. n], text[n + 1])
      BY <2>2, <2>3
  <2> QED BY <1>1, <1>4, <1>10, <2>1, <2>4
<1>11. 0 .. N \subseteq S
  <2> HIDE DEF S, N
  <2> QED BY <1>1, <1>9, <1>10, BoundedInduction
<1>12. N \in S
    BY <1>1, <1>11
<1> QED BY <1>2, <1>3, <1>12

-----------------------------------------------------------------------------
(* The shell. *)

Shells == [at : {"run", "write", "wait", "dead", "hung"}, line : Texts,
           entered : BOOLEAN, nul : BOOLEAN, todo : Texts]

\* No backspace in a text.
Forward(text) == text \in Texts /\ \A n \in 1 .. Len(text) : text[n] # BS

LEMMA TextFacts ==
    /\ \A text \in Printed : Forward(text)
    /\ Prompt \in Seq(Plain) /\ Prompt \in Texts /\ Forward(Prompt) /\ Forward(<<>>)
    /\ LINE \in Nat \ {0, 1} /\ Len(Prompt) \in Nat
    /\ LINE - 1 + Len(Prompt) <= col_max * (row_max - 1)
<1>1. STRING \subseteq Glyphs
    BY DEF Glyphs
<1>2. \A text \in Printed : Forward(text)
  <2> SUFFICES ASSUME NEW text \in Printed PROVE Forward(text)
      OBVIOUS
  <2>1. text \in Seq(STRING) /\ \A n \in 1 .. Len(text) : text[n] # BS
      BY ConsoleAssumption
  <2>2. \A S, T : S \subseteq T => \A t \in Seq(S) : t \in Seq(T)
      OBVIOUS
  <2>3. text \in Seq(Glyphs)
      BY <1>1, <2>1, <2>2, Zenon
  <2> QED BY <2>1, <2>3 DEF Forward, Texts
<1>3. Prompt \in Printed
    BY DEF Printed
<1>4. Prompt \in Seq(Plain)
  <2>1. Prompt \in Seq(Glyphs) /\ \A n \in 1 .. Len(Prompt) : Prompt[n] # BS
      BY <1>2, <1>3 DEF Forward, Texts
  <2>2. \A n \in 1 .. Len(Prompt) : Prompt[n] \notin {NL, CR}
      BY ConsoleAssumption
  <2>3. \A n \in 1 .. Len(Prompt) : Prompt[n] \in Plain
      BY <2>1, <2>2 DEF Plain
  <2> QED BY <2>1, <2>3
<1>5. Forward(<<>>)
    BY DEF Forward, Texts
<1>6. LINE \in Nat \ {0, 1} /\ LINE - 1 + Len(Prompt) <= col_max * (row_max - 1)
    BY ConsoleAssumption
<1> QED BY <1>2, <1>3, <1>4, <1>5, <1>6 DEF Forward, Texts

LEMMA ForwardConcat ==
    ASSUME NEW a, NEW b, Forward(a), Forward(b)
    PROVE  Forward(a \o b)
<1>1. a \in Seq(Glyphs) /\ b \in Seq(Glyphs)
    BY DEF Forward, Texts
<1>2. /\ a \o b \in Seq(Glyphs) /\ Len(a \o b) = Len(a) + Len(b)
      /\ \A n \in 1 .. Len(a \o b) : (a \o b)[n] = IF n <= Len(a) THEN a[n] ELSE b[n - Len(a)]
    BY <1>1, ConcatProperties
<1> DEFINE c == a \o b
           A == Len(a)
           B == Len(b)
<1>3. A \in Nat /\ B \in Nat /\ (\A n \in 1 .. A : a[n] # BS) /\ (\A n \in 1 .. B : b[n] # BS)
    BY <1>1 DEF Forward
<1>4. Len(c) = A + B /\ \A n \in 1 .. Len(c) : c[n] = IF n <= A THEN a[n] ELSE b[n - A]
    BY <1>2
<1> HIDE DEF c, A, B
<1>5. \A n \in 1 .. Len(c) : c[n] # BS
  <2> SUFFICES ASSUME NEW n \in 1 .. Len(c) PROVE c[n] # BS
      OBVIOUS
  <2>1. n <= A => n \in 1 .. A
      BY <1>3, <1>4
  <2>2. ~(n <= A) => n - A \in 1 .. B
      BY <1>3, <1>4
  <2> QED BY <1>3, <1>4, <2>1, <2>2
<1> QED BY <1>2, <1>5 DEF Forward, Texts, c

LEMMA ResponseText ==
    ASSUME NEW args
    PROVE  Forward(Response(args))
<1>1. /\ Usage \in Printed /\ NotFound \in Printed /\ Newline \in Printed
      /\ \A word \in DOMAIN CommandText : CommandText[word] \in Printed
      /\ \A name \in DOMAIN Contents : Contents[name] \in Printed
    BY DEF Printed
<1>2. Forward(Cat(args)) /\ Forward(Echo(args))
    BY <1>1, TextFacts DEF Cat, Echo
<1> QED BY <1>1, <1>2, TextFacts DEF Response

\* An answer and the next prompt.
LEMMA NextPrompt ==
    ASSUME NEW s \in Screens, Tidy(s), NEW a, Forward(a)
    PROVE  /\ Tidy(Display(s, a \o Prompt))
           /\ Shows(Display(s, a \o Prompt), Prompt \o <<>>)
<1>1. a \in Texts /\ Prompt \in Texts /\ Forward(Prompt) /\ Prompt \in Seq(Plain)
    BY TextFacts DEF Forward
<1> DEFINE m == Display(s, a)
<1>2. m \in Screens /\ Tidy(m)
    BY <1>1, DisplayType, DisplayTidy DEF Forward
<1>3. Display(s, a \o Prompt) = Display(m, Prompt)
    BY <1>1, DisplayConcat
<1> HIDE DEF m
<1>4. Tidy(Display(m, Prompt))
    BY <1>1, <1>2, DisplayTidy DEF Forward
<1>5. Len(Prompt) <= col_max * (row_max - 1)
  <2>1. 0 \in 0 .. row_max - 1
      BY ScreenAssumption
  <2>2. col_max * (row_max - 1) \in Nat
      BY <2>1, Rows
  <2> DEFINE d == col_max * (row_max - 1)
             k == Len(Prompt)
  <2>3. d \in Nat /\ k \in Nat /\ LINE - 1 + k <= d /\ LINE \in Nat \ {0, 1}
      BY <2>2, TextFacts
  <2> HIDE DEF d, k
  <2>4. k <= d
      BY <2>3
  <2> QED BY <2>4 DEF d, k
<1>6. Shows(Display(m, Prompt), Prompt)
    BY <1>1, <1>2, <1>5, DisplayShows
<1>7. Prompt \o <<>> = Prompt
    BY <1>1, ConcatEmptySeq
<1> QED BY <1>3, <1>4, <1>6, <1>7

LEMMA DisplayErase ==
    ASSUME NEW s \in Screens
    PROVE  Display(s, <<BS, Blank, BS>>) = Erased(s)
<1> DEFINE t == <<BS, Blank, BS>>
<1>1. t \in Texts /\ Len(t) = 3 /\ t[1] = BS /\ t[2] = Blank /\ t[3] = BS
    BY SignGlyphs DEF Texts
<1> HIDE DEF t
<1>2. PICK f : IsShown(f, s, t)
    BY <1>1, DisplayRounds
<1>3. f[0] = s /\ Display(s, t) = f[3] /\ \A n \in 1 .. 3 : f[n] = textmode_write(f[n - 1], t[n])
    BY <1>1, <1>2 DEF IsShown
<1>4. /\ f[1] = textmode_write(f[0], t[1]) /\ f[2] = textmode_write(f[1], t[2])
      /\ f[3] = textmode_write(f[2], t[3])
  <2>1. /\ 1 \in 1 .. 3 /\ 2 \in 1 .. 3 /\ 3 \in 1 .. 3
        /\ 1 - 1 = 0 /\ 2 - 1 = 1 /\ 3 - 1 = 2
      OBVIOUS
  <2>2. /\ f[1] = textmode_write(f[1 - 1], t[1]) /\ f[2] = textmode_write(f[2 - 1], t[2])
        /\ f[3] = textmode_write(f[3 - 1], t[3])
      BY <1>3, <2>1
  <2> QED BY <2>1, <2>2
<1> QED BY <1>1, <1>3, <1>4 DEF Erased, t

\* What readline makes of the line and prints, whatever the character.
LEMMA EditedKeeps ==
    ASSUME shell \in Shells, LineRoom, shell.at = "wait", NEW c \in Glyphs, NEW F \in Screens, Tidy(F)
    PROVE  /\ Edited(c) \in Shells /\ Edited(c).at = "run"
           /\ Len(Edited(c).line) < LINE
           /\ ~Edited(c).entered => Len(Edited(c).line) + 1 < LINE
           /\ Tidy(Display(F, Edited(c).todo))
           /\ ~Edited(c).entered /\ ~Edited(c).nul /\ (~shell.nul => Shows(F, Prompt \o shell.line)) =>
                  Shows(Display(F, Edited(c).todo), Prompt \o Edited(c).line)
<1> DEFINE e == Edited(c)
           l == shell.line
<1>1. l \in Texts /\ Len(l) \in Nat /\ shell.nul \in BOOLEAN /\ Len(l) + 1 < LINE /\ LINE \in Nat \ {0, 1}
    BY TextFacts DEF Shells, LineRoom, Texts
\* The record that readline goes on with, field by field.
<1>2. ASSUME NEW line \in Texts, NEW entered \in BOOLEAN, NEW nul \in BOOLEAN, NEW todo \in Texts,
             e = [shell EXCEPT !.at = "run", !.line = line, !.entered = entered, !.nul = nul, !.todo = todo]
      PROVE  /\ e \in Shells /\ e.at = "run" /\ e.line = line /\ e.entered = entered /\ e.nul = nul
             /\ e.todo = todo
  <2> HIDE DEF e
  <2> QED BY <1>2 DEF Shells
<1>3. CASE c = BS /\ l # <<>>
  <2> DEFINE k == Front(l)
             z == Last(l)
  <2>1. k \in Texts /\ Len(k) = Len(l) - 1 /\ Len(k) \in Nat /\ z \in Glyphs /\ l = Append(k, z)
    <3>1. l \in Seq(Glyphs) /\ Len(l) # 0
        BY <1>1, <1>3, EmptySeq DEF Texts
    <3>2. k \in Seq(Glyphs) /\ Len(k) = Len(l) - 1 /\ \A n \in 1 .. Len(l) - 1 : k[n] = l[n]
        BY <1>1, <3>1, SubSeqProperties DEF Front
    <3>3. z = l[Len(l)] /\ z \in Glyphs
        BY <1>1, <3>1, ElementOfSeq DEF Last
    <3> HIDE DEF k, z, l
    <3>4. /\ Append(k, z) \in Seq(Glyphs) /\ Len(Append(k, z)) = Len(k) + 1
          /\ Append(k, z)[Len(k) + 1] = z /\ \A n \in 1 .. Len(k) : Append(k, z)[n] = k[n]
        BY <3>2, <3>3, AppendProperties
    <3>5. \A n \in 1 .. Len(l) : Append(k, z)[n] = l[n]
      <4> SUFFICES ASSUME NEW n \in 1 .. Len(l) PROVE Append(k, z)[n] = l[n]
          OBVIOUS
      <4>1. CASE n = Len(l)
        <5>1. n = Len(k) + 1
            BY <1>1, <3>1, <3>2, <4>1
        <5> QED BY <3>3, <3>4, <4>1, <5>1
      <4>2. CASE n # Len(l)
        <5>1. n \in 1 .. Len(l) - 1 /\ n \in 1 .. Len(k)
            BY <1>1, <3>1, <3>2, <4>2
        <5> QED BY <3>2, <3>4, <5>1
      <4> QED BY <4>1, <4>2
    <3>6. Len(Append(k, z)) = Len(l)
        BY <1>1, <3>1, <3>2, <3>4
    <3>7. l = Append(k, z)
        BY <3>1, <3>4, <3>5, <3>6, SeqEqual
    <3> QED BY <1>1, <3>1, <3>2, <3>3, <3>7 DEF Texts
  <2>2. ~(Len(k) + 1 >= LINE) /\ Len(k) + 1 < LINE /\ Len(k) < LINE
    <3> HIDE DEF k, l
    <3> QED BY <1>1, <2>1
  <2>3. e = [shell EXCEPT !.at = "run", !.line = k, !.entered = FALSE, !.nul = shell.nul,
                          !.todo = <<BS, Blank, BS>>]
    <3>1. c \notin {CR, NL} /\ c # NUL
        BY <1>3, Signs
    <3> HIDE DEF k
    <3> QED BY <1>1, <1>3, <2>2, <3>1 DEF Edited, k
  <2>4. <<BS, Blank, BS>> \in Texts
      BY SignGlyphs DEF Texts
  <2> HIDE DEF e, k, l, z
  <2>5. e \in Shells /\ e.at = "run" /\ e.line = k /\ e.entered = FALSE /\ e.nul = shell.nul
        /\ e.todo = <<BS, Blank, BS>>
      BY ZenonT(40), <1>1, <1>2, <2>1, <2>3, <2>4
  <2>6. Display(F, e.todo) = Erased(F) /\ Tidy(Erased(F))
      BY <2>5, DisplayErase, EraseTidy
  <2>7. Shows(F, Prompt \o l) => Shows(Erased(F), Prompt \o k)
    <3>1. Prompt \o l = Append(Prompt \o k, z) /\ Prompt \o k \in Texts
      <4>1. Prompt \in Seq(Glyphs) /\ k \in Seq(Glyphs)
          BY <2>1, TextFacts DEF Texts
      <4>2. Prompt \o Append(k, z) = Append(Prompt \o k, z) /\ Prompt \o k \in Seq(Glyphs)
          BY <2>1, <4>1
      <4> QED BY <2>1, <4>2 DEF Texts
    <3> QED BY <2>1, <3>1, EraseShows
  <2> QED BY <2>2, <2>5, <2>6, <2>7 DEF e, l
<1>4. CASE c = BS /\ l = <<>>
  <2>1. Len(l) = 0 /\ ~(Len(l) + 1 >= LINE) /\ <<>> \in Texts
      BY <1>1, <1>4 DEF Texts
  <2>2. e = [shell EXCEPT !.at = "run", !.line = l, !.entered = FALSE, !.nul = shell.nul, !.todo = <<>>]
    <3>1. c \notin {CR, NL} /\ c # NUL
        BY <1>4, Signs
    <3> QED BY <1>1, <1>4, <2>1, <3>1 DEF Edited
  <2> HIDE DEF e, l
  <2>3. e \in Shells /\ e.at = "run" /\ e.line = l /\ e.entered = FALSE /\ e.nul = shell.nul /\ e.todo = <<>>
      BY <1>1, <1>2, <2>1, <2>2
  <2>4. Display(F, e.todo) = F
      BY <2>3, DisplayFew
  <2>5. Len(l) < LINE /\ Len(l) + 1 < LINE
      BY <1>1
  <2> QED BY <2>3, <2>4, <2>5 DEF e, l
<1>5. CASE c # BS
  <2> DEFINE k == IF c \in {CR, NL, NUL} THEN l ELSE Append(l, c)
             en == c \in {CR, NL} \/ Len(k) + 1 >= LINE
             nu == shell.nul \/ c = NUL
  <2>1. k \in Texts /\ Len(k) \in Nat /\ Len(k) <= Len(l) + 1
    <3>1. Append(l, c) \in Seq(Glyphs) /\ Len(Append(l, c)) = Len(l) + 1
        BY <1>1, AppendProperties DEF Texts
    <3> QED BY <1>1, <3>1 DEF Texts
  <2>2. <<c>> \in Texts
      BY DEF Texts
  <2>3. e = [shell EXCEPT !.at = "run", !.line = k, !.entered = en, !.nul = nu, !.todo = <<c>>]
      BY <1>5 DEF Edited
  <2>4. en \in BOOLEAN /\ nu \in BOOLEAN
      BY <1>1
  <2> HIDE DEF e, l, k, en, nu
  <2>5. e \in Shells /\ e.at = "run" /\ e.line = k /\ e.entered = en /\ e.nul = nu /\ e.todo = <<c>>
      BY <1>2, <2>1, <2>2, <2>3, <2>4
  <2>6. Display(F, e.todo) = textmode_write(F, c)
      BY <2>5, DisplayFew
  <2>7. Tidy(textmode_write(F, c))
      BY <1>5, WriteTidy
  <2>8. Len(k) < LINE /\ (~en => Len(k) + 1 < LINE)
      BY <1>1, <2>1 DEF en
  <2>9. ASSUME ~en, ~nu, ~shell.nul => Shows(F, Prompt \o l)
        PROVE  Shows(textmode_write(F, c), Prompt \o k)
    <3>1. c \notin {CR, NL} /\ c # NUL /\ Shows(F, Prompt \o l) /\ c \in Plain
        BY <1>5, <2>9 DEF en, nu, Plain
    <3>2. k = Append(l, c)
        BY <3>1 DEF k
    <3>3. Prompt \o k = Append(Prompt \o l, c) /\ Prompt \o l \in Texts /\ Len(Prompt \o l) = Len(Prompt) + Len(l)
      <4>1. Prompt \in Seq(Glyphs) /\ l \in Seq(Glyphs)
          BY <1>1, TextFacts DEF Texts
      <4>2. Prompt \o Append(l, c) = Append(Prompt \o l, c) /\ Prompt \o l \in Seq(Glyphs)
            /\ Len(Prompt \o l) = Len(Prompt) + Len(l)
          BY <4>1
      <4> QED BY <3>2, <4>2 DEF Texts
    <3>4. Len(Prompt \o l) + 1 <= col_max * (row_max - 1)
      <4>1. 0 \in 0 .. row_max - 1
          BY ScreenAssumption
      <4> DEFINE d == col_max * (row_max - 1)
                 p == Len(Prompt)
                 x == Len(l)
                 y == Len(Prompt \o l)
      <4>2. d \in Nat /\ p \in Nat /\ LINE - 1 + p <= d /\ LINE \in Nat \ {0, 1}
            /\ x \in Nat /\ x + 1 < LINE /\ y = p + x
          BY <1>1, <3>3, <4>1, Rows, TextFacts
      <4> HIDE DEF d, p, x, y
      <4>3. y + 1 <= d
          BY <4>2
      <4> QED BY <4>3 DEF d, y
    <3> QED BY <3>1, <3>3, <3>4, WriteShows
  <2> QED BY <2>5, <2>6, <2>7, <2>8, <2>9 DEF e, l
<1> QED BY <1>3, <1>4, <1>5

\* The characters of the keyboard.
LEMMA KeyGlyph ==
    ASSUME NEW k \in Nat, Known(k)
    PROVE  CharOf(k) \in Glyphs
<1>1. scancode_table \in Seq(STRING) /\ Len(scancode_table) \in Nat
    BY ConsoleAssumption
<1>2. STRING \subseteq Glyphs /\ NUL \in Glyphs
    BY DEF Glyphs
<1>3. CASE k = Len(scancode_table)
    BY <1>2, <1>3 DEF CharOf
<1>4. CASE k # Len(scancode_table)
  <2>1. k + 1 \in 1 .. Len(scancode_table)
      BY <1>1, <1>4 DEF Known
  <2>2. scancode_table[k + 1] \in STRING
      BY <1>1, <2>1, ElementOfSeq
  <2>3. CharOf(k) = scancode_table[k + 1]
      BY <1>4 DEF CharOf
  <2> QED BY <1>2, <2>2, <2>3, Zenon
<1> QED BY <1>3, <1>4

LEMMA ConcatThree ==
    ASSUME NEW a \in Texts, NEW b \in Texts, NEW c \in Texts
    PROVE  (a \o b) \o c = a \o (b \o c) /\ a \o b \in Texts /\ a \o <<>> = a /\ <<>> \o a = a
    BY SMTT(30), ConcatAssociative, ConcatEmptySeq, ConcatProperties DEF Texts

LEMMA RestType ==
    ASSUME ConsoleTypes, LineRoom
    PROVE  Rest \in Texts
<1>1. shell.todo \in Texts /\ (outpush # NoPush => shell.todo # <<>>)
    BY DEF ConsoleTypes, LineRoom
<1>2. outpush # NoPush => Tail(shell.todo) \in Texts
    BY <1>1, HeadTailProperties DEF Texts
<1> QED BY <1>1, <1>2 DEF Rest

LEMMA ComingType ==
    ASSUME ConsoleTypes, LineRoom, PipeOK(Out)
    PROVE  Coming \in Screens
<1>1. screen \in Screens /\ Stored(Out) \in Texts /\ Rest \in Texts
    BY StoredType, RestType DEF ConsoleTypes
<1>2. Stored(Out) \o Rest \in Texts
    BY <1>1, ConcatThree
<1> QED BY <1>1, <1>2, DisplayType DEF Coming

\* What is printed next comes after what is still to be shown.
LEMMA ComingThen ==
    ASSUME ConsoleTypes, PipeOK(Out), outpush = NoPush, shell.todo = <<>>, NEW text \in Texts
    PROVE  /\ Coming \in Screens
           /\ Display(screen, Stored(Out) \o text) = Display(Coming, text)
<1>1. screen \in Screens /\ Stored(Out) \in Texts
    BY StoredType DEF ConsoleTypes
<1>2. Coming = Display(screen, Stored(Out))
    BY <1>1, ConcatThree DEF Coming, Rest
<1> QED BY <1>1, <1>2, DisplayType, DisplayConcat

\* The same after a step.
LEMMA ComingNext == Coming' = Display(screen', Stored(Out') \o Rest')
    BY DEF Coming, Stored

\* A step that has nothing to do with outpipe.
LEMMA OutKept ==
    ASSUME UNCHANGED <<screen, outpipe, outpush, outpop>>, shell'.todo = shell.todo
    PROVE  Out' = Out /\ Rest' = Rest /\ Coming' = Coming /\ (OutInv => OutInv')
<1>1. Out' = Out /\ Rest' = Rest
    BY DEF Out, Rest
<1>2. Coming' = Coming
    BY <1>1, ComingNext DEF Coming
<1>3. PipeOK(Out)' = PipeOK(Out')
    BY DEF PipeOK, Linked, Cell, Pipes
<1>4. OutInv => OutInv'
    BY <1>1, <1>3 DEF OutInv, Oldest
<1> QED BY <1>1, <1>2, <1>4

LEMMA NoOps ==
    /\ NoPush \in Pushes /\ NoPop \in Pops
    /\ NoPush.at = "head" /\ NoPop.at = "spin"
    /\ \A p \in Pushes : p.at \in {"head", "put", "raise"} /\ (p.at = "head" => p = NoPush)
    /\ \A p \in Pushes : p.at = "raise" => p.l \in 0 .. PIPE_SIZE - 1
    /\ \A p \in Pops : p.at \in {"spin", "lower", "item", "tail"} /\ (p.at = "spin" => p = NoPop)
    /\ \A p \in Pops : p.at = "lower" => p.l \in 1 .. PIPE_SIZE
    /\ \A p \in Pops : p.at = "tail" => p.c \in Glyphs
    BY DEF NoPush, NoPop, Pushes, Pops

\* Nothing is under way.
LEMMA OutAtRest ==
    ASSUME outpush = NoPush, outpop = NoPop
    PROVE  Out = outpipe /\ Rest = shell.todo
    BY NoOps DEF Out, Rest

-----------------------------------------------------------------------------
(* The steps of the console, one lemma for each. *)

LEMMA ConsoleInit == Init => ConsoleInv
<1> SUFFICES ASSUME Init PROVE ConsoleInv
    OBVIOUS
<1> DEFINE t == Motd \o Prompt
<1>1. Forward(Motd) /\ Forward(t) /\ t \in Texts
  <2>1. Motd \in Printed
      BY DEF Printed
  <2> QED BY <2>1, TextFacts, ForwardConcat DEF Forward
<1>2. PipeOK(EmptyPipe) /\ EmptyPipe.length = 0
  <2>1. 0 \in Indices /\ 0 \in 0 .. PIPE_SIZE /\ NUL \in Glyphs
      BY RingAssumption, SignGlyphs DEF Indices
  <2>2. EmptyPipe \in Pipes
      BY <2>1 DEF EmptyPipe, Pipes
  <2> QED BY <2>2 DEF EmptyPipe, PipeOK, Linked
<1>3. textmode_init = [buffer |-> [n \in Cells |-> Blank], col |-> 0, row |-> 0]
    BY DEF textmode_init, textmode_clear
<1>4. textmode_init \in Screens /\ Tidy(textmode_init)
  <2>1. 0 \in 0 .. col_max - 1 /\ 0 \in 0 .. row_max - 1 /\ Blank \in Glyphs
      BY ScreenAssumption, SignGlyphs
  <2>2. textmode_init \in Screens
      BY <1>3, <2>1 DEF Screens
  <2> QED BY <1>3, <2>2 DEF Tidy
<1> HIDE DEF t
<1>5. shell = [at |-> "run", line |-> <<>>, entered |-> FALSE, nul |-> FALSE, todo |-> t]
    BY DEF Init, NewLine, t
<1>6. ConsoleTypes
  <2>1. shell \in [at : {"run", "write", "wait", "dead", "hung"}, line : Texts,
                   entered : BOOLEAN, nul : BOOLEAN, todo : Texts]
    <3>1. <<>> \in Texts
        BY DEF Texts
    <3> QED BY <1>1, <1>5, <3>1
  <2>2. script \in Seq(Nat) /\ kbd \in Seq(Nat)
    <3>1. Scripts \subseteq Seq(Nat)
        BY ConsoleAssumption
    <3> QED BY <3>1 DEF Init
  <2> QED BY <1>2, <1>4, <2>1, <2>2, NoOps DEF Init, ConsoleTypes, PipeOK
<1>7. LineRoom
  <2>1. shell.at = "run" /\ Len(shell.line) = 0 /\ outpush = NoPush
      BY <1>5 DEF Init
  <2> QED BY <2>1, TextFacts DEF LineRoom
<1>8. LineInv
  <2>1. Out = outpipe /\ Rest = t /\ screen = textmode_init /\ outpush = NoPush /\ outpop = NoPop
      BY <1>5, OutAtRest DEF Init
  <2>2. PipeOK(Out) /\ Out.length = 0
      BY <1>2, <2>1 DEF Init
  <2>3. Stored(Out) = <<>>
    <3>1. Stored(Out) \in Texts /\ Len(Stored(Out)) = 0
        BY <2>2, StoredType
    <3> QED BY <3>1, EmptySeq DEF Texts
  <2>4. Coming = Display(textmode_init, t)
      BY <1>1, <2>1, <2>3, ConcatThree DEF Coming
  <2>5. Tidy(Coming) /\ Shows(Coming, Prompt \o <<>>)
      BY <1>1, <1>4, <2>4, NextPrompt DEF t
  <2>6. OutInv
      BY <2>1, <2>2, NoOps DEF OutInv
  <2> QED BY <1>5, <2>5, <2>6 DEF LineInv
<1> QED BY <1>6, <1>7, <1>8 DEF ConsoleInv

\* Steps that neither the line nor what is printed depends on.
LEMMA LineInvKept ==
    ASSUME ConsoleInv, ConsoleTypes', UNCHANGED <<shell, screen, outpipe, outpush, outpop, clean>>
    PROVE  ConsoleInv'
<1>1. Coming' = Coming /\ (OutInv => OutInv')
    BY OutKept
<1>2. LineRoom' /\ LineInv'
    BY <1>1 DEF ConsoleInv, LineRoom, LineInv, Good
<1> QED BY <1>2 DEF ConsoleInv

LEMMA PressKeeps == ConsoleInv /\ press => ConsoleInv'
<1> SUFFICES ASSUME ConsoleInv, press PROVE ConsoleInv'
    OBVIOUS
<1>1. script' \in Seq(Nat) /\ kbd' \in Seq(Nat)
  <2>1. script \in Seq(Nat) /\ script # <<>> /\ kbd \in Seq(Nat)
      BY DEF ConsoleInv, ConsoleTypes, press
  <2>2. Head(script) \in Nat /\ Tail(script) \in Seq(Nat)
      BY <2>1, HeadTailProperties
  <2>3. Append(kbd, Head(script)) \in Seq(Nat)
      BY <2>1, <2>2, AppendProperties
  <2> QED BY <2>2, <2>3 DEF press
<1>2. ConsoleTypes'
    BY <1>1 DEF ConsoleInv, ConsoleTypes, press, ring_ops
<1> QED BY <1>2, LineInvKept DEF press, ring_ops

LEMMA KbdKeeps == ConsoleInv /\ kbd_isr_main => ConsoleInv'
<1> SUFFICES ASSUME ConsoleInv, kbd_isr_main PROVE ConsoleInv'
    OBVIOUS
<1> DEFINE stop == SelectInSeq(kbd, LAMBDA k : ~Known(k))
           n == IF stop = 0 THEN Len(kbd) ELSE stop - 1
           chars == [k \in 1 .. n |-> CharOf(kbd[k])]
           I == {i \in 1 .. Len(kbd) : ~Known(kbd[i])}
<1>1. kbd \in Seq(Nat) /\ Len(kbd) \in Nat
    BY DEF ConsoleInv, ConsoleTypes
<1>2. stop = IF I # {} THEN Min(I) ELSE 0
    BY DEF SelectInSeq
<1>3. I # {} => Min(I) \in I /\ \A x \in I : Min(I) <= x
  <2>1. I \subseteq Nat
      BY <1>1
  <2> QED BY <2>1, MinIn
<1>4. stop \in 0 .. Len(kbd) /\ n \in 0 .. Len(kbd) /\ \A k \in 1 .. n : k \in 1 .. Len(kbd) /\ Known(kbd[k])
  <2>1. CASE I = {}
    <3>1. stop = 0 /\ n = Len(kbd)
        BY <1>2, <2>1
    <3> HIDE DEF stop, n
    <3> QED BY <1>1, <2>1, <3>1
  <2>2. CASE I # {}
    <3>1. stop = Min(I) /\ stop \in I /\ \A x \in I : stop <= x
        BY <1>2, <1>3, <2>2
    <3> HIDE DEF stop
    <3>2. stop \in 1 .. Len(kbd) /\ n = stop - 1
        BY <1>1, <3>1
    <3> HIDE DEF n
    <3>3. \A k \in 1 .. n : k \in 1 .. Len(kbd) /\ ~(stop <= k)
        BY <1>1, <3>2
    <3>4. \A k \in 1 .. n : Known(kbd[k])
        BY <1>1, <3>1, <3>3
    <3>5. stop \in 0 .. Len(kbd) /\ n \in 0 .. Len(kbd)
        BY <1>1, <3>2
    <3> QED BY <3>3, <3>4, <3>5
  <2> QED BY <2>1, <2>2
<1> HIDE DEF stop, n, I
<1>5. \A k \in 1 .. n : CharOf(kbd[k]) \in Glyphs
  <2>1. \A k \in 1 .. n : kbd[k] \in Nat
      BY <1>1, <1>4, ElementOfSeq
  <2> QED BY <1>4, <2>1, KeyGlyph
<1>6. chars \in Texts
  <2>1. n \in Nat
      BY <1>1, <1>4
  <2> QED BY <1>5, <2>1 DEF Texts
<1>7. FoldLeft(Pushed, inpipe, chars) \in Pipes
  <2> HIDE DEF chars
  <2> QED BY <1>6, LogOK DEF ConsoleInv, ConsoleTypes
<1>8. /\ kbd' = IF stop = 0 THEN <<>> ELSE SubSeq(kbd, stop + 1, Len(kbd))
      /\ inpipe' = FoldLeft(Pushed, inpipe, chars)
      /\ UNCHANGED <<script, outpipe, outpush, inpop, outpop, spinlock, shell, screen, clean>>
    BY DEF kbd_isr_main, stop, n
<1> HIDE DEF chars
<1>9. kbd' \in Seq(Nat)
  <2>1. stop # 0 => SubSeq(kbd, stop + 1, Len(kbd)) \in Seq(Nat)
      BY <1>1, <1>4, SubSeqProperties
  <2> QED BY <1>8, <2>1
<1>10. ConsoleTypes'
    BY <1>7, <1>8, <1>9 DEF ConsoleInv, ConsoleTypes
<1> QED BY <1>8, <1>10, LineInvKept

\* The steps of a pop, whatever has come between.
LEMMA PopTypes ==
    ASSUME NEW p \in Pops, NEW q \in Pipes
    PROVE  /\ q.length # 0 => [at |-> "lower", l |-> q.length, c |-> NUL] \in Pops
           /\ [at |-> "item", l |-> 0, c |-> NUL] \in Pops
           /\ [at |-> "tail", l |-> 0, c |-> Oldest(q)] \in Pops
           /\ p.at = "lower" => [q EXCEPT !.length = p.l - 1] \in Pipes
           /\ [q EXCEPT !.tail = IF q.length # 0 THEN (@ + 1) % PIPE_SIZE ELSE @] \in Pipes
<1>1. q.items \in [Indices -> Glyphs] /\ q.tail \in Indices /\ q.length \in 0 .. PIPE_SIZE
      /\ PIPE_SIZE \in Nat \ {0, 1}
    BY RingAssumption DEF Pipes
<1>2. q.length # 0 => [at |-> "lower", l |-> q.length, c |-> NUL] \in Pops
  <2>1. q.length # 0 => q.length \in 1 .. PIPE_SIZE
      BY <1>1
  <2>2. q.length # 0 => [at |-> "lower", l |-> q.length, c |-> NUL] \in [at : {"lower"}, l : 1 .. PIPE_SIZE, c : {NUL}]
      BY <2>1
  <2> QED BY <2>2 DEF Pops
<1>3. p.at = "lower" => [q EXCEPT !.length = p.l - 1] \in Pipes
  <2>1. p.at = "lower" => p.l \in 1 .. PIPE_SIZE
      BY NoOps
  <2>2. p.at = "lower" => p.l - 1 \in 0 .. PIPE_SIZE
      BY <1>1, <2>1
  <2> QED BY <2>2 DEF Pipes
<1>4. [q EXCEPT !.tail = IF q.length # 0 THEN (@ + 1) % PIPE_SIZE ELSE @] \in Pipes
  <2> DEFINE t == IF q.length # 0 THEN (q.tail + 1) % PIPE_SIZE ELSE q.tail
  <2>1. t \in Indices
    <3>1. q.tail \in Nat
        BY <1>1 DEF Indices
    <3> QED BY <1>1, <3>1, Succ
  <2> HIDE DEF t
  <2>2. [q EXCEPT !.tail = t] \in Pipes
      BY <2>1 DEF Pipes
  <2> QED BY <2>2 DEF t
<1>5. Oldest(q) \in Glyphs
    BY <1>1 DEF Oldest
<1>6. [at |-> "item", l |-> 0, c |-> NUL] \in Pops /\ [at |-> "tail", l |-> 0, c |-> Oldest(q)] \in Pops
    BY <1>5 DEF Pops
<1> QED BY <1>2, <1>3, <1>4, <1>6

\* Up to its last step a pop leaves Out as it is, and then takes the oldest
\* character from it.
LEMMA TtyKeeps == ConsoleInv /\ tty_out_thread => ConsoleInv'
<1> SUFFICES ASSUME ConsoleInv, tty_out_thread PROVE ConsoleInv'
    OBVIOUS
<1>1. /\ outpipe \in Pipes /\ outpop \in Pops /\ outpush \in Pushes /\ screen \in Screens
      /\ LineRoom /\ ConsoleTypes
    BY DEF ConsoleInv, ConsoleTypes
<1>2. /\ clean' = (clean /\ outpush = NoPush)
      /\ UNCHANGED <<script, kbd, inpipe, outpush, inpop, spinlock, shell>>
    BY DEF tty_out_thread
<1>3. ASSUME outpop' \in Pops, outpipe' \in Pipes, screen' \in Screens,
             Good' => OutInv' /\ Coming' = Coming
      PROVE  ConsoleInv'
  <2>1. clean' \in BOOLEAN
      BY <1>2
  <2>2. ConsoleTypes'
      BY <1>1, <1>2, <1>3, <2>1 DEF ConsoleTypes
  <2>3. LineRoom'
      BY <1>1, <1>2 DEF LineRoom
  <2>4. Good' => Good
      BY <1>2 DEF Good
  <2>5. LineInv'
      BY <1>2, <1>3, <2>4 DEF ConsoleInv, LineInv
  <2> QED BY <2>2, <2>3, <2>5 DEF ConsoleInv
\* What is known before the step if the console is still clean after it.
<1>4. Good' => /\ OutInv /\ outpush = NoPush /\ outpush' = NoPush /\ Rest = shell.todo /\ Rest' = Rest
  <2>1. Good' => Good /\ outpush = NoPush
      BY <1>2 DEF Good
  <2>2. outpush = NoPush => Rest = shell.todo /\ Rest' = shell.todo
      BY <1>2 DEF Rest
  <2> QED BY <1>2, <2>1, <2>2 DEF ConsoleInv, LineInv
<1>5. ASSUME Good', Out' = Out, screen' = screen PROVE Coming' = Coming
  <2>1. Coming' = Display(screen', Stored(Out') \o Rest')
      BY ComingNext
  <2> QED BY <1>4, <1>5, <2>1 DEF Coming
<1>6. PipeOK(Out)' = PipeOK(Out')
    BY DEF PipeOK, Linked, Cell, Pipes
<1>7. CASE load_length(outpop, outpipe) /\ UNCHANGED screen
  <2>1. /\ outpop.at = "spin" /\ outpipe.length # 0 /\ outpop' = [at |-> "lower", l |-> outpipe.length, c |-> NUL]
        /\ outpipe' = outpipe /\ screen' = screen /\ outpop' \in Pops /\ outpop = NoPop
    <3>1. outpop.at = "spin" /\ outpipe.length # 0 /\ outpipe' = outpipe /\ screen' = screen
          /\ outpop' = [at |-> "lower", l |-> outpipe.length, c |-> NUL]
        BY <1>7 DEF load_length
    <3>2. [at |-> "lower", l |-> outpipe.length, c |-> NUL] \in Pops
        BY <1>1, <3>1, PopTypes
    <3>3. outpop = NoPop
        BY <1>1, <3>1, NoOps
    <3> QED BY <3>1, <3>2, <3>3
  <2>2. outpop'.at = "lower" /\ outpop'.l = outpipe'.length
      BY <2>1
  <2>3. ASSUME Good' PROVE Out' = Out
    <3>1. Out = outpipe
        BY <1>3, <1>4, <2>1, <2>3, OutAtRest
    <3>2. Out' = outpipe'
        BY <1>4, <2>2, <2>3, NoOps DEF Out
    <3> QED BY <2>1, <3>1, <3>2
  <2>4. ASSUME Good' PROVE OutInv'
    <3>1. PipeOK(Out')
        BY <1>4, <2>3, <2>4 DEF OutInv
    <3>2. outpush'.at # "raise"
        BY <1>4, <2>4, NoOps
    <3> QED BY <1>4, <1>6, <2>2, <2>4, <3>1, <3>2 DEF OutInv
  <2> QED BY <1>1, <1>3, <1>5, <2>1, <2>3, <2>4
<1>8. CASE lower_length(outpop, outpipe) /\ UNCHANGED screen
  <2>1. /\ outpop.at = "lower" /\ outpop' = [at |-> "item", l |-> 0, c |-> NUL] /\ screen' = screen
        /\ outpipe' = [outpipe EXCEPT !.length = outpop.l - 1] /\ outpipe' \in Pipes /\ outpop' \in Pops
    <3>1. outpop.at = "lower" /\ screen' = screen /\ outpop' = [at |-> "item", l |-> 0, c |-> NUL]
          /\ outpipe' = [outpipe EXCEPT !.length = outpop.l - 1]
        BY <1>8 DEF lower_length
    <3>2. /\ [at |-> "item", l |-> 0, c |-> NUL] \in Pops
          /\ [outpipe EXCEPT !.length = outpop.l - 1] \in Pipes
        BY <1>1, <3>1, PopTypes
    <3> QED BY <3>1, <3>2
  <2>2. outpop'.at = "item"
      BY <2>1
  <2>3. ASSUME Good' PROVE Out' = Out
    <3>1. Out = outpipe /\ outpop.l = outpipe.length
        BY <1>4, <2>1, <2>3, NoOps DEF Out, OutInv
    <3>2. Out' = [outpipe' EXCEPT !.length = @ + 1]
        BY <1>4, <2>2, <2>3, NoOps DEF Out
    <3>3. outpipe' = [outpipe EXCEPT !.length = outpipe.length - 1]
        BY <2>1, <3>1
    <3>4. outpipe.length - 1 + 1 = outpipe.length
        BY <1>1 DEF Pipes
    <3>5. Out' = [outpipe EXCEPT !.length = (outpipe.length - 1) + 1]
        BY <1>1, <3>2, <3>3 DEF Pipes
    <3> QED BY <1>1, <3>1, <3>4, <3>5 DEF Pipes
  <2>4. ASSUME Good' PROVE OutInv'
    <3>1. PipeOK(Out')
        BY <1>4, <2>3, <2>4 DEF OutInv
    <3>2. outpush'.at # "raise"
        BY <1>4, <2>4, NoOps
    <3> QED BY <1>4, <1>6, <2>2, <2>4, <3>1, <3>2 DEF OutInv
  <2> QED BY <1>1, <1>3, <1>5, <2>1, <2>3, <2>4
<1>9. CASE take_item(outpop, outpipe) /\ UNCHANGED screen
  <2>1. /\ outpop.at = "item" /\ outpop' = [at |-> "tail", l |-> 0, c |-> Oldest(outpipe)]
        /\ outpipe' = outpipe /\ screen' = screen /\ outpop' \in Pops
    <3>1. outpop.at = "item" /\ screen' = screen /\ outpipe' = outpipe
          /\ outpop' = [at |-> "tail", l |-> 0, c |-> Oldest(outpipe)]
        BY <1>9 DEF take_item
    <3>2. [at |-> "tail", l |-> 0, c |-> Oldest(outpipe)] \in Pops
        BY <1>1, <3>1, PopTypes
    <3> QED BY <3>1, <3>2
  <2>2. outpop'.at = "tail" /\ outpop'.c = Oldest(outpipe')
      BY <2>1
  <2>3. ASSUME Good' PROVE Out' = Out
      BY <1>4, <2>1, <2>2, <2>3, NoOps DEF Out
  <2>4. ASSUME Good' PROVE OutInv'
    <3>1. PipeOK(Out')
        BY <1>4, <2>3, <2>4 DEF OutInv
    <3>2. outpush'.at # "raise"
        BY <1>4, <2>4, NoOps
    <3>3. Oldest(outpipe') = Oldest(outpipe)'
        BY DEF Oldest
    <3> QED BY <1>4, <1>6, <2>2, <2>4, <3>1, <3>2, <3>3 DEF OutInv
  <2> QED BY <1>1, <1>3, <1>5, <2>1, <2>3, <2>4
<1>10. CASE move_tail(outpop, outpipe) /\ screen' = textmode_write(screen, outpop.c)
  <2> DEFINE o == outpop.c
  <2>1. /\ outpop.at = "tail" /\ outpop' = NoPop /\ o \in Glyphs
        /\ outpipe' = [outpipe EXCEPT !.tail = IF outpipe.length # 0 THEN (@ + 1) % PIPE_SIZE ELSE @]
        /\ outpipe' \in Pipes /\ outpop' \in Pops /\ screen' = textmode_write(screen, o)
    <3>1. outpop.at = "tail" /\ outpop' = NoPop /\ screen' = textmode_write(screen, o)
          /\ outpipe' = [outpipe EXCEPT !.tail = IF outpipe.length # 0 THEN (@ + 1) % PIPE_SIZE ELSE @]
        BY <1>10 DEF move_tail
    <3>2. [outpipe EXCEPT !.tail = IF outpipe.length # 0 THEN (@ + 1) % PIPE_SIZE ELSE @] \in Pipes
        BY <1>1, PopTypes
    <3>3. o \in Glyphs
        BY <1>1, <3>1, NoOps
    <3> QED BY <3>1, <3>2, <3>3, NoOps
  <2>2. screen' \in Screens
      BY <1>1, <2>1, WriteType
  <2>3. ASSUME Good' PROVE PipeOK(Out) /\ Out.length # 0 /\ Oldest(Out) = o /\ Popped(Out) = outpipe' /\ Out' = outpipe'
    <3>1. Out = [outpipe EXCEPT !.length = @ + 1] /\ PipeOK(Out) /\ o = Oldest(outpipe)
        BY <1>4, <2>1, <2>3, NoOps DEF Out, OutInv
    <3> DEFINE q == Out
               L == outpipe.length
    <3>2. outpipe = [items |-> outpipe.items, head |-> outpipe.head, tail |-> outpipe.tail, length |-> L]
          /\ L \in 0 .. PIPE_SIZE
        BY <1>1 DEF Pipes
    <3>3. q = [items |-> outpipe.items, head |-> outpipe.head, tail |-> outpipe.tail, length |-> L + 1]
        BY <3>1, <3>2
    <3> HIDE DEF q
    <3>4. q.length = L + 1 /\ q.tail = outpipe.tail /\ q.items = outpipe.items /\ q.head = outpipe.head
        BY <3>3
    <3>5. (L + 1 # 1 <=> L # 0) /\ (L + 1) - 1 = L /\ L + 1 # 0
        BY <3>2, RingAssumption
    <3>6. Popped(q) = outpipe'
      <4> DEFINE t == IF L # 0 THEN (outpipe.tail + 1) % PIPE_SIZE ELSE outpipe.tail
      <4>1. Popped(q) = [items |-> outpipe.items, head |-> outpipe.head, tail |-> t, length |-> L]
        <5> DEFINE u == IF q.length # 1 THEN (q.tail + 1) % PIPE_SIZE ELSE q.tail
                   k == q.length - 1
        <5>1. u = t /\ k = L
            BY <3>4, <3>5
        <5>2. Popped(q) = [q EXCEPT !.length = k, !.tail = u]
            BY DEF Popped
        <5> HIDE DEF u, k, t, L
        <5>3. Popped(q) = [items |-> outpipe.items, head |-> outpipe.head, tail |-> u, length |-> k]
            BY <3>3, <5>2
        <5> QED BY <5>1, <5>3
      <4>2. outpipe' = [outpipe EXCEPT !.tail = t]
          BY <2>1
      <4> HIDE DEF t, L
      <4>3. outpipe' = [items |-> outpipe.items, head |-> outpipe.head, tail |-> t, length |-> L]
          BY <3>2, <4>2
      <4> QED BY <4>1, <4>3
    <3>7. Oldest(q) = o
        BY <3>1, <3>4 DEF Oldest
    <3>8. Out' = outpipe'
        BY <1>4, <2>1, <2>3, NoOps DEF Out
    <3> QED BY <3>1, <3>4, <3>5, <3>6, <3>7, <3>8 DEF q
  <2> HIDE DEF o
  <2>4. ASSUME Good' PROVE Coming' = Coming /\ OutInv'
    <3> DEFINE x == <<o>>
               y == Stored(outpipe')
               z == Rest
    <3>1. PipeOK(outpipe') /\ Stored(Out) = x \o y
        BY <2>3, <2>4, PopIs
    <3>2. x \in Texts /\ y \in Texts /\ z \in Texts
      <4>1. y \in Texts
          BY <3>1, StoredType
      <4>2. z \in Texts
          BY <1>1, RestType
      <4> QED BY <2>1, <4>1, <4>2 DEF Texts
    <3>3. Display(screen, x) = screen'
        BY <1>1, <2>1, DisplayFew
    <3>4. Coming' = Display(screen', y \o z)
      <4>1. Coming' = Display(screen', Stored(Out') \o Rest')
          BY ComingNext
      <4> QED BY <1>4, <2>3, <2>4, <4>1
    <3>5. Coming = Display(screen, (x \o y) \o z)
        BY <3>1 DEF Coming
    <3> HIDE DEF x, y, z
    <3>6. (x \o y) \o z = x \o (y \o z) /\ y \o z \in Texts
      <4>1. x \in Seq(Glyphs) /\ y \in Seq(Glyphs) /\ z \in Seq(Glyphs)
          BY <3>2 DEF Texts
      <4>2. (x \o y) \o z = x \o (y \o z)
          BY <4>1, ConcatAssociative
      <4> QED BY <4>1, <4>2, ConcatProperties DEF Texts
    <3>7. Coming' = Coming
        BY <1>1, <3>2, <3>3, <3>4, <3>5, <3>6, DisplayConcat
    <3>8. OutInv'
      <4>1. outpop' = NoPop /\ outpush' = NoPush /\ PipeOK(Out')
          BY <1>4, <2>1, <2>3, <2>4, <3>1
      <4> QED BY <1>6, <4>1, NoOps DEF OutInv
    <3> QED BY <3>7, <3>8
  <2> QED BY <1>3, <2>1, <2>2, <2>4
<1> QED BY <1>7, <1>8, <1>9, <1>10 DEF tty_out_thread, popping

LEMMA WriteLockKeeps == ConsoleInv /\ write_lock => ConsoleInv'
<1> SUFFICES ASSUME ConsoleInv, write_lock PROVE ConsoleInv'
    OBVIOUS
<1>1. /\ shell.at = "run" /\ shell.todo # <<>> /\ spinlock' = "shell"
      /\ shell' = [shell EXCEPT !.at = "write"]
      /\ UNCHANGED <<script, kbd, inpipe, outpipe, outpush, inpop, outpop, screen, clean>>
    BY DEF write_lock, spinlock_lock_impl, ring_ops
<1>2. shell \in Shells
    BY DEF ConsoleInv, ConsoleTypes, Shells
<1>3. shell' \in Shells /\ shell'.at = "write" /\ shell'.line = shell.line /\ shell'.entered = shell.entered
      /\ shell'.nul = shell.nul /\ shell'.todo = shell.todo
    BY <1>1, <1>2 DEF Shells
<1>4. ConsoleTypes'
    BY <1>1, <1>3 DEF ConsoleInv, ConsoleTypes, Shells
<1>5. Coming' = Coming /\ (OutInv => OutInv')
    BY <1>1, <1>3, OutKept
<1>6. LineRoom' /\ LineInv'
    BY <1>1, <1>3, <1>5 DEF ConsoleInv, LineRoom, LineInv, Good
<1> QED BY <1>4, <1>6 DEF ConsoleInv

\* The first step of the push makes Out the longer pipe, and the others leave
\* it so.
LEMMA TtyWriteKeeps == ConsoleInv /\ tty_write => ConsoleInv'
<1> SUFFICES ASSUME ConsoleInv, tty_write PROVE ConsoleInv'
    OBVIOUS
<1> DEFINE h == Head(shell.todo)
           t == Tail(shell.todo)
<1>1. shell.at = "write" /\ UNCHANGED <<script, kbd, inpipe, inpop, outpop, screen>>
    BY DEF tty_write
<1>2. /\ shell \in Shells /\ shell.todo \in Texts /\ shell.todo # <<>> /\ outpipe \in Pipes
      /\ screen \in Screens /\ outpush \in Pushes /\ outpop \in Pops /\ ConsoleTypes /\ LineRoom
    BY <1>1 DEF ConsoleInv, ConsoleTypes, Shells, LineRoom
<1>3. h \in Glyphs /\ t \in Texts /\ shell.todo = <<h>> \o t
    BY <1>2, HeadTailProperties DEF Texts
<1>4. PIPE_SIZE \in Nat \ {0, 1} /\ outpipe.length \in 0 .. PIPE_SIZE
    BY <1>2, RingAssumption DEF Pipes
<1> HIDE DEF h, t
\* The two ways on: the push goes on, or it has ended.
<1>5. ASSUME UNCHANGED <<shell, spinlock>>, outpush' \in Pushes, outpush' # NoPush, outpipe' \in Pipes,
             clean' \in BOOLEAN, clean' => clean, Good' => OutInv' /\ Coming' = Coming
      PROVE  ConsoleInv'
  <2>1. ConsoleTypes'
      BY <1>1, <1>2, <1>5 DEF ConsoleTypes
  <2>2. LineRoom'
      BY <1>1, <1>2, <1>5 DEF LineRoom
  <2>3. LineInv'
      BY <1>5 DEF ConsoleInv, LineInv, Good
  <2> QED BY <2>1, <2>2, <2>3 DEF ConsoleInv
<1>6. ASSUME written, outpipe' \in Pipes, clean' = clean, Good => OutInv' /\ Coming' = Coming
      PROVE  ConsoleInv'
  <2>1. outpush' = NoPush /\ spinlock' = "free" /\ shell' = [shell EXCEPT !.at = "run", !.todo = t]
      BY <1>6 DEF written, spinlock_unlock_impl, t
  <2>2. shell' \in Shells /\ shell'.at = "run" /\ shell'.line = shell.line /\ shell'.entered = shell.entered
        /\ shell'.nul = shell.nul /\ shell'.todo = t
      BY <1>2, <1>3, <2>1 DEF Shells
  <2>3. ConsoleTypes'
      BY <1>1, <1>2, <1>6, <2>1, <2>2, NoOps DEF ConsoleTypes, Shells
  <2>4. LineRoom'
      BY <1>1, <1>2, <2>1, <2>2 DEF LineRoom
  <2>5. LineInv'
      BY <1>1, <1>6, <2>2 DEF ConsoleInv, LineInv, Good
  <2> QED BY <2>3, <2>4, <2>5 DEF ConsoleInv
<1>7. PipeOK(Out)' = PipeOK(Out')
    BY DEF PipeOK, Linked, Cell, Pipes
<1>8. CASE move_head
  <2>1. /\ outpush.at = "head" /\ outpush' = [at |-> "put", l |-> 0] /\ outpipe' = Advanced(outpipe)
        /\ clean' = (clean /\ outpop = NoPop /\ Fits(outpipe, <<h>>)) /\ UNCHANGED <<shell, spinlock>>
      BY <1>8 DEF move_head, h
  <2>2. outpush = NoPush /\ outpush' \in Pushes /\ outpush'.at = "put" /\ outpush' # NoPush
    <3>1. outpush'.at = "put" /\ outpush' \in Pushes
        BY <2>1 DEF Pushes
    <3> QED BY <1>2, <2>1, <3>1, NoOps
  <2>3. outpipe' \in Pipes /\ outpipe'.length = outpipe.length
      BY <1>2, <1>3, <2>1, PushPipe
  <2>4. ASSUME Good' PROVE OutInv' /\ Coming' = Coming
    <3>1. clean /\ outpop = NoPop /\ outpop' = NoPop /\ outpipe.length < PIPE_SIZE /\ Good
      <4>1. clean /\ outpop = NoPop /\ outpipe.length + Len(<<h>>) <= PIPE_SIZE /\ Len(<<h>>) = 1
          BY <2>1, <2>4 DEF Fits, Good
      <4> QED BY <1>1, <1>4, <4>1 DEF Good
    <3>2. Out = outpipe /\ Rest = shell.todo /\ PipeOK(outpipe)
      <4>1. Out = outpipe /\ Rest = shell.todo
          BY <2>2, <3>1, OutAtRest
      <4> QED BY <3>1, <4>1 DEF ConsoleInv, LineInv, OutInv
    <3>3. Out' = Pushed(outpipe, h)
      <4>1. Out' = [outpipe' EXCEPT !.items[outpipe'.head] = h, !.length = @ + 1]
          BY <2>1, <2>2 DEF Out, h
      <4> DEFINE m == Advanced(outpipe)
      <4>2. m.length < PIPE_SIZE
          BY <2>1, <2>3, <3>1
      <4>3. Pushed(outpipe, h) = [m EXCEPT !.items[m.head] = h,
                                           !.length = IF @ < PIPE_SIZE THEN @ + 1 ELSE @]
          BY DEF Pushed
      <4> HIDE DEF m
      <4> QED BY <2>1, <4>1, <4>2, <4>3 DEF m
    <3>4. PipeOK(Out') /\ Stored(Out') = Append(Stored(outpipe), h)
        BY <1>3, <3>1, <3>2, <3>3, PushIs, StoredPush
    <3>5. Rest' = t
        BY <2>1, <2>2 DEF Rest, t
    <3>6. Stored(Out') \o t = Stored(outpipe) \o shell.todo
      <4> DEFINE a == Stored(outpipe)
                 x == <<h>>
      <4>1. a \in Seq(Glyphs) /\ x \in Seq(Glyphs) /\ t \in Seq(Glyphs)
          BY <1>3, <3>2, StoredType DEF Texts
      <4>2. Append(a, h) = a \o x
          BY <1>3, <4>1
      <4> HIDE DEF a, x
      <4>3. (a \o x) \o t = a \o (x \o t)
          BY <4>1, ConcatAssociative
      <4> QED BY <1>3, <3>4, <4>2, <4>3 DEF a, x
    <3>7. Coming' = Coming
      <4>1. Coming' = Display(screen', Stored(Out') \o Rest')
          BY ComingNext
      <4> QED BY <1>1, <3>2, <3>5, <3>6, <4>1 DEF Coming
    <3>8. OutInv'
        BY <1>7, <2>2, <3>1, <3>4, NoOps DEF OutInv
    <3> QED BY <3>7, <3>8
  <2>5. clean' \in BOOLEAN /\ (clean' => clean)
      BY <2>1
  <2> QED BY <1>5, <2>1, <2>2, <2>3, <2>4, <2>5
<1>9. CASE put_item
  <2>1. /\ outpush.at = "put" /\ outpipe' = [outpipe EXCEPT !.items[outpipe.head] = h] /\ clean' = clean
        /\ IF outpipe.length < PIPE_SIZE
           THEN outpush' = [at |-> "raise", l |-> outpipe.length] /\ UNCHANGED <<shell, spinlock>>
           ELSE written
      BY <1>9 DEF put_item, h
  <2>2. outpush # NoPush /\ Out = [outpipe EXCEPT !.items[outpipe.head] = h, !.length = @ + 1]
      BY <2>1, NoOps DEF Out, h
  <2>3. outpipe' \in Pipes /\ outpipe'.length = outpipe.length
    <3> DEFINE items == [outpipe.items EXCEPT ![outpipe.head] = h]
    <3>1. items \in [Indices -> Glyphs]
        BY <1>2, <1>3 DEF Pipes
    <3>2. outpipe' = [outpipe EXCEPT !.items = items]
        BY <1>2, <2>1 DEF Pipes
    <3> HIDE DEF items
    <3> QED BY <1>2, <3>1, <3>2 DEF Pipes
  <2>4. Good => OutInv
      BY DEF ConsoleInv, LineInv
  <2>5. CASE outpipe.length < PIPE_SIZE
    <3>1. outpush' = [at |-> "raise", l |-> outpipe.length] /\ UNCHANGED <<shell, spinlock>>
        BY <2>1, <2>5
    <3>2. outpush'.at = "raise" /\ outpush'.l = outpipe.length /\ outpush' \in Pushes /\ outpush' # NoPush
      <4>1. outpipe.length \in 0 .. PIPE_SIZE - 1
          BY <1>4, <2>5
      <4>2. [at |-> "raise", l |-> outpipe.length] \in [at : {"raise"}, l : 0 .. PIPE_SIZE - 1]
          BY <4>1
      <4>3. outpush' \in Pushes
          BY <3>1, <4>2 DEF Pushes
      <4>4. outpush'.at = "raise" /\ outpush'.l = outpipe.length
          BY <3>1
      <4> QED BY <4>3, <4>4, NoOps
    <3>3. ASSUME Good' PROVE OutInv' /\ Coming' = Coming
      <4>1. Good /\ OutInv /\ outpop = NoPop /\ outpop' = NoPop
          BY <1>1, <2>1, <2>2, <2>4, <3>1, <3>3 DEF Good, OutInv
      <4>2. Out' = Out
        <5>1. Out' = [outpipe' EXCEPT !.length = @ + 1]
            BY <3>2 DEF Out
        <5> QED BY <1>2, <2>1, <2>2, <5>1 DEF Pipes
      <4>3. Rest' = Rest
          BY <2>2, <3>1, <3>2 DEF Rest
      <4>4. Coming' = Coming
        <5>1. Coming' = Display(screen', Stored(Out') \o Rest')
            BY ComingNext
        <5> QED BY <1>1, <4>2, <4>3, <5>1 DEF Coming
      <4>5. PipeOK(Out')
          BY <4>1, <4>2 DEF OutInv
      <4>6. OutInv'
          BY <1>7, <2>3, <3>2, <4>1, <4>5, NoOps DEF OutInv
      <4> QED BY <4>4, <4>6
    <3> QED BY <1>5, <2>1, <2>3, <3>1, <3>2, <3>3 DEF ConsoleInv, ConsoleTypes
  <2>6. CASE ~(outpipe.length < PIPE_SIZE)
    <3>1. ~Good
      <4> SUFFICES ASSUME Good PROVE FALSE
          OBVIOUS
      <4>1. Out \in Pipes
          BY <2>4 DEF OutInv, PipeOK
      <4>2. Out.length = outpipe.length + 1
          BY <1>2, <2>2 DEF Pipes
      <4>3. Out.length \in 0 .. PIPE_SIZE
          BY <4>1 DEF Pipes
      <4> QED BY <1>4, <2>6, <4>2, <4>3
    <3> QED BY <1>6, <2>1, <2>3, <2>6, <3>1
  <2> QED BY <2>5, <2>6
<1>10. CASE raise_length
  <2>1. outpush.at = "raise" /\ outpipe' = [outpipe EXCEPT !.length = outpush.l + 1] /\ written /\ clean' = clean
      BY <1>10 DEF raise_length
  <2>2. outpush # NoPush /\ outpush.l \in 0 .. PIPE_SIZE - 1
      BY <1>2, <2>1, NoOps
  <2>3. outpipe' \in Pipes
    <3>1. outpush.l + 1 \in 0 .. PIPE_SIZE
        BY <1>4, <2>2
    <3> QED BY <1>2, <2>1, <3>1 DEF Pipes
  <2>4. ASSUME Good PROVE OutInv' /\ Coming' = Coming
    <3>1. OutInv /\ outpop = NoPop /\ outpop' = NoPop /\ outpush' = NoPush /\ outpush.l = outpipe.length
        BY <1>1, <2>1, <2>2, <2>4 DEF ConsoleInv, LineInv, OutInv, written
    <3>2. Out = outpipe' /\ Out' = outpipe'
      <4>1. Out = [outpipe EXCEPT !.length = @ + 1]
          BY <2>1 DEF Out
      <4>2. Out' = outpipe'
          BY <3>1, NoOps DEF Out
      <4> QED BY <2>1, <3>1, <4>1, <4>2
    <3>3. Rest = t /\ Rest' = t
      <4>1. shell'.todo = t
          BY <1>2, <2>1 DEF written, Shells, t
      <4> QED BY <2>2, <3>1, <4>1 DEF Rest, t
    <3>4. Coming' = Coming
      <4>1. Coming' = Display(screen', Stored(Out') \o Rest')
          BY ComingNext
      <4> QED BY <1>1, <3>2, <3>3, <4>1 DEF Coming
    <3>5. PipeOK(Out')
        BY <3>1, <3>2 DEF OutInv
    <3>6. OutInv'
        BY <1>7, <3>1, <3>5, NoOps DEF OutInv
    <3> QED BY <3>4, <3>6
  <2> QED BY <1>6, <2>1, <2>3, <2>4
<1> QED BY <1>8, <1>9, <1>10 DEF tty_write

LEMMA TtyReadKeeps == ConsoleInv /\ tty_read => ConsoleInv'
<1> SUFFICES ASSUME ConsoleInv, tty_read PROVE ConsoleInv'
    OBVIOUS
<1>1. /\ shell.at = "run" /\ shell.todo = <<>> /\ ~shell.entered /\ spinlock' = "shell"
      /\ shell' = [shell EXCEPT !.at = "wait"]
      /\ UNCHANGED <<script, kbd, inpipe, outpipe, outpush, inpop, outpop, screen, clean>>
    BY DEF tty_read, spinlock_lock_impl, ring_ops
<1>2. shell \in Shells
    BY DEF ConsoleInv, ConsoleTypes, Shells
<1>3. shell' \in Shells /\ shell'.at = "wait" /\ shell'.line = shell.line /\ shell'.entered = shell.entered
      /\ shell'.nul = shell.nul /\ shell'.todo = shell.todo
    BY <1>1, <1>2 DEF Shells
<1>4. ConsoleTypes'
    BY <1>1, <1>3 DEF ConsoleInv, ConsoleTypes, Shells
<1>5. Coming' = Coming /\ (OutInv => OutInv')
    BY <1>1, <1>3, OutKept
<1>6. LineRoom' /\ LineInv'
    BY <1>1, <1>3, <1>5 DEF ConsoleInv, LineRoom, LineInv, Good
<1> QED BY <1>4, <1>6 DEF ConsoleInv

\* Whatever a pop gets from inpipe is a character, and inpipe stays a pipe.
LEMMA ReadUnsafeKeeps == ConsoleInv /\ read_unsafe_in => ConsoleInv'
<1> SUFFICES ASSUME ConsoleInv, read_unsafe_in PROVE ConsoleInv'
    OBVIOUS
<1>1. inpop \in Pops /\ inpipe \in Pipes
    BY DEF ConsoleInv, ConsoleTypes
<1>2. UNCHANGED <<script, kbd, outpipe, outpush, outpop, spinlock, shell, screen, clean>>
    BY DEF read_unsafe_in
<1>3. inpop' \in Pops /\ inpipe' \in Pipes
  <2>1. CASE load_length(inpop, inpipe)
    <3>1. inpipe.length # 0 /\ inpipe' = inpipe /\ inpop' = [at |-> "lower", l |-> inpipe.length, c |-> NUL]
        BY <2>1 DEF load_length
    <3> QED BY <1>1, <3>1, PopTypes
  <2>2. CASE lower_length(inpop, inpipe)
    <3>1. inpop.at = "lower" /\ inpop' = [at |-> "item", l |-> 0, c |-> NUL]
          /\ inpipe' = [inpipe EXCEPT !.length = inpop.l - 1]
        BY <2>2 DEF lower_length
    <3> QED BY <1>1, <3>1, PopTypes
  <2>3. CASE take_item(inpop, inpipe)
    <3>1. inpipe' = inpipe /\ inpop' = [at |-> "tail", l |-> 0, c |-> Oldest(inpipe)]
        BY <2>3 DEF take_item
    <3> QED BY <1>1, <3>1, PopTypes
  <2> QED BY <2>1, <2>2, <2>3 DEF read_unsafe_in, popping
<1>4. ConsoleTypes'
    BY <1>2, <1>3 DEF ConsoleInv, ConsoleTypes
<1> QED BY <1>2, <1>4, LineInvKept

LEMMA ReadlineKeeps == ConsoleInv /\ readline => ConsoleInv'
<1> SUFFICES ASSUME ConsoleInv, readline PROVE ConsoleInv'
    OBVIOUS
<1> DEFINE c == inpop.c
           e == Edited(c)
<1>1. /\ shell.at = "wait" /\ inpop.at = "tail" /\ spinlock' = "free" /\ inpop' = NoPop
      /\ inpipe' = [inpipe EXCEPT !.tail = IF inpipe.length # 0 THEN (@ + 1) % PIPE_SIZE ELSE @]
      /\ shell' = e
      /\ UNCHANGED <<script, kbd, outpipe, outpush, outpop, screen, clean>>
    BY DEF readline, spinlock_unlock_impl, move_tail
<1>2. /\ shell \in Shells /\ inpipe \in Pipes /\ inpop \in Pops /\ LineRoom /\ ConsoleTypes
      /\ shell.todo = <<>> /\ ~shell.entered /\ outpush = NoPush
    BY <1>1 DEF ConsoleInv, ConsoleTypes, Shells, LineRoom
<1>3. inpipe' \in Pipes /\ c \in Glyphs
    BY <1>1, <1>2, PopTypes, NoOps
<1> HIDE DEF c
\* Whatever the screen was, the shell goes on with a line of the right kind.
<1>5. e \in Shells /\ e.at = "run" /\ Len(e.line) < LINE /\ (~e.entered => Len(e.line) + 1 < LINE)
  <2>1. textmode_init \in Screens /\ Tidy(textmode_init)
    <3>1. 0 \in 0 .. col_max - 1 /\ 0 \in 0 .. row_max - 1 /\ Blank \in Glyphs
        BY ScreenAssumption, SignGlyphs
    <3>2. textmode_init = [buffer |-> [n \in Cells |-> Blank], col |-> 0, row |-> 0]
        BY DEF textmode_init, textmode_clear
    <3>3. textmode_init \in Screens
        BY <3>1, <3>2 DEF Screens
    <3> QED BY <3>2, <3>3 DEF Tidy
  <2> QED BY <1>1, <1>2, <1>3, <2>1, EditedKeeps
<1>6. ConsoleTypes'
  <2> HIDE DEF e
  <2> QED BY <1>1, <1>3, <1>5, NoOps DEF ConsoleInv, ConsoleTypes, Shells
<1>7. LineRoom'
  <2> HIDE DEF e
  <2> QED BY <1>1, <1>2, <1>5 DEF LineRoom
<1>8. LineInv'
  <2> SUFFICES ASSUME clean
               PROVE  /\ OutInv' /\ Tidy(Coming')
                      /\ ~e.entered /\ ~e.nul => Shows(Coming', Prompt \o e.line)
      BY <1>1 DEF LineInv, Good
  <2>1. OutInv /\ Tidy(Coming) /\ (~shell.nul => Shows(Coming, Prompt \o shell.line))
      BY <1>1, <1>2 DEF ConsoleInv, LineInv, Good
  <2>2. PipeOK(Out) /\ Coming \in Screens
      BY <1>2, <2>1, ComingType DEF OutInv
  <2>3. Out' = Out /\ OutInv' /\ Rest' = e.todo
    <3>1. outpush # NoPush \/ Rest' = shell'.todo
        BY <1>1 DEF Rest
    <3>2. Out' = Out
        BY <1>1, <1>2, NoOps DEF Out
    <3>3. PipeOK(Out)' = PipeOK(Out')
        BY DEF PipeOK, Linked, Cell, Pipes
    <3>4. OutInv'
        BY <1>1, <2>1, <3>2, <3>3 DEF OutInv, Oldest
    <3> HIDE DEF e
    <3> QED BY <1>1, <1>2, <3>1, <3>2, <3>4
  <2>4. Coming' = Display(Coming, e.todo)
    <3>1. Coming' = Display(screen', Stored(Out') \o Rest')
        BY ComingNext
    <3>2. e.todo \in Texts
        BY <1>5 DEF Shells
    <3> HIDE DEF e
    <3> QED BY <1>1, <1>2, <2>2, <2>3, <3>1, <3>2, ComingThen
  <2>5. /\ Tidy(Display(Coming, e.todo))
        /\ ~e.entered /\ ~e.nul /\ (~shell.nul => Shows(Coming, Prompt \o shell.line)) =>
               Shows(Display(Coming, e.todo), Prompt \o e.line)
      BY <1>1, <1>2, <1>3, <2>1, <2>2, EditedKeeps
  <2> HIDE DEF e
  <2> QED BY <2>1, <2>3, <2>4, <2>5
<1> QED BY <1>6, <1>7, <1>8 DEF ConsoleInv

LEMMA ShellMainKeeps == ConsoleInv /\ shell_main => ConsoleInv'
<1> SUFFICES ASSUME ConsoleInv, shell_main PROVE ConsoleInv'
    OBVIOUS
<1> DEFINE a == Response(Args)
           t == a \o Prompt
<1>1. /\ shell.at = "run" /\ shell.todo = <<>>
      /\ shell' = [at |-> "run", line |-> <<>>, entered |-> FALSE, nul |-> FALSE, todo |-> t]
      /\ UNCHANGED <<script, kbd, inpipe, outpipe, outpush, inpop, outpop, spinlock, screen, clean>>
    BY DEF shell_main, Entered, NewLine, ring_ops
<1>2. Forward(a) /\ t \in Texts
    BY ResponseText, TextFacts, ForwardConcat DEF Forward
<1> HIDE DEF a
<1>3. shell' \in Shells /\ shell'.at = "run" /\ shell'.line = <<>> /\ shell'.entered = FALSE
      /\ shell'.nul = FALSE /\ shell'.todo = t
  <2>1. <<>> \in Texts
      BY DEF Texts
  <2> HIDE DEF t
  <2> QED BY <1>1, <1>2, <2>1 DEF Shells
<1>4. ConsoleTypes /\ LineRoom /\ outpush = NoPush
    BY <1>1 DEF ConsoleInv, LineRoom
<1>5. ConsoleTypes'
    BY <1>1, <1>3 DEF ConsoleInv, ConsoleTypes, Shells
<1>6. LineRoom'
  <2>1. Len(shell'.line) = 0 /\ LINE \in Nat \ {0, 1}
      BY <1>3, TextFacts
  <2> QED BY <1>1, <1>3, <1>4, <2>1 DEF LineRoom
<1>7. LineInv'
  <2> SUFFICES ASSUME clean
               PROVE  OutInv' /\ Tidy(Coming') /\ Shows(Coming', Prompt \o <<>>)
      BY <1>1, <1>3 DEF LineInv, Good
  <2>1. OutInv /\ PipeOK(Out) /\ Tidy(Coming)
      BY <1>1 DEF ConsoleInv, LineInv, Good, OutInv
  <2>2. Coming \in Screens
      BY <1>4, <2>1, ComingType
  <2>3. Out' = Out /\ OutInv' /\ Rest' = t
    <3>1. Rest' = shell'.todo
        BY <1>1, <1>4 DEF Rest
    <3>2. Out' = Out
        BY <1>1, <1>4, NoOps DEF Out
    <3>3. PipeOK(Out)' = PipeOK(Out')
        BY DEF PipeOK, Linked, Cell, Pipes
    <3>4. OutInv'
        BY <1>1, <2>1, <3>2, <3>3 DEF OutInv, Oldest
    <3> HIDE DEF t
    <3> QED BY <1>3, <3>1, <3>2, <3>4
  <2>4. Coming' = Display(Coming, t)
    <3>1. Coming' = Display(screen', Stored(Out') \o Rest')
        BY ComingNext
    <3> HIDE DEF t
    <3> QED BY <1>1, <1>2, <1>4, <2>1, <2>3, <3>1, ComingThen
  <2> QED BY <1>2, <2>1, <2>2, <2>3, <2>4, NextPrompt
<1> QED BY <1>5, <1>6, <1>7 DEF ConsoleInv

LEMMA ExceptionKeeps == ConsoleInv /\ exception_handle => ConsoleInv'
<1> SUFFICES ASSUME ConsoleInv, exception_handle PROVE ConsoleInv'
    OBVIOUS
<1>1. /\ shell.at = "run" /\ outpipe' = FoldLeft(Pushed, outpipe, ExceptionText)
      /\ clean' = (clean /\ outpop = NoPop /\ Fits(outpipe, ExceptionText))
      /\ shell' = [shell EXCEPT !.at = "dead"]
      /\ UNCHANGED <<script, kbd, inpipe, outpush, inpop, outpop, spinlock, screen>>
    BY DEF exception_handle, Entered, log
<1>2. shell \in Shells /\ outpipe \in Pipes /\ LineRoom /\ outpush = NoPush
    BY <1>1 DEF ConsoleInv, ConsoleTypes, Shells, LineRoom
<1>3. shell' \in Shells /\ shell'.at = "dead" /\ shell'.line = shell.line /\ shell'.entered = shell.entered
    BY <1>1, <1>2 DEF Shells
<1>4. outpipe' \in Pipes
  <2>1. ExceptionText \in Printed
      BY DEF Printed
  <2>2. ExceptionText \in Texts
      BY <2>1, TextFacts DEF Forward
  <2> QED BY <1>1, <1>2, <2>2, LogOK
<1>5. ConsoleTypes'
  <2>1. clean' \in BOOLEAN
      BY <1>1
  <2> QED BY <1>1, <1>3, <1>4, <2>1 DEF ConsoleInv, ConsoleTypes, Shells
<1>6. LineRoom' /\ LineInv'
    BY <1>1, <1>2, <1>3 DEF LineRoom, LineInv, Good
<1> QED BY <1>5, <1>6 DEF ConsoleInv

LEMMA PanicKeeps == ConsoleInv /\ panic => ConsoleInv'
<1> SUFFICES ASSUME ConsoleInv, panic PROVE ConsoleInv'
    OBVIOUS
<1> DEFINE s == textmode_move(textmode_clear(screen), 0, 0)
<1>1. /\ shell.at = "run" /\ screen' = Display(s, PanicText)
      /\ shell' = [shell EXCEPT !.at = "hung"]
      /\ UNCHANGED <<script, kbd, inpipe, outpipe, outpush, inpop, outpop, spinlock, clean>>
    BY DEF panic, Entered, ring_ops
<1>2. shell \in Shells /\ screen \in Screens /\ LineRoom /\ outpush = NoPush
    BY <1>1 DEF ConsoleInv, ConsoleTypes, Shells, LineRoom
<1>3. s \in Screens
  <2>1. 0 \in 0 .. col_max - 1 /\ 0 \in 0 .. row_max - 1 /\ Blank \in Glyphs
      BY ScreenAssumption, SignGlyphs
  <2>2. textmode_clear(screen) \in Screens
      BY <1>2, <2>1 DEF Screens, textmode_clear
  <2> QED BY <2>1, <2>2 DEF Screens, textmode_move
<1>4. screen' \in Screens
  <2>1. PanicText \in Printed
      BY DEF Printed
  <2>2. PanicText \in Texts
      BY <2>1, TextFacts DEF Forward
  <2> HIDE DEF s
  <2> QED BY <1>1, <1>3, <2>2, DisplayType
<1> HIDE DEF s
<1>5. shell' \in Shells /\ shell'.at = "hung" /\ shell'.line = shell.line /\ shell'.entered = shell.entered
    BY <1>1, <1>2 DEF Shells
<1>6. ConsoleTypes'
    BY <1>1, <1>4, <1>5 DEF ConsoleInv, ConsoleTypes, Shells
<1>7. LineRoom' /\ LineInv'
    BY <1>1, <1>2, <1>5 DEF LineRoom, LineInv, Good
<1> QED BY <1>6, <1>7 DEF ConsoleInv

LEMMA ConsoleStep == ConsoleInv /\ [Next]_vars => ConsoleInv'
<1> SUFFICES ASSUME ConsoleInv, [Next]_vars PROVE ConsoleInv'
    OBVIOUS
<1>1. CASE press
    BY <1>1, PressKeeps
<1>2. CASE kbd_isr_main
    BY <1>2, KbdKeeps
<1>3. CASE tty_out_thread
    BY <1>3, TtyKeeps
<1>4. CASE write_lock
    BY <1>4, WriteLockKeeps
<1>5. CASE tty_write
    BY <1>5, TtyWriteKeeps
<1>6. CASE tty_read
    BY <1>6, TtyReadKeeps
<1>7. CASE read_unsafe_in
    BY <1>7, ReadUnsafeKeeps
<1>8. CASE readline
    BY <1>8, ReadlineKeeps
<1>9. CASE shell_main
    BY <1>9, ShellMainKeeps
<1>10. CASE exception_handle
    BY <1>10, ExceptionKeeps
<1>11. CASE panic
    BY <1>11, PanicKeeps
<1>12. CASE UNCHANGED vars
  <2>1. ConsoleTypes' /\ UNCHANGED <<shell, screen, outpipe, outpush, outpop, clean>>
      BY <1>12 DEF vars, ConsoleInv, ConsoleTypes
  <2> QED BY <2>1, LineInvKept
<1> QED BY <1>1, <1>2, <1>3, <1>4, <1>5, <1>6, <1>7, <1>8, <1>9, <1>10, <1>11, <1>12
        DEF Next, Kbd, Shell, Tty

LEMMA ConsoleAlways == Spec => []ConsoleInv
    BY ConsoleInit, ConsoleStep, PTL DEF Spec

\* On every screen, with pipes and a line buffer of any size, whatever is
\* typed and whenever the threads are switched, in the middle of a push or a
\* pop too: the cursor stays on the screen, so that textmode_write never
\* writes outside its buffer, readline never writes behind the end of the
\* line buffer, and the length of a pipe never wraps.
THEOREM ConsoleTypeCorrect == Spec => []TypeOK
<1>1. ConsoleInv => TypeOK
    BY DEF ConsoleInv, ConsoleTypes, LineRoom, TypeOK, Screens, Pipes
<1> QED BY <1>1, ConsoleAlways, PTL

\* When the machine is at rest the screen shows the prompt and the line as
\* the shell has it: the cells that textmode_write has filled, scrolled and
\* wrapped agree with the buffer that readline has edited, although the two
\* are joined only by a pipe and the backspaces that readline sends.  Until
\* outpipe overflows or a push meets a pop in it, whatever meets in inpipe.
THEOREM ConsoleLineShown == Spec => []LineShown
<1>1. ConsoleInv => LineShown
  <2> SUFFICES ASSUME ConsoleInv, Idle, clean, ~shell.nul
               PROVE  LET text == Prompt \o shell.line
                          pos == col_max * screen.row + screen.col
                      IN  /\ \A n \in 1 .. Len(text) : screen.buffer[pos - Len(text) + n - 1] = text[n]
                          /\ \A n \in Cells : n >= pos => screen.buffer[n] = Blank
      BY DEF LineShown
  <2>1. shell.at = "wait" /\ shell.todo = <<>> /\ ~shell.entered /\ outpipe.length = 0 /\ outpop = NoPop
        /\ outpush = NoPush /\ screen \in Screens
      BY DEF Idle, ConsoleInv, ConsoleTypes, LineRoom
  <2>2. PipeOK(outpipe) /\ Out = outpipe /\ Rest = <<>> /\ Tidy(Coming) /\ Shows(Coming, Prompt \o shell.line)
    <3>1. Out = outpipe /\ Rest = <<>>
        BY <2>1, OutAtRest
    <3> QED BY <2>1, <3>1 DEF ConsoleInv, LineInv, Good, OutInv
  <2>3. Stored(Out) = <<>>
    <3>1. Stored(outpipe) \in Texts /\ Len(Stored(outpipe)) = 0
        BY <2>1, <2>2, StoredType
    <3> QED BY <2>2, <3>1, EmptySeq DEF Texts
  <2>4. Coming = screen
    <3>1. <<>> \in Texts
        BY DEF Texts
    <3>2. Stored(Out) \o Rest = <<>>
        BY <2>2, <2>3, <3>1, ConcatThree
    <3> QED BY <2>1, <3>2, DisplayFew DEF Coming
  <2> QED BY <2>2, <2>4 DEF Tidy, Shows, Pos
<1> QED BY <1>1, ConsoleAlways, PTL
=============================================================================
