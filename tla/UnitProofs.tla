----------------------------- MODULE UnitProofs -----------------------------
(***************************************************************************)
(* Components that need no other: the ring of queue.hpp, for every         *)
(* capacity and every set of items; the vectors of vector.hpp, for any     *)
(* number of vectors and arrays; the interrupts of the processor, for any  *)
(* devices; the reading of the clock, for any times; and the memory at     *)
(* boot, for any modules that a loader places.                             *)
(***************************************************************************)
EXTENDS Queue, Vector, Intr, Clock, BootMem, Recursion, FiniteSetTheorems,
        SequenceTheorems, TLAPS

(* The ring of queue.hpp. *)

\* The inductive invariant: RingShape is inductive once the counters are
\* known to be in range.
QueueInv == QueueTypeOK /\ RingShape

\* Slot arithmetic: the remainders push and pop compute, as case
\* distinctions.
LEMMA SlotSucc ==
    ASSUME NEW s \in Slots
    PROVE  /\ Succ(s) \in Slots
           /\ Succ(s) = IF s + 1 = N THEN 0 ELSE s + 1
    BY QueueAssumption DEF Slots, Succ

\* The slot k places after tail.
LEMMA SlotAdd ==
    ASSUME NEW s \in Slots, NEW k \in Slots
    PROVE  /\ (s + k) % N \in Slots
           /\ (s + k) % N = IF s + k < N THEN s + k ELSE s + k - N
    BY QueueAssumption DEF Slots

\* The constructor of _queue_t builds an empty ring.
LEMMA QueueStart == queue_init => QueueInv
    BY QueueAssumption DEF queue_init, QueueInv, QueueTypeOK, RingShape, Slots

\* push keeps the ring, full or not.
LEMMA QueuePushKept ==
    ASSUME QueueInv, NEW item \in Item, push(item)
    PROVE  QueueInv'
<1>1. head' \in Slots /\ tail' \in Slots
    BY SlotSucc DEF QueueInv, QueueTypeOK, push
<1>2. QueueTypeOK'
    BY <1>1, QueueAssumption DEF QueueInv, QueueTypeOK, push
<1>3. RingShape'
  <2>1. CASE length = 0
    <3>1. head' = head /\ tail' = tail /\ length' = 1 /\ head = tail /\ tail \in Slots
        BY <2>1, QueueAssumption DEF QueueInv, QueueTypeOK, RingShape, push
    <3>2. tail + 1 - 1 = tail /\ tail % N = tail
        BY <3>1, QueueAssumption DEF Slots
    <3> QED BY <3>1, <3>2 DEF RingShape
  <2>2. CASE length # 0 /\ length < N
    <3>1. tail \in Slots /\ head \in Slots /\ length - 1 \in Slots /\ length \in Slots
        BY <2>2, QueueAssumption DEF QueueInv, QueueTypeOK, Slots
    <3>2. head = (tail + (length - 1)) % N
        BY <2>2 DEF QueueInv, RingShape
    <3>3. (tail + (length - 1)) % N = IF tail + (length - 1) < N
                                      THEN tail + (length - 1)
                                      ELSE tail + (length - 1) - N
        BY <3>1, SlotAdd
    <3>4. (tail + length) % N = IF tail + length < N THEN tail + length
                                                    ELSE tail + length - N
        BY <3>1, SlotAdd
    <3>5. head' = IF head + 1 = N THEN 0 ELSE head + 1
        BY <2>2, <3>1, SlotSucc DEF push
    <3>6. head' = (tail + length) % N /\ head' # tail
        BY <2>2, <3>1, <3>2, <3>3, <3>4, <3>5, QueueAssumption DEF Slots
    <3>7. tail' = tail /\ length' = length + 1 /\ length' - 1 = length
        BY <2>2, <3>1, <3>6 DEF push, Slots
    <3>8. length' # 0
        BY <3>1, <3>7 DEF Slots
    <3> QED BY <3>6, <3>7, <3>8 DEF RingShape
  <2>3. CASE length = N
    <3>1. /\ length # 0 /\ length' = N /\ N - 1 \in Slots
          /\ tail \in Slots /\ head \in Slots
        BY <2>3, QueueAssumption DEF push, Slots, QueueInv, QueueTypeOK
    <3>2. head = (tail + (N - 1)) % N
        BY <2>3, <3>1 DEF QueueInv, RingShape
    <3>3. (tail + (N - 1)) % N = IF tail + (N - 1) < N THEN tail + (N - 1)
                                                       ELSE tail + (N - 1) - N
        BY <3>1, SlotAdd
    <3>4. head' = IF head + 1 = N THEN 0 ELSE head + 1
        BY <3>1, SlotSucc DEF push
    <3>5. head' = tail
        BY <3>1, <3>2, <3>3, <3>4, QueueAssumption DEF Slots
    <3>6. tail' = IF tail + 1 = N THEN 0 ELSE tail + 1
        BY <3>1, <3>5, SlotSucc DEF push
    <3>7. (tail' + (N - 1)) % N = IF tail' + (N - 1) < N THEN tail' + (N - 1)
                                                         ELSE tail' + (N - 1) - N
        BY <1>1, <3>1, SlotAdd
    <3>8. (tail' + (N - 1)) % N = tail
        BY <3>1, <3>6, <3>7, QueueAssumption DEF Slots
    <3> QED BY <3>1, <3>5, <3>8, QueueAssumption DEF RingShape
  <2> QED BY <2>1, <2>2, <2>3, QueueAssumption DEF QueueInv, QueueTypeOK
<1> QED BY <1>2, <1>3 DEF QueueInv

\* pop keeps the ring; the last item leaves tail on the slot of head.
LEMMA QueuePopKept ==
    ASSUME QueueInv, pop
    PROVE  QueueInv'
<1>1. QueueTypeOK'
    BY SlotSucc, QueueAssumption DEF QueueInv, QueueTypeOK, pop
<1>2. length - 1 \in Slots /\ length' = length - 1 /\ head' = head
    BY QueueAssumption DEF QueueInv, QueueTypeOK, pop, Slots
<1>3. head = (tail + (length - 1)) % N
    BY DEF QueueInv, RingShape, pop
<1>4. tail \in Slots /\ length \in 0 .. N /\ length # 0 /\ N \in Nat
    BY QueueAssumption DEF QueueInv, QueueTypeOK, pop
<1>5. (tail + (length - 1)) % N = IF tail + (length - 1) < N
                                  THEN tail + (length - 1)
                                  ELSE tail + (length - 1) - N
    BY <1>2, <1>4, SlotAdd
<1>6. CASE length = 1
  <2>1. tail' = tail /\ length' = 0
    BY <1>6, <1>2, <1>4 DEF pop
  <2>2. head = tail
    BY <1>6, <1>3, <1>4, <1>5 DEF Slots
  <2> QED BY <1>1, <1>2, <2>1, <2>2 DEF QueueInv, RingShape
<1>7. CASE length # 1
  <2>1. tail' = Succ(tail) /\ length - 2 \in Slots /\ length' # 0
    BY <1>7, <1>2, <1>4 DEF pop, Slots
  <2>2. tail' \in Slots /\ tail' = IF tail + 1 = N THEN 0 ELSE tail + 1
    BY <1>4, <2>1, SlotSucc
  <2>3. (tail' + (length - 2)) % N = IF tail' + (length - 2) < N
                                     THEN tail' + (length - 2)
                                     ELSE tail' + (length - 2) - N
    BY <2>1, <2>2, SlotAdd
  <2>4. (tail' + (length - 2)) % N = head
    BY <1>3, <1>4, <1>5, <1>7, <2>2, <2>3 DEF Slots
  <2>5. length' - 1 = length - 2
    BY <1>2, <1>4
  <2> QED BY <1>1, <1>2, <2>1, <2>4, <2>5 DEF QueueInv, RingShape
<1> QED BY <1>6, <1>7

\* Every operation of _queue_t keeps the invariant.
LEMMA QueueKept == QueueInv /\ [queue_next]_queue_vars => QueueInv'
<1> SUFFICES ASSUME QueueInv, [queue_next]_queue_vars PROVE QueueInv'
    OBVIOUS
<1>1. CASE pop
    BY <1>1, QueuePopKept
<1>2. ASSUME NEW item \in Item, push(item) PROVE QueueInv'
    BY <1>2, QueuePushKept
<1>3. CASE UNCHANGED queue_vars
    BY <1>3 DEF QueueInv, QueueTypeOK, RingShape, queue_vars
<1> QED BY <1>1, <1>2, <1>3 DEF queue_next

\* The indices of the ring stay inside items[], for every capacity.
THEOREM QueueTypeCorrect == queue_spec => []QueueTypeOK
<1>1. queue_spec => []QueueInv
    BY QueueStart, QueueKept, PTL DEF queue_spec
<1>2. QueueInv => QueueTypeOK
    BY DEF QueueInv
<1> QED BY <1>1, <1>2, PTL

\* head, tail and length describe one ring after any sequence of pushes and
\* pops, full and empty rings included, for every capacity.
THEOREM QueueRingShape == queue_spec => []RingShape
<1>1. queue_spec => []QueueInv
    BY QueueStart, QueueKept, PTL DEF queue_spec
<1>2. QueueInv => RingShape
    BY DEF QueueInv
<1> QED BY <1>1, <1>2, PTL

-----------------------------------------------------------------------------
\* What Contents is, element by element.
IsContents ==
    /\ Contents \in Seq(Item)
    /\ Len(Contents) = length
    /\ \A i \in 1 .. length : Contents[i] = items[(tail + (i - 1)) % N]

\* The ring read from tail to head is a sequence of length items.
LEMMA ContentsSeq ==
    ASSUME QueueTypeOK
    PROVE  IsContents
<1>1. \A i \in 1 .. length : i - 1 \in Slots
    BY QueueAssumption DEF QueueTypeOK, Slots
<1>2. \A i \in 1 .. length : (tail + (i - 1)) % N \in Slots
    BY <1>1, SlotAdd DEF QueueTypeOK
<1>3. Contents \in [1 .. length -> Item]
    BY <1>2 DEF QueueTypeOK, Contents
<1>4. length \in Nat
    BY QueueAssumption DEF QueueTypeOK
<1> QED BY <1>3, <1>4 DEF Contents, IsContents

\* The same fact about the ring after a step.
LEMMA ContentsSeqNext == QueueTypeOK' => IsContents'
<1>1. QueueTypeOK => IsContents
    BY ContentsSeq
<1> QED BY <1>1, PTL

\* The slot a push writes is the one after the newest item.
LEMMA PushSlot ==
    ASSUME QueueInv, NEW item \in Item, push(item), length < N
    PROVE  tail' = tail /\ head' = (tail + length) % N /\ length' = length + 1
<1>0. length \in Nat /\ length' = length + 1 /\ length + 1 # 0
    BY QueueAssumption DEF QueueInv, QueueTypeOK, push
<1>1. QueueInv'
    BY QueuePushKept
<1>2. head' = (tail' + length) % N
    BY <1>0, <1>1 DEF QueueInv, RingShape
<1>3. CASE length = 0
    BY <1>0, <1>2, <1>3 DEF push
<1>4. CASE length # 0
  <2>1. tail \in Slots /\ head \in Slots /\ length \in Slots /\ length - 1 \in Slots
    BY <1>4, QueueAssumption DEF QueueInv, QueueTypeOK, Slots
  <2>2. head = (tail + (length - 1)) % N
    BY <1>4 DEF QueueInv, RingShape
  <2>3. (tail + (length - 1)) % N = IF tail + (length - 1) < N
                                    THEN tail + (length - 1)
                                    ELSE tail + (length - 1) - N
    BY <2>1, SlotAdd
  <2>4. head' = IF head + 1 = N THEN 0 ELSE head + 1
    BY <1>4, <2>1, SlotSucc DEF push
  <2>5. head' # tail
    BY <1>4, <2>1, <2>2, <2>3, <2>4, QueueAssumption DEF Slots
  <2> QED BY <1>0, <1>2, <2>5 DEF push
<1> QED BY <1>3, <1>4

\* A push on a full ring writes over the oldest item.
LEMMA PushFullSlot ==
    ASSUME QueueInv, NEW item \in Item, push(item), length = N
    PROVE  tail' = Succ(tail) /\ head' = tail /\ length' = N
<1>1. /\ length # 0 /\ length' = N /\ N - 1 \in Slots
      /\ tail \in Slots /\ head \in Slots
    BY QueueAssumption DEF push, Slots, QueueInv, QueueTypeOK
<1>2. head = (tail + (N - 1)) % N
    BY <1>1 DEF QueueInv, RingShape
<1>3. (tail + (N - 1)) % N = IF tail + (N - 1) < N THEN tail + (N - 1)
                                                   ELSE tail + (N - 1) - N
    BY <1>1, SlotAdd
<1>4. head' = IF head + 1 = N THEN 0 ELSE head + 1
    BY <1>1, SlotSucc DEF push
<1>5. head' = tail
    BY <1>1, <1>2, <1>3, <1>4, QueueAssumption DEF Slots
<1> QED BY <1>1, <1>5 DEF push

\* push is the abstract Push.
LEMMA PushRefines ==
    ASSUME QueueInv, NEW item \in Item, push(item)
    PROVE  Fifo!Push(item)
<1>0. QueueInv' /\ QueueTypeOK /\ QueueTypeOK' /\ item \in Item
    BY QueuePushKept DEF QueueInv
<1>1. /\ Contents \in Seq(Item) /\ Len(Contents) = length
      /\ \A i \in 1 .. length : Contents[i] = items[(tail + (i - 1)) % N]
    BY <1>0, ContentsSeq DEF IsContents
<1>2. /\ Contents' \in Seq(Item) /\ Len(Contents') = length'
      /\ \A i \in 1 .. length' : Contents'[i] = items'[(tail' + (i - 1)) % N]
    BY <1>0, ContentsSeqNext DEF IsContents
<1>3. CASE length < N
  <2>1. length \in Slots /\ tail \in Slots /\ length \in Nat
    BY <1>0, <1>3, QueueAssumption DEF QueueTypeOK, Slots
  <2>2. tail' = tail /\ head' = (tail + length) % N /\ length' = length + 1
    BY <1>0, <1>3, PushSlot
  <2>3. ASSUME NEW i \in 1 .. length
        PROVE  Contents'[i] = Contents[i]
    <3>1. i - 1 \in Slots /\ i - 1 < length /\ i \in 1 .. length'
        BY <2>1, <2>2, QueueAssumption DEF Slots
    <3>2. /\ (tail + (i - 1)) % N \in Slots
          /\ (tail + (i - 1)) % N = IF tail + (i - 1) < N THEN tail + (i - 1)
                                                        ELSE tail + (i - 1) - N
        BY <2>1, <3>1, SlotAdd
    <3>3. (tail + length) % N = IF tail + length < N THEN tail + length
                                                    ELSE tail + length - N
        BY <2>1, SlotAdd
    <3>4. (tail + (i - 1)) % N # head'
        BY <2>1, <2>2, <3>1, <3>2, <3>3, QueueAssumption DEF Slots
    <3>5. items'[(tail + (i - 1)) % N] = items[(tail + (i - 1)) % N]
        BY <1>0, <3>2, <3>4 DEF QueueTypeOK, push
    <3> QED BY <1>1, <1>2, <2>2, <3>1, <3>5
  <2>4. Contents'[length + 1] = item
    <3>1. items'[head'] = item
        BY <1>0 DEF QueueTypeOK, push
    <3>2. length + 1 \in 1 .. length' /\ (length + 1) - 1 = length
        BY <2>1, <2>2
    <3> QED BY <1>2, <2>2, <3>1, <3>2
  <2>5. /\ Append(Contents, item) \in Seq(Item)
        /\ Len(Append(Contents, item)) = length + 1
        /\ \A i \in 1 .. length : Append(Contents, item)[i] = Contents[i]
        /\ Append(Contents, item)[length + 1] = item
    BY <1>0, <1>1, AppendProperties
  <2>6. \A i \in 1 .. length + 1 : Contents'[i] = Append(Contents, item)[i]
    BY <2>1, <2>3, <2>4, <2>5
  <2>7. Contents' = Append(Contents, item)
    BY <1>2, <2>2, <2>5, <2>6, SeqEqual
  <2>8. Len(Contents) # N
    BY <1>1, <1>3, <2>1, QueueAssumption
  <2> QED BY <2>7, <2>8 DEF Fifo!Push, push
<1>4. CASE length = N
  <2>1. tail \in Slots /\ N \in Nat /\ N # 0 /\ N - 1 \in Slots
    BY <1>0, QueueAssumption DEF QueueTypeOK, Slots
  <2>2. tail' = Succ(tail) /\ head' = tail /\ length' = N
    BY <1>0, <1>4, PushFullSlot
  <2>3. tail' \in Slots /\ tail' = IF tail + 1 = N THEN 0 ELSE tail + 1
    BY <2>1, <2>2, SlotSucc
  <2>4. Contents # <<>>
    BY <1>1, <1>4, <2>1, EmptySeq
  <2>5. /\ Tail(Contents) \in Seq(Item)
        /\ Len(Tail(Contents)) = N - 1
        /\ \A i \in 1 .. N - 1 : Tail(Contents)[i] = Contents[i + 1]
    BY <1>1, <1>4, <2>4, HeadTailProperties
  <2>6. /\ Append(Tail(Contents), item) \in Seq(Item)
        /\ Len(Append(Tail(Contents), item)) = (N - 1) + 1
        /\ \A i \in 1 .. N - 1 : Append(Tail(Contents), item)[i] = Tail(Contents)[i]
        /\ Append(Tail(Contents), item)[(N - 1) + 1] = item
    BY <1>0, <2>5, AppendProperties
  <2>7. ASSUME NEW i \in 1 .. N - 1
        PROVE  Contents'[i] = Contents[i + 1]
    <3>1. i - 1 \in Slots /\ i \in Slots /\ i \in 1 .. length' /\ i + 1 \in 1 .. length
        BY <1>4, <2>1, <2>2 DEF Slots
    <3>2. /\ (tail + i) % N \in Slots
          /\ (tail + i) % N = IF tail + i < N THEN tail + i ELSE tail + i - N
        BY <2>1, <3>1, SlotAdd
    <3>3. (tail' + (i - 1)) % N = IF tail' + (i - 1) < N THEN tail' + (i - 1)
                                                       ELSE tail' + (i - 1) - N
        BY <2>3, <3>1, SlotAdd
    <3>4. (tail' + (i - 1)) % N = (tail + i) % N /\ (tail + i) % N # head'
        BY <2>1, <2>2, <2>3, <3>1, <3>2, <3>3 DEF Slots
    <3>5. items'[(tail + i) % N] = items[(tail + i) % N]
        BY <1>0, <3>2, <3>4 DEF QueueTypeOK, push
    <3>6. (i + 1) - 1 = i
        BY <3>1 DEF Slots
    <3>7. Contents[i + 1] = items[(tail + i) % N]
        BY <1>1, <3>1, <3>6
    <3> QED BY <1>2, <3>1, <3>4, <3>5, <3>7
  <2>8. Contents'[N] = item
    <3>1. items'[head'] = item
        BY <1>0 DEF QueueTypeOK, push
    <3>2. (tail' + (N - 1)) % N = IF tail' + (N - 1) < N THEN tail' + (N - 1)
                                                         ELSE tail' + (N - 1) - N
        BY <2>1, <2>3, SlotAdd
    <3>3. (tail' + (N - 1)) % N = head'
        BY <2>1, <2>2, <2>3, <3>2 DEF Slots
    <3>4. N \in 1 .. length'
        BY <2>1, <2>2
    <3> QED BY <1>2, <3>1, <3>3, <3>4
  <2>9. \A i \in 1 .. N : Contents'[i] = Append(Tail(Contents), item)[i]
    BY <2>1, <2>5, <2>6, <2>7, <2>8
  <2>10. Contents' = Append(Tail(Contents), item)
    BY <1>2, <2>1, <2>2, <2>6, <2>9, SeqEqual
  <2> QED BY <1>1, <1>4, <2>10 DEF Fifo!Push, push
<1> QED BY <1>0, <1>3, <1>4, QueueAssumption DEF QueueTypeOK

\* pop is the abstract Pop.
LEMMA PopRefines ==
    ASSUME QueueInv, pop
    PROVE  Fifo!Pop
<1>0. QueueInv' /\ QueueTypeOK /\ QueueTypeOK'
    BY QueuePopKept DEF QueueInv
<1>1. /\ Contents \in Seq(Item) /\ Len(Contents) = length
      /\ \A i \in 1 .. length : Contents[i] = items[(tail + (i - 1)) % N]
    BY <1>0, ContentsSeq DEF IsContents
<1>2. /\ Contents' \in Seq(Item) /\ Len(Contents') = length'
      /\ \A i \in 1 .. length' : Contents'[i] = items'[(tail' + (i - 1)) % N]
    BY <1>0, ContentsSeqNext DEF IsContents
<1>3. /\ tail \in Slots /\ N \in Nat /\ length \in 1 .. N /\ length' = length - 1
      /\ items' = items
    BY <1>0, QueueAssumption DEF QueueTypeOK, pop
<1>4. Contents # <<>>
    BY <1>1, <1>3, EmptySeq
<1>5. Head(Contents) = items[tail]
  <2>1. (tail + (1 - 1)) % N = tail
    BY <1>3, QueueAssumption DEF Slots
  <2>2. Contents[1] = items[tail]
    BY <1>1, <1>3, <2>1
  <2> QED BY <1>1, <1>4, <2>2
<1>6. /\ Tail(Contents) \in Seq(Item)
      /\ Len(Tail(Contents)) = length - 1
      /\ \A i \in 1 .. length - 1 : Tail(Contents)[i] = Contents[i + 1]
    BY <1>1, <1>4, HeadTailProperties
<1>7. ASSUME NEW i \in 1 .. length - 1
      PROVE  Contents'[i] = Contents[i + 1]
  <2>1. /\ i - 1 \in Slots /\ i \in Slots /\ i \in 1 .. length'
        /\ i + 1 \in 1 .. length /\ (i + 1) - 1 = i /\ length - 1 # 0
    BY <1>3 DEF Slots
  <2>2. tail' \in Slots /\ tail' = IF tail + 1 = N THEN 0 ELSE tail + 1
    BY <1>3, <2>1, SlotSucc DEF pop
  <2>3. (tail + i) % N = IF tail + i < N THEN tail + i ELSE tail + i - N
    BY <1>3, <2>1, SlotAdd
  <2>4. (tail' + (i - 1)) % N = IF tail' + (i - 1) < N THEN tail' + (i - 1)
                                                     ELSE tail' + (i - 1) - N
    BY <2>1, <2>2, SlotAdd
  <2>5. (tail' + (i - 1)) % N = (tail + i) % N
    BY <1>3, <2>1, <2>2, <2>3, <2>4 DEF Slots
  <2>6. Contents[i + 1] = items[(tail + i) % N]
    BY <1>1, <2>1
  <2> QED BY <1>2, <1>3, <2>1, <2>5, <2>6
<1>8. \A i \in 1 .. length - 1 : Contents'[i] = Tail(Contents)[i]
    BY <1>6, <1>7
<1>9. Contents' = Tail(Contents)
    BY <1>2, <1>3, <1>6, <1>8, SeqEqual
<1> QED BY <1>4, <1>5, <1>9 DEF Fifo!Pop, pop

\* The ring of queue.hpp implements the bounded first-in first-out buffer,
\* for every capacity and every set of items: nothing is reordered or
\* duplicated, and only a push on a full ring loses an item, the oldest.
THEOREM QueueImplementsFifo == queue_spec => ImplementsFifo
<1>1. queue_init => Fifo!Init
  <2> SUFFICES ASSUME queue_init PROVE Fifo!Init
    OBVIOUS
  <2>1. QueueTypeOK /\ length = 0
    BY QueueStart DEF QueueInv, queue_init
  <2>2. Contents \in Seq(Item) /\ Len(Contents) = 0
    BY <2>1, ContentsSeq DEF IsContents
  <2>3. Contents = <<>>
    BY <2>2, EmptySeq
  <2> QED BY <2>3 DEF Fifo!Init, queue_init
<1>2. QueueInv /\ [queue_next]_queue_vars => [Fifo!Next]_(Fifo!vars)
  <2> SUFFICES ASSUME QueueInv, [queue_next]_queue_vars PROVE [Fifo!Next]_(Fifo!vars)
    OBVIOUS
  <2>1. CASE pop
    BY <2>1, PopRefines DEF Fifo!Next
  <2>2. ASSUME NEW item \in Item, push(item) PROVE Fifo!Next
    BY <2>2, PushRefines DEF Fifo!Next
  <2>3. CASE UNCHANGED queue_vars
    BY <2>3 DEF queue_vars, Contents, Fifo!vars
  <2> QED BY <2>1, <2>2, <2>3 DEF queue_next
<1>3. queue_spec => []QueueInv
    BY QueueStart, QueueKept, PTL DEF queue_spec
<1> QED BY <1>1, <1>2, <1>3, PTL DEF queue_spec, ImplementsFifo, Fifo!Spec

-----------------------------------------------------------------------------
(* Vectors. *)

Cell == Items \cup {Junk}
Object == [arr : 0 .. MaxArrays, ccapacity : Nat, csize : Nat]

VectorType ==
    /\ heap \in [Arrays -> Seq(Cell) \cup {Freed}]
    /\ vec \in [Vectors -> Object]
    /\ alive \subseteq Vectors
    /\ seq \in [Vectors -> Seq(Cell)]

\* The object o holds the sequence q in the heap h.
VectorHolds(o, h, q) ==
    /\ o.csize = Len(q) /\ o.csize <= o.ccapacity
    /\ o.arr = nullptr => o.csize = 0 /\ o.ccapacity = 0
    /\ o.arr # nullptr => /\ h[o.arr] # Freed
                          /\ Len(h[o.arr]) = o.ccapacity
                          /\ \A i \in 1 .. o.csize : h[o.arr][i] = q[i]

\* The inductive invariant: also a vector that is not alive holds nothing,
\* and no array has two owners.
VectorInv ==
    /\ VectorType
    /\ \A v \in Vectors : VectorHolds(vec[v], heap, seq[v])
    /\ \A v \in Vectors \ alive : vec[v] = Fresh /\ seq[v] = <<>>
    /\ \A v, w \in Vectors : v # w /\ vec[v].arr # nullptr => vec[v].arr # vec[w].arr

\* Freed is not the content of an array.
LEMMA FreedApart == Freed \notin Seq(Cell)
<1> SUFFICES ASSUME Freed \in Seq(Cell) PROVE FALSE
    OBVIOUS
<1>1. Freed[1] \in Cell
    BY DEF Freed
<1> QED BY <1>1, VectorAssumption DEF Freed, Cell, Junk

\* new[] gets an array that is not allocated; the others but old stay.
LEMMA Allocated ==
    ASSUME VectorType, NEW cells \in Seq(Cell), NEW old, Replace(cells, old)
    PROVE  /\ Min(free) \in Arrays /\ Min(free) # nullptr /\ heap[Min(free)] = Freed
           /\ heap' \in [Arrays -> Seq(Cell) \cup {Freed}]
           /\ heap'[Min(free)] = cells
           /\ \A a \in Arrays : a # Min(free) /\ a # old => heap'[a] = heap[a]
<1>1. free \subseteq Nat /\ free # {}
    BY VectorAssumption DEF free, Arrays, Replace
<1>2. Min(free) \in free
    BY <1>1, MinIn
<1>3. Min(free) \in Arrays /\ heap[Min(free)] = Freed /\ Min(free) # nullptr
    BY <1>2 DEF free, Arrays, nullptr
<1> DEFINE m == Min(free)
<1>4. heap' = [a \in Arrays |-> IF a = m THEN cells ELSE IF a = old THEN Freed ELSE heap[a]]
    BY DEF Replace
<1> HIDE DEF m
<1>5. m \in Arrays
    BY <1>3 DEF m
<1>6. heap' \in [Arrays -> Seq(Cell) \cup {Freed}]
    BY <1>4 DEF VectorType
<1>7. heap'[m] = cells /\ \A a \in Arrays : a # m /\ a # old => heap'[a] = heap[a]
    BY <1>4, <1>5
<1> QED BY <1>3, <1>6, <1>7 DEF m

LEMMA Deleted ==
    ASSUME VectorType, NEW old, Delete(old)
    PROVE  /\ heap' \in [Arrays -> Seq(Cell) \cup {Freed}]
           /\ \A a \in Arrays : a # old => heap'[a] = heap[a]
    BY DEF VectorType, Delete

\* What Cells makes of the first n cells of an array.
LEMMA CellsSeq ==
    ASSUME NEW a, NEW n \in Nat, NEW capacity \in Nat, n <= capacity,
           \A i \in 1 .. n : heap[a][i] \in Cell
    PROVE  /\ Cells(a, n, capacity) \in Seq(Cell)
           /\ Len(Cells(a, n, capacity)) = capacity
           /\ \A i \in 1 .. n : Cells(a, n, capacity)[i] = heap[a][i]
<1> DEFINE c == Cells(a, n, capacity)
<1>1. \A i \in 1 .. capacity : (IF i <= n THEN heap[a][i] ELSE Junk) \in Cell
    BY DEF Cell
<1>2. c \in [1 .. capacity -> Cell]
    BY <1>1 DEF Cells
<1>3. \A i \in 1 .. n : c[i] = heap[a][i]
    BY DEF Cells
<1> HIDE DEF c
<1>4. c \in Seq(Cell)
    BY <1>2, SeqDef
<1>5. 1 .. Len(c) = 1 .. capacity /\ Len(c) \in Nat
    BY <1>2, <1>4, LenProperties
<1>6. Len(c) = capacity
    BY <1>5
<1> QED BY <1>3, <1>4, <1>6 DEF c

\* The items of a vector are those of its array.
LEMMA ItemsInArray ==
    ASSUME VectorInv, NEW v \in Vectors, vec[v].arr # nullptr
    PROVE  /\ vec[v].arr \in Arrays /\ heap[vec[v].arr] \in Seq(Cell)
           /\ \A i \in 1 .. vec[v].csize : heap[vec[v].arr][i] \in Cell
<1>1. vec[v] \in Object /\ VectorHolds(vec[v], heap, seq[v])
    BY DEF VectorInv, VectorType
<1>2. vec[v].arr \in Arrays /\ vec[v].csize \in Nat /\ vec[v].ccapacity \in Nat
    BY <1>1, VectorAssumption DEF Object, Arrays, nullptr
<1>3. heap[vec[v].arr] \in Seq(Cell) \cup {Freed}
    BY <1>2 DEF VectorInv, VectorType
<1>4. heap[vec[v].arr] \in Seq(Cell) /\ Len(heap[vec[v].arr]) = vec[v].ccapacity
      /\ vec[v].csize <= vec[v].ccapacity
    BY <1>1, <1>3 DEF VectorHolds
<1>5. \A i \in 1 .. vec[v].csize : i \in 1 .. Len(heap[vec[v].arr])
    BY <1>2, <1>4
<1> QED BY <1>2, <1>4, <1>5, ElementOfSeq

\* A step that changes one vector and keeps the arrays of the others.
LEMMA OneVector ==
    ASSUME VectorInv, VectorType', NEW v \in Vectors,
           VectorHolds(vec'[v], heap', seq'[v]),
           \A w \in Vectors \ {v} : /\ vec'[w] = vec[w] /\ seq'[w] = seq[w]
                                    /\ w \notin alive' => w \notin alive
                                    /\ vec[w].arr # nullptr => heap'[vec[w].arr] = heap[vec[w].arr]
                                    /\ vec'[v].arr # nullptr => vec[w].arr # vec'[v].arr,
           v \notin alive' => vec'[v] = Fresh /\ seq'[v] = <<>>
    PROVE  VectorInv'
<1>1. ASSUME NEW w \in Vectors PROVE VectorHolds(vec'[w], heap', seq'[w])
  <2>1. CASE w = v
    BY <2>1
  <2>2. CASE w # v
    <3>1. VectorHolds(vec[w], heap, seq[w])
        BY DEF VectorInv
    <3> QED BY SMTT(30), <2>2, <3>1 DEF VectorHolds
  <2> QED BY <2>1, <2>2
<1>2. \A w \in Vectors \ alive' : vec'[w] = Fresh /\ seq'[w] = <<>>
    BY DEF VectorInv
<1>3. \A u, w \in Vectors : u # w /\ vec'[u].arr # nullptr => vec'[u].arr # vec'[w].arr
  <2> SUFFICES ASSUME NEW u \in Vectors, NEW w \in Vectors, u # w, vec'[u].arr # nullptr
               PROVE  vec'[u].arr # vec'[w].arr
    OBVIOUS
  <2>1. CASE u = v
    BY <2>1
  <2>2. CASE w = v
    BY <2>2
  <2>3. CASE u # v /\ w # v
    BY <2>3 DEF VectorInv
  <2> QED BY <2>1, <2>2, <2>3
<1> QED BY <1>1, <1>2, <1>3 DEF VectorInv, VectorHolds

\* An array that is allocated is not the one that new[] gets.
LEMMA NotFree ==
    ASSUME VectorInv, NEW w \in Vectors, vec[w].arr # nullptr, NEW a, heap[a] = Freed
    PROVE  vec[w].arr # a
    BY DEF VectorInv, VectorHolds

-----------------------------------------------------------------------------
\* __copy to a vector: from another, which stays, or from itself.
LEMMA CopyStep ==
    ASSUME VectorInv, NEW v \in Vectors, NEW other \in Vectors, __copy(v, other), CopySeq(v, other),
           alive' = alive \cup {v}
    PROVE  VectorInv'
<1>0. VectorType /\ vec[other] \in Object /\ VectorHolds(vec[other], heap, seq[other])
      /\ seq[other] \in Seq(Cell)
    BY DEF VectorInv, VectorType
<1> DEFINE junk == [i \in 1 .. Len(seq[v]) |-> Junk]
           q == IF v = other THEN junk ELSE seq[other]
<1>1. /\ alive' \subseteq Vectors /\ seq' \in [Vectors -> Seq(Cell)]
      /\ seq'[v] = q /\ \A w \in Vectors \ {v} : seq'[w] = seq[w]
      /\ Len(q) = Len(seq[other])
      /\ \A i \in 1 .. Len(q) : q[i] = IF v = other THEN Junk ELSE seq[other][i]
  <2>1. Len(seq[v]) \in Nat /\ Junk \in Cell
    BY <1>0 DEF VectorType, Cell
  <2>2. /\ junk \in Seq(Cell) /\ Len(junk) = Len(seq[v])
        /\ \A i \in 1 .. Len(seq[v]) : junk[i] = Junk
    BY <2>1
  <2> HIDE DEF junk
  <2>3. q \in Seq(Cell) /\ Len(q) = Len(seq[other])
    BY <1>0, <2>2
  <2>4. \A i \in 1 .. Len(q) : q[i] = IF v = other THEN Junk ELSE seq[other][i]
    BY <2>2
  <2>5. seq' = [seq EXCEPT ![v] = q]
    BY DEF CopySeq, junk
  <2> HIDE DEF q
  <2> QED BY <1>0, <2>3, <2>4, <2>5 DEF VectorType
<1> HIDE DEF q
<1>2. CASE vec[other].csize > 0
  <2> DEFINE o == vec[other]
             there == IF v = other THEN 0 ELSE o.csize
             c == Cells(o.arr, there, o.ccapacity)
             m == Min(free)
             n == [o EXCEPT !.arr = m]
  <2>1. o.arr # nullptr /\ o.csize \in Nat /\ o.ccapacity \in Nat /\ o.csize <= o.ccapacity
    BY <1>0, <1>2 DEF VectorHolds, Object
  <2>2. \A i \in 1 .. o.csize : heap[o.arr][i] \in Cell
    BY <2>1, ItemsInArray
  <2>3. /\ c \in Seq(Cell) /\ Len(c) = o.ccapacity
        /\ \A i \in 1 .. o.csize : c[i] = IF v = other THEN Junk ELSE heap[o.arr][i]
    <3>1. there \in Nat /\ there <= o.csize /\ there <= o.ccapacity
        BY <2>1
    <3>2. \A i \in 1 .. there : i \in 1 .. o.csize /\ heap[o.arr][i] \in Cell
        BY <2>1, <2>2, <3>1
    <3>3. v # other => there = o.csize
        OBVIOUS
    <3>4. v = other => there = 0
        OBVIOUS
    <3> HIDE DEF there
    <3>5. c \in Seq(Cell) /\ Len(c) = o.ccapacity /\ \A i \in 1 .. there : c[i] = heap[o.arr][i]
        BY <2>1, <3>1, <3>2, CellsSeq
    <3>6. \A i \in 1 .. o.ccapacity : ~(i <= there) => c[i] = Junk
        BY DEF Cells
    <3>7. \A i \in 1 .. o.csize : i \in 1 .. o.ccapacity /\ ~(i <= 0)
        BY <2>1
    <3> HIDE DEF c
    <3>8. ASSUME NEW i \in 1 .. o.csize PROVE c[i] = IF v = other THEN Junk ELSE heap[o.arr][i]
      <4>1. CASE v = other
          BY <3>4, <3>6, <3>7, <4>1
      <4>2. CASE v # other
          BY <3>3, <3>5, <4>2
      <4> QED BY <4>1, <4>2
    <3> QED BY <3>5, <3>8
  <2>4. Replace(c, nullptr) /\ vec' = [vec EXCEPT ![v] = n]
    BY <1>2 DEF __copy
  <2> HIDE DEF c
  <2>5. /\ m \in Arrays /\ m # nullptr /\ heap[m] = Freed
        /\ heap' \in [Arrays -> Seq(Cell) \cup {Freed}]
        /\ heap'[m] = c
        /\ \A a \in Arrays : a # m /\ a # nullptr => heap'[a] = heap[a]
    BY <1>0, <2>3, <2>4, Allocated
  <2> HIDE DEF m
  <2>6. n \in Object /\ n.arr = m /\ n.csize = o.csize /\ n.ccapacity = o.ccapacity
    <3>1. m \in 0 .. MaxArrays
        BY <2>5, VectorAssumption DEF Arrays
    <3> QED BY <1>0, <3>1 DEF Object
  <2> HIDE DEF n
  <2>7. vec' \in [Vectors -> Object] /\ vec'[v] = n /\ \A w \in Vectors \ {v} : vec'[w] = vec[w]
    BY <1>0, <2>4, <2>6 DEF VectorType
  <2>8. VectorType'
    BY <1>1, <2>5, <2>7 DEF VectorType
  <2>9. VectorHolds(vec'[v], heap', seq'[v])
    <3>1. c # Freed
        BY <2>3, FreedApart
    <3>2. o.csize = Len(q) /\ \A i \in 1 .. o.csize : c[i] = q[i]
        BY <1>0, <1>1, <2>1, <2>3 DEF VectorHolds
    <3> QED BY <1>0, <1>1, <2>1, <2>3, <2>5, <2>6, <2>7, <3>1, <3>2 DEF VectorHolds
  <2>10. ASSUME NEW w \in Vectors \ {v}
         PROVE  /\ vec[w].arr # nullptr => heap'[vec[w].arr] = heap[vec[w].arr]
                /\ vec'[v].arr # nullptr => vec[w].arr # vec'[v].arr
    <3>1. CASE vec[w].arr = nullptr
        BY <2>5, <2>6, <2>7, <3>1
    <3>2. CASE vec[w].arr # nullptr
      <4>1. vec[w].arr \in Arrays /\ vec[w].arr # m
        BY <2>5, <3>2, ItemsInArray, NotFree
      <4> QED BY <2>5, <2>6, <2>7, <3>2, <4>1
    <3> QED BY <3>1, <3>2
  <2> QED BY <1>1, <2>7, <2>8, <2>9, <2>10, OneVector
<1>3. CASE ~(vec[other].csize > 0)
  <2>1. vec' = [vec EXCEPT ![v] = Fresh] /\ heap' = heap
    BY <1>3 DEF __copy
  <2>2. Fresh \in Object /\ Fresh.arr = nullptr /\ Fresh.csize = 0 /\ Fresh.ccapacity = 0
    BY VectorAssumption DEF Fresh, Object, nullptr
  <2>3. vec' \in [Vectors -> Object] /\ vec'[v] = Fresh
        /\ \A w \in Vectors \ {v} : vec'[w] = vec[w]
    BY <1>0, <2>1, <2>2 DEF VectorType
  <2>4. VectorType'
    BY <1>0, <1>1, <2>1, <2>3 DEF VectorType
  <2>5. Len(seq[other]) = 0
    BY <1>0, <1>3 DEF VectorHolds, Object
  <2>6. VectorHolds(vec'[v], heap', seq'[v])
    BY <1>1, <2>2, <2>3, <2>5 DEF VectorHolds
  <2> QED BY <1>1, <2>1, <2>2, <2>3, <2>4, <2>6, OneVector
<1> QED BY <1>2, <1>3

\* The array and the items of one vector go to another, whose own array, if
\* it has one, is deleted.
LEMMA MoveStep ==
    ASSUME VectorInv, NEW v \in Vectors, NEW other \in Vectors, v # other, other \in alive,
           Take(v, other), TakeSeq(v, other), alive' = alive \cup {v},
           heap' \in [Arrays -> Seq(Cell) \cup {Freed}],
           \A a \in Arrays : a # vec[v].arr => heap'[a] = heap[a]
    PROVE  VectorInv'
<1>0. /\ VectorType /\ Fresh \in Object /\ Fresh.arr = nullptr /\ Fresh.csize = 0
      /\ Fresh.ccapacity = 0 /\ <<>> \in Seq(Cell) /\ Len(<<>>) = 0
    BY VectorAssumption DEF VectorInv, Fresh, Object, nullptr
<1>1. /\ vec' \in [Vectors -> Object] /\ vec'[v] = vec[other] /\ vec'[other] = Fresh
      /\ \A w \in Vectors \ {v, other} : vec'[w] = vec[w]
    BY <1>0 DEF Take, VectorType
<1>2. /\ seq' \in [Vectors -> Seq(Cell)] /\ seq'[v] = seq[other] /\ seq'[other] = <<>>
      /\ \A w \in Vectors \ {v, other} : seq'[w] = seq[w]
    BY <1>0 DEF TakeSeq, VectorType
<1>3. VectorType'
    BY <1>0, <1>1, <1>2 DEF VectorType
<1>4. ASSUME NEW w \in Vectors \ {v}, vec[w].arr # nullptr
      PROVE  heap'[vec[w].arr] = heap[vec[w].arr]
  <2>1. vec[w].arr \in Arrays /\ vec[w].arr # vec[v].arr
    BY <1>4, ItemsInArray DEF VectorInv
  <2> QED BY <2>1
<1>5. ASSUME NEW w \in Vectors PROVE VectorHolds(vec'[w], heap', seq'[w])
  <2>1. CASE w = other
    BY <1>0, <1>1, <1>2, <2>1 DEF VectorHolds
  <2>2. CASE w = v
    <3>1. VectorHolds(vec[other], heap, seq[other])
        BY DEF VectorInv
    <3>2. vec[other].arr # nullptr => heap'[vec[other].arr] = heap[vec[other].arr]
        BY <1>4
    <3>3. VectorHolds(vec[other], heap', seq[other])
        BY <3>1, <3>2 DEF VectorHolds
    <3>4. vec'[w] = vec[other] /\ seq'[w] = seq[other]
        BY <1>1, <1>2, <2>2
    <3> QED BY <3>3, <3>4
  <2>3. CASE w \notin {v, other}
    <3>1. VectorHolds(vec[w], heap, seq[w])
        BY DEF VectorInv
    <3>2. vec[w].arr # nullptr => heap'[vec[w].arr] = heap[vec[w].arr]
        BY <1>4, <2>3
    <3>3. VectorHolds(vec[w], heap', seq[w])
        BY <3>1, <3>2 DEF VectorHolds
    <3>4. vec'[w] = vec[w] /\ seq'[w] = seq[w]
        BY <1>1, <1>2, <2>3
    <3> QED BY <3>3, <3>4
  <2> QED BY <2>1, <2>2, <2>3
<1>6. \A w \in Vectors \ alive' : vec'[w] = Fresh /\ seq'[w] = <<>>
    BY ZenonT(40), <1>1, <1>2 DEF VectorInv
<1>7. \A u, w \in Vectors : u # w /\ vec'[u].arr # nullptr => vec'[u].arr # vec'[w].arr
  <2> SUFFICES ASSUME NEW u \in Vectors, NEW w \in Vectors, u # w, vec'[u].arr # nullptr
               PROVE  vec'[u].arr # vec'[w].arr
    OBVIOUS
  <2>1. CASE u = other \/ w = other
    BY <1>0, <1>1, <2>1
  <2>2. CASE u = v /\ w # other
    BY <1>1, <2>2 DEF VectorInv
  <2>3. CASE w = v /\ u # other
    BY <1>1, <2>3 DEF VectorInv
  <2>4. CASE u \notin {v, other} /\ w \notin {v, other}
    BY <1>1, <2>4 DEF VectorInv
  <2> QED BY <2>1, <2>2, <2>3, <2>4
<1> QED BY <1>3, <1>5, <1>6, <1>7 DEF VectorInv, VectorHolds

\* The constructor and the destructor.
LEMMA EmptyStep ==
    ASSUME VectorInv, NEW v \in Vectors,
           vec' = [vec EXCEPT ![v] = Fresh], seq'[v] = <<>>,
           seq' \in [Vectors -> Seq(Cell)], \A w \in Vectors \ {v} : seq'[w] = seq[w],
           alive' \subseteq Vectors, alive' \ {v} = alive \ {v},
           heap' \in [Arrays -> Seq(Cell) \cup {Freed}],
           \A a \in Arrays : a # vec[v].arr => heap'[a] = heap[a]
    PROVE  VectorInv'
<1>0. /\ VectorType /\ Fresh \in Object /\ Fresh.arr = nullptr /\ Fresh.csize = 0
      /\ Fresh.ccapacity = 0 /\ Len(<<>>) = 0
    BY VectorAssumption DEF VectorInv, Fresh, Object, nullptr
<1>1. /\ vec' \in [Vectors -> Object] /\ vec'[v] = Fresh
      /\ \A w \in Vectors \ {v} : vec'[w] = vec[w]
    BY <1>0 DEF VectorType
<1>2. VectorType'
    BY <1>1 DEF VectorType
<1>3. VectorHolds(vec'[v], heap', seq'[v])
    BY <1>0, <1>1 DEF VectorHolds
<1>4. ASSUME NEW w \in Vectors \ {v}, vec[w].arr # nullptr
      PROVE  heap'[vec[w].arr] = heap[vec[w].arr]
  <2>1. vec[w].arr \in Arrays /\ vec[w].arr # vec[v].arr
    BY <1>4, ItemsInArray DEF VectorInv
  <2> QED BY <2>1
<1> QED BY <1>0, <1>1, <1>2, <1>3, <1>4, OneVector

\* push.
LEMMA PushStep ==
    ASSUME VectorInv, NEW v \in Vectors, NEW item \in Items, vector_push(v, item)
    PROVE  VectorInv'
<1> DEFINE o == vec[v]
           q == seq[v]
<1>0. /\ VectorType /\ o \in Object /\ VectorHolds(o, heap, q) /\ q \in Seq(Cell)
      /\ o.csize \in Nat /\ o.ccapacity \in Nat /\ item \in Cell /\ v \in alive
    BY DEF VectorInv, VectorType, Object, vector_push, Cell
<1>1. /\ seq' \in [Vectors -> Seq(Cell)] /\ seq'[v] = Append(q, item) /\ alive' = alive
      /\ \A w \in Vectors \ {v} : seq'[w] = seq[w]
    BY <1>0 DEF VectorType, vector_push
<1>2. /\ Len(seq'[v]) = o.csize + 1 /\ seq'[v][o.csize + 1] = item
      /\ \A i \in 1 .. o.csize : seq'[v][i] = q[i]
    BY <1>0, <1>1 DEF VectorHolds
<1> HIDE DEF q
<1>3. CASE o.csize >= o.ccapacity
  <2> DEFINE capacity == Max({o.ccapacity * 2, 1})
             c == Cells(o.arr, o.csize, capacity)
             d == [c EXCEPT ![o.csize + 1] = item]
             m == Min(free)
             n == [arr |-> m, ccapacity |-> capacity, csize |-> o.csize + 1]
  <2>1. Replace(d, o.arr) /\ vec' = [vec EXCEPT ![v] = n]
    BY <1>3 DEF vector_push
  <2>2. capacity \in Nat /\ capacity >= o.csize + 1
    <3>1. \E x \in {o.ccapacity * 2, 1} : \A y \in {o.ccapacity * 2, 1} : x >= y
        BY <1>0
    <3>2. capacity \in {o.ccapacity * 2, 1} /\ \A y \in {o.ccapacity * 2, 1} : capacity >= y
        BY <3>1 DEF Max
    <3>3. o.csize = o.ccapacity
        BY <1>0, <1>3 DEF VectorHolds
    <3> QED BY <1>0, <3>2, <3>3
  <2> HIDE DEF capacity
  <2>3. \A i \in 1 .. o.csize : heap[o.arr][i] \in Cell
    <3>1. CASE o.arr = nullptr
        BY <1>0, <3>1 DEF VectorHolds
    <3>2. CASE o.arr # nullptr
        BY <3>2, ItemsInArray
    <3> QED BY <3>1, <3>2
  <2>4. c \in Seq(Cell) /\ Len(c) = capacity /\ \A i \in 1 .. o.csize : c[i] = heap[o.arr][i]
    <3>1. o.csize <= capacity
        BY <1>0, <2>2
    <3> QED BY <1>0, <2>2, <2>3, <3>1, CellsSeq
  <2> HIDE DEF c
  <2>5. /\ d \in Seq(Cell) /\ Len(d) = capacity /\ d[o.csize + 1] = item
        /\ \A i \in 1 .. o.csize : d[i] = heap[o.arr][i]
    <3>1. o.csize + 1 \in 1 .. Len(c) /\ \A i \in 1 .. o.csize : i \in 1 .. Len(c) /\ i # o.csize + 1
        BY <1>0, <2>2, <2>4
    <3> QED BY <1>0, <2>4, <3>1, ExceptSeq
  <2> HIDE DEF d
  <2>6. /\ m \in Arrays /\ m # nullptr /\ heap[m] = Freed
        /\ heap' \in [Arrays -> Seq(Cell) \cup {Freed}]
        /\ heap'[m] = d
        /\ \A a \in Arrays : a # m /\ a # o.arr => heap'[a] = heap[a]
    BY <1>0, <2>1, <2>5, Allocated
  <2> HIDE DEF m
  <2>7. n \in Object /\ n.arr = m /\ n.csize = o.csize + 1 /\ n.ccapacity = capacity
    <3>1. m \in 0 .. MaxArrays /\ o.csize + 1 \in Nat
        BY <1>0, <2>6, VectorAssumption DEF Arrays
    <3> QED BY <2>2, <3>1 DEF Object
  <2> HIDE DEF n
  <2>8. vec' \in [Vectors -> Object] /\ vec'[v] = n /\ \A w \in Vectors \ {v} : vec'[w] = vec[w]
    BY <1>0, <2>1, <2>7 DEF VectorType
  <2>9. VectorType'
    BY <1>0, <1>1, <2>6, <2>8 DEF VectorType
  <2>10. VectorHolds(vec'[v], heap', seq'[v])
    <3>1. d # Freed
        BY <2>5, FreedApart
    <3>2. ASSUME NEW i \in 1 .. o.csize + 1 PROVE d[i] = seq'[v][i]
      <4>1. CASE i = o.csize + 1
        BY <1>2, <2>5, <4>1
      <4>2. CASE i # o.csize + 1
        <5>1. i \in 1 .. o.csize
            BY <1>0, <4>2
        <5>2. heap[o.arr][i] = q[i]
            BY <1>0, <5>1 DEF VectorHolds
        <5> QED BY <1>2, <2>5, <5>1, <5>2
      <4> QED BY <4>1, <4>2
    <3> QED BY <1>2, <2>2, <2>5, <2>6, <2>7, <2>8, <3>1, <3>2 DEF VectorHolds
  <2>11. ASSUME NEW w \in Vectors \ {v}
         PROVE  /\ vec[w].arr # nullptr => heap'[vec[w].arr] = heap[vec[w].arr]
                /\ vec'[v].arr # nullptr => vec[w].arr # vec'[v].arr
    <3>1. CASE vec[w].arr = nullptr
        BY <2>6, <2>7, <2>8, <3>1
    <3>2. CASE vec[w].arr # nullptr
      <4>1. vec[w].arr \in Arrays /\ vec[w].arr # m /\ vec[w].arr # o.arr
        BY <2>6, <3>2, ItemsInArray, NotFree DEF VectorInv
      <4> QED BY <2>6, <2>7, <2>8, <3>2, <4>1
    <3> QED BY <3>1, <3>2
  <2> QED BY <1>0, <1>1, <2>8, <2>9, <2>10, <2>11, OneVector
<1>4. CASE ~(o.csize >= o.ccapacity)
  <2> DEFINE d == [heap[o.arr] EXCEPT ![o.csize + 1] = item]
             n == [o EXCEPT !.csize = o.csize + 1]
  <2>1. heap' = [heap EXCEPT ![o.arr] = d] /\ vec' = [vec EXCEPT ![v] = n]
    BY <1>4 DEF vector_push
  <2>2. o.arr # nullptr /\ o.csize < o.ccapacity
    BY <1>0, <1>4 DEF VectorHolds
  <2>3. o.arr \in Arrays /\ heap[o.arr] \in Seq(Cell) /\ Len(heap[o.arr]) = o.ccapacity
    BY <1>0, <2>2, ItemsInArray DEF VectorHolds
  <2>4. /\ d \in Seq(Cell) /\ Len(d) = o.ccapacity /\ d[o.csize + 1] = item
        /\ \A i \in 1 .. o.csize : d[i] = heap[o.arr][i]
    <3> DEFINE c == heap[o.arr]
    <3>1. o.csize + 1 \in 1 .. Len(c) /\ \A i \in 1 .. o.csize : i \in 1 .. Len(c) /\ i # o.csize + 1
        BY <1>0, <2>2, <2>3
    <3>2. c \in Seq(Cell) /\ Len(c) = o.ccapacity
        BY <2>3
    <3> HIDE DEF c
    <3>3. LET e == [c EXCEPT ![o.csize + 1] = item]
          IN  /\ e \in Seq(Cell) /\ Len(e) = Len(c)
              /\ \A i \in 1 .. Len(c) : e[i] = IF i = o.csize + 1 THEN item ELSE c[i]
        BY <1>0, <3>1, <3>2, ExceptSeq
    <3> QED BY <3>1, <3>2, <3>3 DEF c
  <2> HIDE DEF d
  <2>5. /\ heap' \in [Arrays -> Seq(Cell) \cup {Freed}] /\ heap'[o.arr] = d
        /\ \A a \in Arrays : a # o.arr => heap'[a] = heap[a]
    BY <1>0, <2>1, <2>3, <2>4 DEF VectorType
  <2>6. n \in Object /\ n.arr = o.arr /\ n.csize = o.csize + 1 /\ n.ccapacity = o.ccapacity
    BY <1>0 DEF Object
  <2> HIDE DEF n
  <2>7. vec' \in [Vectors -> Object] /\ vec'[v] = n /\ \A w \in Vectors \ {v} : vec'[w] = vec[w]
    BY <1>0, <2>1, <2>6 DEF VectorType
  <2>8. VectorType'
    BY <1>0, <1>1, <2>5, <2>7 DEF VectorType
  <2>9. VectorHolds(vec'[v], heap', seq'[v])
    <3>1. d # Freed
        BY <2>4, FreedApart
    <3>2. ASSUME NEW i \in 1 .. o.csize + 1 PROVE d[i] = seq'[v][i]
      <4>1. CASE i = o.csize + 1
        BY <1>2, <2>4, <4>1
      <4>2. CASE i # o.csize + 1
        <5>1. i \in 1 .. o.csize
            BY <1>0, <4>2
        <5>2. heap[o.arr][i] = q[i]
            BY <1>0, <2>2, <5>1 DEF VectorHolds
        <5> QED BY <1>2, <2>4, <5>1, <5>2
      <4> QED BY <4>1, <4>2
    <3>3. o.csize + 1 <= o.ccapacity
        BY <1>0, <2>2
    <3> QED BY <1>2, <2>2, <2>4, <2>5, <2>6, <2>7, <3>1, <3>2, <3>3 DEF VectorHolds
  <2>10. ASSUME NEW w \in Vectors \ {v}
         PROVE  /\ vec[w].arr # nullptr => heap'[vec[w].arr] = heap[vec[w].arr]
                /\ vec'[v].arr # nullptr => vec[w].arr # vec'[v].arr
    <3>1. vec[w].arr # o.arr
        BY <2>2 DEF VectorInv
    <3>2. vec[w].arr # nullptr => vec[w].arr \in Arrays
        BY ItemsInArray
    <3> QED BY <2>5, <2>6, <2>7, <3>1, <3>2
  <2> QED BY <1>0, <1>1, <2>7, <2>8, <2>9, <2>10, OneVector
<1> QED BY <1>3, <1>4

\* pop.
LEMMA PopStep ==
    ASSUME VectorInv, NEW v \in Vectors, vector_pop(v)
    PROVE  VectorInv'
<1> DEFINE o == vec[v]
           q == seq[v]
           k == o.csize - 1
<1>0. /\ VectorType /\ o \in Object /\ VectorHolds(o, heap, q) /\ q \in Seq(Cell)
      /\ o.csize \in Nat /\ o.ccapacity \in Nat /\ o.csize > 0 /\ v \in alive
    BY DEF VectorInv, VectorType, Object, vector_pop
<1>1. k \in Nat /\ k < o.csize /\ o.arr # nullptr /\ Len(q) = o.csize
    BY <1>0 DEF VectorHolds
<1>2. SubSeq(q, 1, k) \in Seq(Cell) /\ Len(SubSeq(q, 1, k)) = k
      /\ \A i \in 1 .. k : SubSeq(q, 1, k)[i] = q[i]
    BY <1>0, <1>1
<1>3. /\ seq' = [seq EXCEPT ![v] = SubSeq(q, 1, Len(q) - 1)] /\ alive' = alive
    BY DEF vector_pop
<1>4. /\ seq' \in [Vectors -> Seq(Cell)] /\ seq'[v] = SubSeq(q, 1, k)
      /\ \A w \in Vectors \ {v} : seq'[w] = seq[w]
    BY <1>0, <1>1, <1>2, <1>3 DEF VectorType
<1>5. /\ o.arr \in Arrays /\ heap[o.arr] \in Seq(Cell)
      /\ \A i \in 1 .. o.csize : heap[o.arr][i] \in Cell
    BY <1>1, ItemsInArray
<1>6. \A i \in 1 .. k : i \in 1 .. o.csize /\ heap[o.arr][i] = seq'[v][i]
  <2> SUFFICES ASSUME NEW i \in 1 .. k PROVE i \in 1 .. o.csize /\ heap[o.arr][i] = seq'[v][i]
    OBVIOUS
  <2>1. i \in 1 .. o.csize
    BY <1>0, <1>1
  <2>2. heap[o.arr][i] = q[i]
    BY <1>0, <1>1, <2>1 DEF VectorHolds
  <2> QED BY <1>2, <1>4, <2>1, <2>2
<1>7. Len(seq'[v]) = k
    BY <1>2, <1>4
<1> HIDE DEF k, q
<1>8. CASE k <= o.ccapacity \div 2
  <2> DEFINE half == o.ccapacity \div 2
             c == Cells(o.arr, k, half)
             m == Min(free)
             n == [arr |-> m, ccapacity |-> half, csize |-> k]
  <2>1. Replace(c, o.arr) /\ vec' = [vec EXCEPT ![v] = n]
    BY <1>8 DEF vector_pop, k
  <2>2. half \in Nat /\ k <= half
    BY <1>0, <1>8
  <2> HIDE DEF half
  <2>3. c \in Seq(Cell) /\ Len(c) = half /\ \A i \in 1 .. k : c[i] = heap[o.arr][i]
    BY <1>1, <1>5, <1>6, <2>2, CellsSeq
  <2> HIDE DEF c
  <2>4. /\ m \in Arrays /\ m # nullptr /\ heap[m] = Freed
        /\ heap' \in [Arrays -> Seq(Cell) \cup {Freed}]
        /\ heap'[m] = c
        /\ \A a \in Arrays : a # m /\ a # o.arr => heap'[a] = heap[a]
    BY <1>0, <2>1, <2>3, Allocated
  <2> HIDE DEF m
  <2>5. n \in Object /\ n.arr = m /\ n.csize = k /\ n.ccapacity = half
    <3>1. m \in 0 .. MaxArrays
        BY <2>4, VectorAssumption DEF Arrays
    <3> QED BY <1>1, <2>2, <3>1 DEF Object
  <2> HIDE DEF n
  <2>6. vec' \in [Vectors -> Object] /\ vec'[v] = n /\ \A w \in Vectors \ {v} : vec'[w] = vec[w]
    BY <1>0, <2>1, <2>5 DEF VectorType
  <2>7. VectorType'
    BY <1>0, <1>3, <1>4, <2>4, <2>6 DEF VectorType
  <2>8. VectorHolds(vec'[v], heap', seq'[v])
    <3>1. c # Freed
        BY <2>3, FreedApart
    <3> QED BY <1>6, <1>7, <2>2, <2>3, <2>4, <2>5, <2>6, <3>1 DEF VectorHolds
  <2>9. ASSUME NEW w \in Vectors \ {v}
        PROVE  /\ vec[w].arr # nullptr => heap'[vec[w].arr] = heap[vec[w].arr]
               /\ vec'[v].arr # nullptr => vec[w].arr # vec'[v].arr
    <3>1. CASE vec[w].arr = nullptr
        BY <2>4, <2>5, <2>6, <3>1
    <3>2. CASE vec[w].arr # nullptr
      <4>1. vec[w].arr \in Arrays /\ vec[w].arr # m /\ vec[w].arr # o.arr
        BY <2>4, <3>2, ItemsInArray, NotFree DEF VectorInv
      <4> QED BY <2>4, <2>5, <2>6, <3>2, <4>1
    <3> QED BY <3>1, <3>2
  <2> QED BY <1>0, <1>3, <1>4, <2>6, <2>7, <2>8, <2>9, OneVector
<1>9. CASE ~(k <= o.ccapacity \div 2)
  <2> DEFINE n == [o EXCEPT !.csize = k]
  <2>1. vec' = [vec EXCEPT ![v] = n] /\ heap' = heap
    BY <1>9 DEF vector_pop, k
  <2>2. n \in Object /\ n.arr = o.arr /\ n.csize = k /\ n.ccapacity = o.ccapacity
    BY <1>0, <1>1 DEF Object
  <2> HIDE DEF n
  <2>3. vec' \in [Vectors -> Object] /\ vec'[v] = n /\ \A w \in Vectors \ {v} : vec'[w] = vec[w]
    BY <1>0, <2>1, <2>2 DEF VectorType
  <2>4. VectorType'
    BY <1>0, <1>3, <1>4, <2>1, <2>3 DEF VectorType
  <2>5. k <= o.ccapacity /\ heap[o.arr] # Freed /\ Len(heap[o.arr]) = o.ccapacity
    BY <1>0, <1>1 DEF VectorHolds
  <2>6. VectorHolds(vec'[v], heap', seq'[v])
    BY <1>1, <1>6, <1>7, <2>1, <2>2, <2>3, <2>5 DEF VectorHolds
  <2>7. ASSUME NEW w \in Vectors \ {v}
        PROVE  /\ vec[w].arr # nullptr => heap'[vec[w].arr] = heap[vec[w].arr]
               /\ vec'[v].arr # nullptr => vec[w].arr # vec'[v].arr
    BY <1>1, <2>1, <2>2, <2>3 DEF VectorInv
  <2> QED BY <1>0, <1>3, <1>4, <2>3, <2>4, <2>6, <2>7, OneVector
<1> QED BY <1>8, <1>9

LEMMA VectorInitInv == vector_init => VectorInv
<1> SUFFICES ASSUME vector_init PROVE VectorInv
    OBVIOUS
<1>1. Fresh \in Object /\ Fresh.arr = nullptr /\ Fresh.csize = 0 /\ Fresh.ccapacity = 0
      /\ <<>> \in Seq(Cell) /\ Len(<<>>) = 0
    BY VectorAssumption DEF Fresh, Object, nullptr
<1>2. /\ heap = [a \in Arrays |-> Freed] /\ vec = [v \in Vectors |-> Fresh]
      /\ alive = {} /\ seq = [v \in Vectors |-> <<>>]
    BY DEF vector_init
<1>3. VectorType
    BY <1>1, <1>2 DEF VectorType
<1>4. \A v \in Vectors : vec[v] = Fresh /\ seq[v] = <<>>
    BY <1>2
<1>5. \A v \in Vectors : VectorHolds(vec[v], heap, seq[v])
    BY <1>1, <1>4 DEF VectorHolds
<1> QED BY <1>1, <1>3, <1>4, <1>5 DEF VectorInv

LEMMA VectorNextInv == VectorInv /\ [vector_next]_vector_vars => VectorInv'
<1> SUFFICES ASSUME VectorInv, [vector_next]_vector_vars PROVE VectorInv'
    OBVIOUS
<1>0. VectorType /\ <<>> \in Seq(Cell)
    BY DEF VectorInv
<1>1. ASSUME NEW v \in Vectors, construct(v) PROVE VectorInv'
  <2>1. /\ vec' = [vec EXCEPT ![v] = Fresh] /\ heap' = heap /\ seq' = seq
        /\ v \notin alive /\ alive' = alive \cup {v}
    BY <1>1 DEF construct
  <2>2. seq[v] = <<>>
    BY <2>1 DEF VectorInv
  <2> QED BY <1>0, <2>1, <2>2, EmptyStep DEF VectorType
<1>2. ASSUME NEW v \in Vectors, destroy(v) PROVE VectorInv'
  <2>1. /\ vec' = [vec EXCEPT ![v] = Fresh] /\ Delete(vec[v].arr)
        /\ seq' = [seq EXCEPT ![v] = <<>>] /\ alive' = alive \ {v}
    BY <1>2 DEF destroy
  <2>2. /\ heap' \in [Arrays -> Seq(Cell) \cup {Freed}]
        /\ \A a \in Arrays : a # vec[v].arr => heap'[a] = heap[a]
    BY <1>0, <2>1, Deleted
  <2>3. /\ seq' \in [Vectors -> Seq(Cell)] /\ seq'[v] = <<>>
        /\ \A w \in Vectors \ {v} : seq'[w] = seq[w]
    BY <1>0, <2>1 DEF VectorType
  <2>4. alive' \subseteq Vectors /\ alive' \ {v} = alive \ {v}
    BY <1>0, <2>1 DEF VectorType
  <2> QED BY <2>1, <2>2, <2>3, <2>4, EmptyStep
<1>3. ASSUME NEW v \in Vectors, NEW other \in Vectors, copy_construct(v, other) PROVE VectorInv'
    BY <1>3, CopyStep DEF copy_construct
<1>4. ASSUME NEW v \in Vectors, NEW other \in Vectors, copy_assign(v, other) PROVE VectorInv'
  <2>1. alive' = alive \cup {v}
    BY <1>4 DEF copy_assign
  <2> QED BY <1>4, <2>1, CopyStep DEF copy_assign
<1>5. ASSUME NEW v \in Vectors, NEW other \in Vectors, move_construct(v, other) PROVE VectorInv'
  <2>1. /\ v # other /\ other \in alive /\ Take(v, other) /\ TakeSeq(v, other)
        /\ alive' = alive \cup {v} /\ heap' = heap
    BY <1>5 DEF move_construct
  <2>2. heap' \in [Arrays -> Seq(Cell) \cup {Freed}]
    BY <1>0, <2>1 DEF VectorType
  <2> QED BY <2>1, <2>2, MoveStep
<1>6. ASSUME NEW v \in Vectors, NEW other \in Vectors, move_assign(v, other) PROVE VectorInv'
  <2>1. /\ {v, other} \subseteq alive /\ Take(v, other) /\ TakeSeq(v, other)
        /\ alive' = alive \cup {v} /\ alive' = alive /\ Delete(vec[v].arr)
    BY <1>6 DEF move_assign
  <2>2. /\ heap' \in [Arrays -> Seq(Cell) \cup {Freed}]
        /\ \A a \in Arrays : a # vec[v].arr => heap'[a] = heap[a]
    BY <1>0, <2>1, Deleted
  <2>3. CASE v # other
    BY <2>1, <2>2, <2>3, MoveStep
  <2>4. CASE v = other
    <3>1. vec' = [vec EXCEPT ![v] = Fresh]
      <4>1. vec' = [[vec EXCEPT ![v] = vec[v]] EXCEPT ![v] = Fresh]
        BY <2>1, <2>4 DEF Take
      <4>2. DOMAIN vec = Vectors
        BY <1>0 DEF VectorType
      <4> QED BY <4>1, <4>2
    <3>2. seq' = [seq EXCEPT ![v] = <<>>]
      <4>1. seq' = [[seq EXCEPT ![v] = seq[v]] EXCEPT ![v] = <<>>]
        BY <2>1, <2>4 DEF TakeSeq
      <4>2. DOMAIN seq = Vectors
        BY <1>0 DEF VectorType
      <4> QED BY <4>1, <4>2
    <3>3. /\ seq' \in [Vectors -> Seq(Cell)] /\ seq'[v] = <<>>
          /\ \A w \in Vectors \ {v} : seq'[w] = seq[w]
      BY <1>0, <3>2 DEF VectorType
    <3>4. alive' \subseteq Vectors /\ alive' \ {v} = alive \ {v}
      BY <1>0, <2>1 DEF VectorType
    <3> QED BY <2>2, <3>1, <3>3, <3>4, EmptyStep
  <2> QED BY <2>3, <2>4
<1>7. CASE UNCHANGED vector_vars
    BY <1>7 DEF vector_vars, VectorInv, VectorType, VectorHolds
<1> QED BY <1>1, <1>2, <1>3, <1>4, <1>5, <1>6, <1>7, PopStep, PushStep DEF vector_next

LEMMA VectorInvIsSeq == VectorInv => VectorIsSeq
<1> SUFFICES ASSUME VectorInv, NEW v \in alive
             PROVE  /\ vec[v].csize = Len(seq[v]) /\ vec[v].csize <= vec[v].ccapacity
                    /\ vec[v].arr # nullptr =>
                          /\ vec[v].arr \notin free
                          /\ Len(heap[vec[v].arr]) = vec[v].ccapacity
                          /\ SubSeq(heap[vec[v].arr], 1, vec[v].csize) = seq[v]
                          /\ \A w \in alive \ {v} : vec[w].arr # vec[v].arr
    BY DEF VectorIsSeq
<1> DEFINE a == vec[v].arr
           n == vec[v].csize
<1>0. /\ v \in Vectors /\ alive \subseteq Vectors /\ VectorHolds(vec[v], heap, seq[v])
      /\ n \in Nat /\ seq[v] \in Seq(Cell)
    BY DEF VectorInv, VectorType, Object
<1>1. ASSUME a # nullptr PROVE SubSeq(heap[a], 1, n) = seq[v]
  <2> DEFINE p == SubSeq(heap[a], 1, n)
  <2>1. \A i \in 1 .. n : heap[a][i] \in Cell
    BY <1>0, <1>1, ItemsInArray
  <2>2. p \in Seq(Cell) /\ Len(p) = n /\ \A i \in 1 .. n : p[i] = heap[a][i]
    BY <1>0, <2>1, SubSeqProperties
  <2>3. seq[v] \in Seq(Cell)
    BY <1>0, SeqMonotonic DEF Cell
  <2>4. Len(seq[v]) = n /\ \A i \in 1 .. n : heap[a][i] = seq[v][i]
    BY <1>0, <1>1 DEF VectorHolds
  <2> HIDE DEF p
  <2>5. p = seq[v]
    BY <2>2, <2>3, <2>4, SeqEqual
  <2> QED BY <2>5 DEF p
<1>2. ASSUME a # nullptr, NEW w \in alive \ {v} PROVE vec[w].arr # a
    BY <1>0, <1>2 DEF VectorInv
<1> QED BY <1>0, <1>1, <1>2 DEF VectorHolds, free

\* Through any sequence of constructors, assignments, pushes and pops, on any
\* number of vectors, each has the items that were given to it, except that a
\* copy to itself turns them into Junk and a move to itself leaves none, in an
\* allocated array of its own.
THEOREM UnitVectorIsSeq == vector_spec => []VectorIsSeq
<1>1. vector_spec => []VectorInv
    BY VectorInitInv, VectorNextInv, PTL DEF vector_spec
<1> QED BY <1>1, VectorInvIsSeq, PTL

-----------------------------------------------------------------------------
(* Interrupts. *)

\* Boot after gdt_init, idt_init, pic_init, and the five steps that follow it.
AfterCall == {"main", "up", "hung"}
AfterKbd == {"call_init"} \cup AfterCall
AfterKbdBind == {"kbd_init"} \cup AfterKbd
AfterPit == {"kbd_bind"} \cup AfterKbdBind
AfterPitBind == {"pit_init"} \cup AfterPit
AfterPic == {"pit_bind"} \cup AfterPitBind
AfterIdt == {"pic_init"} \cup AfterPic
AfterGdt == {"idt_init"} \cup AfterIdt

\* The tables, as far as boot has come.
GdtInv == boot.at \in AfterGdt =>
    \/ boot.arch = "i386" /\ gdt = gdt_init_i386
    \/ boot.arch = "amd64" /\ gdt = gdt_init_amd64

BoundTo(v) ==
    IF v \in Exceptions THEN "isr_exception"
    ELSE IF v = 39 THEN "isr_spurious"
    ELSE IF v = 32 /\ boot.at \in AfterPitBind THEN "isr_pit"
    ELSE IF v = 33 /\ boot.at \in AfterKbdBind THEN "isr_kbd"
    ELSE IF v = 128 /\ boot.at \in AfterCall THEN "isr_syscall"
    ELSE "isr_stub"

IdtInv == boot.at \in AfterIdt => idt = [v \in Gates |-> Gate(BoundTo(v))]

\* The controllers: lines 0 and 1 are open, each once its handler is bound.
PicInv ==
    /\ pic.irr \subseteq Irqs
    /\ boot.at \in AfterPic =>
          /\ pic.offset = PIC_REMAP_OFFSET
          /\ pic.imr = (Irqs \ {i \in {0} : boot.at \in AfterPit})
                              \ {i \in {1} : boot.at \in AfterKbd}

\* What a thread is in when an interrupt comes: its code, or a system call.
Code == <<>>
Call == <<[routine |-> "isr_syscall", at |-> "call"]>>

\* The interrupt that is being served, and what is in service for it.
Served == {[routine |-> "isr_pit", at |-> "entry", isr |-> {0}],
           [routine |-> "isr_kbd", at |-> "entry", isr |-> {1}],
           [routine |-> "isr_kbd", at |-> "loop", isr |-> {}],
           [routine |-> "isr_spurious", at |-> "entry", isr |-> {}]}

\* Interrupts do not nest: a handler ends before interrupts are on again.
InThread == cpu.frames \in {Code, Call} /\ pic.isr = {}
InCallEntry == /\ cpu.frames = <<[routine |-> "isr_syscall", at |-> "entry"]>>
               /\ ~cpu.enabled /\ pic.isr = {}
InHandler == /\ ~cpu.enabled
             /\ \E base \in {Code, Call}, s \in Served :
                   /\ cpu.frames = Append(base, [routine |-> s.routine, at |-> s.at])
                   /\ pic.isr = s.isr

CpuInv ==
    /\ cpu = [enabled |-> cpu.enabled, frames |-> cpu.frames]
    /\ cpu.enabled \in BOOLEAN
    /\ InThread \/ InCallEntry \/ InHandler
    /\ boot.at \notin {"up", "hung"} => cpu.frames = <<>> /\ ~cpu.enabled
    /\ boot.at = "hung" => ~cpu.enabled

IntrType ==
    /\ boot \in [at : {"gdt_init"} \cup AfterGdt, arch : {"none", "i386", "amd64"},
                 stale : BOOLEAN]
    /\ pic = [offset |-> pic.offset, imr |-> pic.imr, irr |-> pic.irr, isr |-> pic.isr]
    /\ keyboard \in Nat

\* A byte waits in the keyboard: its handler has been or will be asked for.
KeyInv == keyboard > 0 /\ ~boot.stale =>
    1 \in pic.irr \/ Serving("isr_kbd", "entry") \/ Serving("isr_kbd", "loop")

ReportInv == report # NoReport =>
    /\ report.code = report.vector
    /\ report.arch = "i386" /\ report.vector # 17 => report.error = report.pushed

\* The inductive invariant.
IntrInv == IntrType /\ GdtInv /\ IdtInv /\ PicInv /\ CpuInv /\ KeyInv /\ ReportInv

\* The order of the steps of boot.
LEMMA BootOrder ==
    /\ Boot("idt_init") => boot.at = "idt_init" /\ boot' = [boot EXCEPT !.at = "pic_init"]
    /\ Boot("pit_bind") => boot.at = "pit_bind" /\ boot' = [boot EXCEPT !.at = "pit_init"]
    /\ Boot("pit_init") => boot.at = "pit_init" /\ boot' = [boot EXCEPT !.at = "kbd_bind"]
    /\ Boot("kbd_bind") => boot.at = "kbd_bind" /\ boot' = [boot EXCEPT !.at = "kbd_init"]
    /\ Boot("kbd_init") => boot.at = "kbd_init" /\ boot' = [boot EXCEPT !.at = "call_init"]
    /\ Boot("call_init") => boot.at = "call_init" /\ boot' = [boot EXCEPT !.at = "main"]
    /\ Boot("main") => boot.at = "main" /\ boot' = [boot EXCEPT !.at = "up"]
<1>1. Len(BootSteps) = 10
    BY DEF arch_init, BootSteps
<1>2. /\ BootSteps[1] = "gdt_init" /\ BootSteps[2] = "idt_init" /\ BootSteps[3] = "pic_init"
      /\ BootSteps[4] = "pit_bind" /\ BootSteps[5] = "pit_init" /\ BootSteps[6] = "kbd_bind"
      /\ BootSteps[7] = "kbd_init" /\ BootSteps[8] = "call_init" /\ BootSteps[9] = "main"
      /\ BootSteps[10] = "up"
    BY <1>1 DEF BootSteps, arch_init
<1> QED BY <1>1, <1>2 DEF Boot

\* The bytes that gdt_set_entry splits are the segment the processor sees.
FlatCode(d, arch) ==
    LET sg == Segment(d)
    IN  sg.code /\ sg.mode = arch /\ sg.base = 0 /\ sg.limit = 2^20 - 1 /\ sg.pages

LEMMA CodeSegment ==
    FlatCode(gdt_init_i386[1], "i386") /\ FlatCode(gdt_init_amd64[1], "amd64")
<1>1. /\ gdt_init_i386[1] = gdt_set_entry(0, 1048575, 154, 12)
      /\ gdt_init_amd64[1] = gdt_set_entry(0, 1048575, 158, 10)
    BY SMT DEF gdt_init_i386, gdt_init_amd64, Segments, READABLE, EXECUTE, ONE, PRESENT, CONFORMING,
           PAGE, PROTECTED_32, LONG_64
<1>2. gdt_set_entry(0, 1048575, 154, 12) =
          [offset_lo |-> 0, offset_mid |-> 0, offset_hi |-> 0, size_lo |-> 65535,
           granularity_flags |-> 207, access_flags |-> 154]
    BY SMT DEF gdt_set_entry
<1>3. gdt_set_entry(0, 1048575, 158, 10) =
          [offset_lo |-> 0, offset_mid |-> 0, offset_hi |-> 0, size_lo |-> 65535,
           granularity_flags |-> 175, access_flags |-> 158]
    BY SMT DEF gdt_set_entry
<1>4. /\ Bit(207, 128) = TRUE /\ Bit(207, 64) = TRUE /\ Bit(207, 32) = FALSE
      /\ Bit(175, 128) = TRUE /\ Bit(175, 64) = FALSE /\ Bit(175, 32) = TRUE
      /\ Bit(154, 128) = TRUE /\ Bit(154, 16) = TRUE /\ Bit(154, 8) = TRUE
      /\ Bit(158, 128) = TRUE /\ Bit(158, 16) = TRUE /\ Bit(158, 8) = TRUE
    BY DEF Bit
<1>5. /\ 0 + 2^16 * 0 + 2^24 * 0 = 0
      /\ 65535 + 2^16 * (207 % 16) = 2^20 - 1
      /\ 65535 + 2^16 * (175 % 16) = 2^20 - 1
    BY SMT
<1>6. ASSUME NEW d, NEW g, NEW a, NEW arch,
             d = [offset_lo |-> 0, offset_mid |-> 0, offset_hi |-> 0, size_lo |-> 65535,
                  granularity_flags |-> g, access_flags |-> a],
             Bit(g, 128), Bit(a, 128), Bit(a, 16), Bit(a, 8),
             arch = IF Bit(g, 64) THEN "i386" ELSE "amd64", Bit(g, 64) # Bit(g, 32),
             65535 + 2^16 * (g % 16) = 2^20 - 1
      PROVE  FlatCode(d, arch)
    <2> DEFINE sg == Segment(d)
    <2>1. sg.code /\ sg.pages
        <3>1. /\ sg.code = (Bit(d.access_flags, 128) /\ Bit(d.access_flags, 16)
                              /\ Bit(d.access_flags, 8))
              /\ sg.pages = Bit(d.granularity_flags, 128)
            BY Zenon DEF Segment, PRESENT, ONE, EXECUTE
        <3>2. d.access_flags = a /\ d.granularity_flags = g
            BY <1>6, SMT
        <3>3. Bit(g, 128) /\ Bit(a, 128) /\ Bit(a, 16) /\ Bit(a, 8)
            BY <1>6, SMT
        <3> HIDE DEF sg
        <3> QED BY <3>1, <3>2, <3>3, Zenon
    <2>2. sg.base = 0 /\ sg.limit = 2^20 - 1
        BY <1>5, <1>6, SMT DEF Segment
    <2>3. sg.mode = arch
        BY <1>6, SMT DEF Segment, Bit
    <2> QED BY <2>1, <2>2, <2>3, SMT DEF FlatCode
<1>7. FlatCode(gdt_init_i386[1], "i386")
    BY <1>1, <1>2, <1>4, <1>5, <1>6, SMT
<1>8. FlatCode(gdt_init_amd64[1], "amd64")
    BY <1>1, <1>3, <1>4, <1>5, <1>6, SMT
<1> QED BY <1>7, <1>8

\* In the running system every vector that can be taken leads to its routine.
LEMMA RoutineUp ==
    ASSUME GdtInv, IdtInv, boot.at = "up"
    PROVE  /\ Routine(32) = "isr_pit" /\ Routine(33) = "isr_kbd"
           /\ Routine(39) = "isr_spurious" /\ Routine(128) = "isr_syscall"
<1>1. \/ boot.arch = "i386" /\ gdt = gdt_init_i386
      \/ boot.arch = "amd64" /\ gdt = gdt_init_amd64
    BY DEF GdtInv, AfterGdt, AfterIdt, AfterPic, AfterPitBind, AfterPit, AfterKbdBind, AfterKbd,
           AfterCall
<1>2. /\ 32 \in Gates /\ 33 \in Gates /\ 39 \in Gates /\ 128 \in Gates
    BY DEF Gates, PIC_REMAP_OFFSET, Irqs, CALL_IRQ, Exceptions
<1>3. /\ BoundTo(32) = "isr_pit" /\ BoundTo(33) = "isr_kbd"
      /\ BoundTo(39) = "isr_spurious" /\ BoundTo(128) = "isr_syscall"
    BY DEF BoundTo, Exceptions, AfterPitBind, AfterPit, AfterKbdBind, AfterKbd, AfterCall
<1>4. idt = [v \in Gates |-> Gate(BoundTo(v))]
    BY DEF IdtInv, AfterIdt, AfterPic, AfterPitBind, AfterPit, AfterKbdBind, AfterKbd, AfterCall
<1>5. /\ idt[32] = Gate("isr_pit") /\ idt[33] = Gate("isr_kbd")
      /\ idt[39] = Gate("isr_spurious") /\ idt[128] = Gate("isr_syscall")
    BY <1>2, <1>3, <1>4
<1>6. ASSUME NEW v, NEW r, idt[v] = Gate(r)
      PROVE  Routine(v) = r
    <2>1. idt[v].selector \div 8 = 1 /\ idt[v].type_attr = GATE_INT + PRESENT /\ idt[v].routine = r
        BY <1>6 DEF Gate
    <2>2. FlatCode(gdt[1], boot.arch)
        BY <1>1, CodeSegment, Zenon
    <2> QED BY <2>1, <2>2, SMT DEF Routine, FlatCode
<1> QED BY <1>5, <1>6

-----------------------------------------------------------------------------
(* The frames of the interrupts being served. *)

LEMMA FramesOf ==
    ASSUME NEW base \in {Code, Call}, NEW f
    PROVE  /\ Append(base, f) # <<>>
           /\ Last(Append(base, f)) = f
           /\ Front(Append(base, f)) = base
           /\ Len(Append(base, f)) = Len(base) + 1
           /\ \A n \in 1 .. Len(base) : Append(base, f)[n] = base[n]
           /\ Append(base, f)[Len(base) + 1] = f
<1> DEFINE T == {[routine |-> "isr_syscall", at |-> "call"], f}
           q == Append(base, f)
<1>1. base \in Seq(T) /\ f \in T
    <2> DEFINE c == [routine |-> "isr_syscall", at |-> "call"]
    <2>1. c \in T /\ f \in T /\ Call = <<c>> /\ Code = <<>>
        BY Zenon DEF Code, Call
    <2> HIDE DEF c, T
    <2>2. <<c>> \in Seq(T) /\ <<>> \in Seq(T)
        BY <2>1
    <2> QED BY <2>1, <2>2
<1> HIDE DEF T
<1>2. q \in Seq(T) /\ q # <<>> /\ Len(q) = Len(base) + 1
    BY <1>1, AppendProperties
<1>3. (\A n \in 1 .. Len(base) : q[n] = base[n]) /\ q[Len(base) + 1] = f
    BY <1>1, AppendProperties
<1>4. Len(base) \in Nat
    BY <1>1
<1>5. Front(q) = base
    <2> HIDE DEF q
    <2>1. /\ Front(q) \in Seq(T) /\ Len(Front(q)) = Len(base)
          /\ \A n \in 1 .. Len(base) : Front(q)[n] = q[n]
        BY <1>2, <1>4 DEF Front
    <2> QED BY <1>1, <1>3, <1>4, <2>1
<1> HIDE DEF q
<1> QED BY <1>2, <1>3, <1>5 DEF Last, q

\* The handler on top goes on to its next step.
LEMMA TopAt ==
    ASSUME NEW base \in {Code, Call}, NEW r, NEW a, NEW b
    PROVE  LET q == Append(base, [routine |-> r, at |-> a])
           IN  [q EXCEPT ![Len(q)] = [q[Len(q)] EXCEPT !.at = b]]
               = Append(base, [routine |-> r, at |-> b])
<1> DEFINE f == [routine |-> r, at |-> a]
           g == [routine |-> r, at |-> b]
           T == {[routine |-> "isr_syscall", at |-> "call"], f, g}
           q == Append(base, f)
<1>1. base \in Seq(T) /\ f \in T /\ g \in T
    <2> DEFINE c == [routine |-> "isr_syscall", at |-> "call"]
    <2>1. c \in T /\ f \in T /\ g \in T /\ Call = <<c>> /\ Code = <<>>
        BY Zenon DEF Code, Call
    <2> HIDE DEF c, T, f, g
    <2>2. <<c>> \in Seq(T) /\ <<>> \in Seq(T)
        BY <2>1
    <2> QED BY <2>1, <2>2
<1>2. [f EXCEPT !.at = b] = g
    OBVIOUS
<1> HIDE DEF T, f, g
<1>3. [q EXCEPT ![Len(q)] = g] = Append(base, g)
    <2> DEFINE u == [q EXCEPT ![Len(q)] = g]
               w == Append(base, g)
    <2>1. /\ q \in Seq(T) /\ Len(q) = Len(base) + 1 /\ Len(base) \in Nat
          /\ \A n \in 1 .. Len(base) : q[n] = base[n]
        BY <1>1, AppendProperties
    <2>2. /\ w \in Seq(T) /\ Len(w) = Len(base) + 1 /\ w[Len(base) + 1] = g
          /\ \A n \in 1 .. Len(base) : w[n] = base[n]
        BY <1>1, AppendProperties
    <2> HIDE DEF q, w
    <2>3. /\ u \in Seq(T) /\ Len(u) = Len(q)
          /\ \A n \in 1 .. Len(q) : u[n] = IF n = Len(q) THEN g ELSE q[n]
        BY <1>1, <2>1
    <2> HIDE DEF u
    <2>4. \A n \in 1 .. Len(u) : u[n] = w[n]
        BY <2>1, <2>2, <2>3
    <2>5. u = w
        BY <2>1, <2>2, <2>3, <2>4
    <2> QED BY <2>5 DEF u, w
<1>4. q[Len(q)] = f
    BY <1>1
<1> HIDE DEF q
<1>5. [q EXCEPT ![Len(q)] = [q[Len(q)] EXCEPT !.at = b]] = Append(base, g)
    BY <1>2, <1>3, <1>4
<1> QED BY <1>5 DEF q, f, g

\* A handler of a device runs with interrupts off, on top of a thread.
LEMMA ServingHandler ==
    ASSUME CpuInv, NEW r \in {"isr_pit", "isr_kbd", "isr_spurious"}, NEW a, Serving(r, a)
    PROVE  /\ ~cpu.enabled /\ boot.at \in {"up", "hung"}
           /\ \E base \in {Code, Call} :
                 /\ cpu.frames = Append(base, [routine |-> r, at |-> a])
                 /\ [routine |-> r, at |-> a, isr |-> pic.isr] \in Served
<1>1. cpu.frames # <<>> /\ Last(cpu.frames).routine = r /\ Last(cpu.frames).at = a
    BY DEF Serving, Top
<1>2. boot.at \in {"up", "hung"}
    BY <1>1 DEF CpuInv
<1>3. ~InThread
    BY <1>1 DEF InThread, Code, Call, Last
<1>4. ~InCallEntry
    BY <1>1 DEF InCallEntry, Last
<1>5. PICK base \in {Code, Call}, s \in Served :
          /\ ~cpu.enabled
          /\ cpu.frames = Append(base, [routine |-> s.routine, at |-> s.at])
          /\ pic.isr = s.isr
    BY <1>3, <1>4 DEF CpuInv, InHandler
<1>6. s.routine = r /\ s.at = a
    BY <1>1, <1>5, FramesOf
<1>7. s = [routine |-> s.routine, at |-> s.at, isr |-> s.isr]
    BY DEF Served
<1> QED BY <1>2, <1>5, <1>6, <1>7

\* A system call is entered with interrupts off, and runs as a thread does.
LEMMA ServingCall ==
    ASSUME CpuInv
    PROVE  /\ Serving("isr_syscall", "entry") => InCallEntry
           /\ Serving("isr_syscall", "call") => cpu.frames = Call /\ pic.isr = {}
<1>1. ASSUME InHandler PROVE ~Serving("isr_syscall", "entry") /\ ~Serving("isr_syscall", "call")
    <2>1. PICK base \in {Code, Call}, s \in Served :
              cpu.frames = Append(base, [routine |-> s.routine, at |-> s.at])
        BY <1>1 DEF InHandler
    <2>2. Last(cpu.frames).routine = s.routine
        BY <2>1, FramesOf
    <2> QED BY <2>2 DEF Served, Serving, Top
<1>2. InThread => ~Serving("isr_syscall", "entry")
    BY DEF InThread, Serving, Top, Last, Code, Call
<1>3. InCallEntry => ~Serving("isr_syscall", "call")
    BY DEF InCallEntry, Serving, Top, Last
<1>4. InThread /\ Serving("isr_syscall", "call") => cpu.frames = Call /\ pic.isr = {}
    BY DEF InThread, Serving, Code
<1> QED BY <1>1, <1>2, <1>3, <1>4 DEF CpuInv

\* The end of the one interrupt that is in service.
LEMMA AckEnds ==
    ASSUME NEW i \in {0, 1}, pic.isr = {i}, IntrType
    PROVE  pic_ack(pic, i) = [pic EXCEPT !.isr = {}]
<1>1. Urgent({j \in pic.isr : j < 8}) = {i}
    BY DEF Urgent, Rank
<1>2. ~(i >= 8)
    OBVIOUS
<1> QED BY <1>1, <1>2 DEF pic_ack, IntrType

\* In the running system only the timer and the keyboard are asked for.
LEMMA RequestsUp ==
    ASSUME PicInv, boot.at = "up"
    PROVE  Requests \subseteq {0, 1} /\ pic.offset = 32
<1>1. /\ pic.offset = 32
      /\ pic.imr = (Irqs \ {i \in {0} : TRUE}) \ {i \in {1} : TRUE}
    BY DEF PicInv, PIC_REMAP_OFFSET, AfterPic, AfterPitBind, AfterPit, AfterKbdBind, AfterKbd,
           AfterCall
<1> QED BY <1>1 DEF PicInv, Requests

-----------------------------------------------------------------------------
(* The inductive invariant of the interrupts. *)

LEMMA IntrStart == intr_init => IntrInv
<1> SUFFICES ASSUME intr_init PROVE IntrInv
    OBVIOUS
<1> USE DEF intr_init, AfterGdt, AfterIdt, AfterPic, AfterPitBind, AfterPit, AfterKbdBind,
            AfterKbd, AfterCall
<1>1. IntrType
    BY DEF IntrType
<1>2. GdtInv /\ IdtInv
    BY DEF GdtInv, IdtInv
<1>3. PicInv
    BY DEF PicInv
<1>4. CpuInv
    BY DEF CpuInv, InThread, Code
<1>5. KeyInv /\ ReportInv
    BY DEF KeyInv, ReportInv
<1> QED BY <1>1, <1>2, <1>3, <1>4, <1>5 DEF IntrInv

\* A line goes up or down: only the requests change.
LEMMA LineStep ==
    ASSUME IntrInv, IntrAssumption, NEW irr, irr \subseteq Irqs,
           pic' = [pic EXCEPT !.irr = irr], keyboard' \in Nat,
           (1 \in pic.irr => 1 \in irr) \/ 1 \in irr,
           keyboard' > 0 => keyboard > 0 \/ 1 \in irr,
           UNCHANGED <<gdt, idt, cpu, boot, report>>
    PROVE  IntrInv'
<1>1. /\ pic'.irr = irr /\ pic'.isr = pic.isr /\ pic'.imr = pic.imr /\ pic'.offset = pic.offset
      /\ pic' = [offset |-> pic.offset, imr |-> pic.imr, irr |-> irr, isr |-> pic.isr]
    BY DEF IntrInv, IntrType
<1>2. IntrType'
    BY <1>1 DEF IntrInv, IntrType
<1>3. GdtInv' /\ IdtInv' /\ ReportInv'
    BY DEF IntrInv, GdtInv, IdtInv, ReportInv, BoundTo
<1>4. PicInv'
    BY <1>1 DEF IntrInv, PicInv
<1>5. CpuInv'
    BY <1>1 DEF IntrInv, CpuInv, InThread, InCallEntry, InHandler
<1>6. KeyInv'
    BY <1>1 DEF IntrInv, KeyInv, Serving, Top
<1> QED BY <1>2, <1>3, <1>4, <1>5, <1>6 DEF IntrInv

\* The processor turns to a handler, or goes on: the tables stay.
LEMMA CpuStep ==
    ASSUME IntrInv, UNCHANGED <<gdt, idt, boot, report>>, boot.at = "up",
           NEW irr, irr \subseteq Irqs, NEW isr,
           pic' = [pic EXCEPT !.irr = irr, !.isr = isr],
           keyboard' \in Nat,
           NEW on \in BOOLEAN, NEW frames, cpu' = [enabled |-> on, frames |-> frames],
           InThread' \/ InCallEntry' \/ InHandler',
           KeyInv'
    PROVE  IntrInv'
<1>1. /\ pic'.irr = irr /\ pic'.imr = pic.imr /\ pic'.offset = pic.offset
      /\ pic' = [offset |-> pic.offset, imr |-> pic.imr, irr |-> irr, isr |-> isr]
      /\ pic'.isr = isr
    BY DEF IntrInv, IntrType
<1>2. IntrType'
    BY <1>1 DEF IntrInv, IntrType
<1>3. GdtInv' /\ IdtInv' /\ ReportInv'
    BY DEF IntrInv, GdtInv, IdtInv, ReportInv, BoundTo
<1>4. PicInv'
    BY <1>1 DEF IntrInv, PicInv
<1>5. CpuInv'
    BY DEF CpuInv
<1> QED BY <1>2, <1>3, <1>4, <1>5 DEF IntrInv

\* The processor takes an interrupt: nothing else is in service.
LEMMA AcceptStep ==
    ASSUME IntrInv, accept \/ accept_spurious
    PROVE  IntrInv'
<1>1. cpu.enabled /\ UNCHANGED <<gdt, idt, keyboard, boot, report>>
    BY DEF accept, accept_spurious
<1>2. boot.at = "up" /\ InThread
    <2>1. boot.at \in {"up", "hung"} /\ boot.at # "hung"
        BY <1>1 DEF IntrInv, CpuInv
    <2>2. InThread
        BY <1>1 DEF IntrInv, CpuInv, InCallEntry, InHandler
    <2> QED BY <2>1, <2>2
<1>3. Requests \subseteq {0, 1} /\ pic.offset = 32
    BY <1>2, RequestsUp DEF IntrInv
<1>4. /\ Routine(32) = "isr_pit" /\ Routine(33) = "isr_kbd" /\ Routine(39) = "isr_spurious"
    BY <1>2, RoutineUp DEF IntrInv
<1> DEFINE Taken(r, a, isr, irr) ==
          /\ irr \subseteq pic.irr
          /\ [routine |-> r, at |-> a, isr |-> isr] \in Served
          /\ cpu' = [enabled |-> FALSE,
                     frames |-> Append(cpu.frames, [routine |-> r, at |-> a])]
          /\ pic' = [pic EXCEPT !.irr = irr, !.isr = isr]
          /\ 1 \in pic.irr /\ 1 \notin irr => r = "isr_kbd" /\ a = "entry"
<1>5. \E r, a, isr, irr : Taken(r, a, isr, irr)
    <2>1. CASE accept
        <3>1. PICK i \in Urgent(Requests) :
                  /\ pic' = [pic EXCEPT !.irr = @ \ {i},
                                        !.isr = @ \cup {i} \cup (IF i >= 8 THEN {2} ELSE {})]
                  /\ Enter(pic.offset + i)
            BY <2>1 DEF accept
        <3>2. i \in {0, 1}
            BY <1>3 DEF Urgent
        <3>3. pic' = [pic EXCEPT !.irr = pic.irr \ {i}, !.isr = {i}]
            <4>1. pic.isr \cup {i} \cup (IF i >= 8 THEN {2} ELSE {}) = {i}
                BY <1>2, <3>2 DEF InThread
            <4> QED BY <3>1, <4>1
        <3>4. CASE i = 0
            <4>1. pic.offset + i = 32
                BY <1>3, <3>4
            <4>2. cpu' = [enabled |-> FALSE, frames |->
                          Append(cpu.frames, [routine |-> "isr_pit", at |-> "entry"])]
                BY <1>4, <3>1, <4>1, Zenon DEF Enter, Frame
            <4>3. [routine |-> "isr_pit", at |-> "entry", isr |-> {i}] \in Served
                BY <3>4 DEF Served
            <4>4. 1 \in pic.irr => 1 \in pic.irr \ {i}
                BY <3>4
            <4>5. Taken("isr_pit", "entry", {i}, pic.irr \ {i})
                BY <3>3, <4>2, <4>3, <4>4, Zenon
            <4> HIDE DEF Taken
            <4> QED BY <4>5
        <3>5. CASE i = 1
            <4>1. pic.offset + i = 33
                BY <1>3, <3>5
            <4>2. cpu' = [enabled |-> FALSE, frames |->
                          Append(cpu.frames, [routine |-> "isr_kbd", at |-> "entry"])]
                BY <1>4, <3>1, <4>1, Zenon DEF Enter, Frame
            <4>3. [routine |-> "isr_kbd", at |-> "entry", isr |-> {i}] \in Served
                BY <3>5 DEF Served
            <4>4. Taken("isr_kbd", "entry", {i}, pic.irr \ {i})
                BY <3>3, <4>2, <4>3, Zenon
            <4> HIDE DEF Taken
            <4> QED BY <4>4
        <3> QED BY <3>2, <3>4, <3>5
    <2>2. CASE accept_spurious
        <3>1. pic.offset + 7 = 39
            BY <1>3
        <3>2. cpu' = [enabled |-> FALSE, frames |->
                      Append(cpu.frames, [routine |-> "isr_spurious", at |-> "entry"])]
            BY <1>4, <2>2, <3>1, Zenon DEF accept_spurious, Enter, Frame
        <3>3. [routine |-> "isr_spurious", at |-> "entry", isr |-> {}] \in Served
            BY DEF Served
        <3>4. pic' = [pic EXCEPT !.irr = pic.irr \ {0}, !.isr = {}]
            BY <1>2, <2>2 DEF accept_spurious, InThread, IntrInv, IntrType
        <3>5. 1 \in pic.irr => 1 \in pic.irr \ {0}
            OBVIOUS
        <3>6. Taken("isr_spurious", "entry", {}, pic.irr \ {0})
            BY <3>2, <3>3, <3>4, <3>5, Zenon
        <3> HIDE DEF Taken
        <3> QED BY <3>6
    <2> QED BY <2>1, <2>2
<1>6. PICK r, a, isr, irr : Taken(r, a, isr, irr)
    BY <1>5
<1>7. pic'.isr = isr /\ pic'.irr = irr
    BY <1>6 DEF IntrInv, IntrType
<1>8. InHandler'
    BY <1>2, <1>6, <1>7 DEF InHandler, InThread
<1>9. KeyInv'
    <2>1. /\ cpu'.frames # <<>>
          /\ Last(cpu'.frames) = [routine |-> r, at |-> a]
        BY <1>2, <1>6, FramesOf DEF InThread
    <2>2. ~Serving("isr_kbd", "entry") /\ ~Serving("isr_kbd", "loop")
        BY <1>2 DEF InThread, Serving, Top, Last, Code, Call
    <2> QED BY <1>1, <1>6, <1>7, <2>1, <2>2 DEF IntrInv, KeyInv, Serving, Top
<1>10. irr \subseteq Irqs /\ keyboard' \in Nat
    BY <1>1, <1>6 DEF IntrInv, PicInv, IntrType
<1> DEFINE frames == Append(cpu.frames, [routine |-> r, at |-> a])
<1>11. cpu' = [enabled |-> FALSE, frames |-> frames]
    BY <1>6
<1> HIDE DEF frames
<1> QED BY <1>1, <1>2, <1>6, <1>8, <1>9, <1>10, <1>11, CpuStep

\* The handlers of the devices.
LEMMA HandlerStep ==
    ASSUME IntrInv, boot.at # "hung",
           pit_isr_main \/ kbd_ack \/ kbd_byte \/ kbd_empty \/ spurious_isr_main
    PROVE  IntrInv'
<1>1. UNCHANGED <<gdt, idt, boot, report>>
    BY DEF pit_isr_main, kbd_ack, kbd_byte, kbd_empty, spurious_isr_main
<1>2. pic = [pic EXCEPT !.irr = pic.irr, !.isr = pic.isr]
    BY DEF IntrInv, IntrType
<1>3. pic.irr \subseteq Irqs /\ keyboard \in Nat
    BY DEF IntrInv, PicInv, IntrType
<1>4. ASSUME NEW irr, NEW isr, pic' = [pic EXCEPT !.irr = irr, !.isr = isr]
      PROVE  pic'.irr = irr /\ pic'.isr = isr
    BY <1>4 DEF IntrInv, IntrType
<1>5. CASE pit_isr_main
    <2>1. Serving("isr_pit", "entry") /\ UNCHANGED keyboard
        BY <1>5 DEF pit_isr_main
    <2>2. /\ boot.at = "up" /\ pic.isr = {0}
          /\ ~Serving("isr_kbd", "entry") /\ ~Serving("isr_kbd", "loop")
        BY <2>1, ServingHandler DEF IntrInv, Served, Serving
    <2>3. pic' = [pic EXCEPT !.irr = pic.irr, !.isr = {}]
        <3>1. pic' = [pic EXCEPT !.isr = {}]
            BY <1>5, <2>2, AckEnds DEF pit_isr_main, IntrInv
        <3> QED BY <3>1 DEF IntrInv, IntrType
    <2>4. PICK frames \in {Code, Call} : cpu' = [enabled |-> TRUE, frames |-> frames]
        BY <1>5 DEF pit_isr_main, Preempt, Code, Call
    <2>5. InThread'
        BY <1>4, <2>3, <2>4 DEF InThread
    <2>6. KeyInv'
        BY <1>1, <1>4, <2>1, <2>2, <2>3 DEF IntrInv, KeyInv
    <2> QED BY <1>1, <1>3, <2>1, <2>2, <2>3, <2>4, <2>5, <2>6, CpuStep
<1>6. CASE kbd_ack
    <2>1. Serving("isr_kbd", "entry") /\ UNCHANGED keyboard
        BY <1>6 DEF kbd_ack
    <2>2. /\ boot.at = "up" /\ pic.isr = {1} /\ cpu.enabled = FALSE
        BY <2>1, ServingHandler DEF IntrInv, Served, CpuInv
    <2>3. pic' = [pic EXCEPT !.irr = pic.irr, !.isr = {}]
        <3>1. pic' = [pic EXCEPT !.isr = {}]
            BY <1>6, <2>2, AckEnds DEF kbd_ack, IntrInv
        <3> QED BY <3>1 DEF IntrInv, IntrType
    <2>4. PICK base \in {Code, Call} :
              cpu.frames = Append(base, [routine |-> "isr_kbd", at |-> "entry"])
        BY <2>1, ServingHandler DEF IntrInv
    <2>5. cpu' = [enabled |-> FALSE,
                  frames |-> Append(base, [routine |-> "isr_kbd", at |-> "loop"])]
        <3>1. cpu' = [cpu EXCEPT !.frames = [cpu.frames EXCEPT ![Len(cpu.frames)] =
                                                [cpu.frames[Len(cpu.frames)] EXCEPT !.at = "loop"]]]
            BY <1>6 DEF kbd_ack, At
        <3>2. [cpu.frames EXCEPT ![Len(cpu.frames)] =
                  [cpu.frames[Len(cpu.frames)] EXCEPT !.at = "loop"]]
              = Append(base, [routine |-> "isr_kbd", at |-> "loop"])
            BY <2>4, TopAt
        <3> QED BY <2>2, <3>1, <3>2 DEF IntrInv, CpuInv
    <2>6. [routine |-> "isr_kbd", at |-> "loop", isr |-> {}] \in Served
        BY DEF Served
    <2>7. InHandler'
        BY <1>4, <2>3, <2>5, <2>6 DEF InHandler
    <2>8. KeyInv'
        BY <2>5, FramesOf DEF KeyInv, Serving, Top
    <2> DEFINE frames == Append(base, [routine |-> "isr_kbd", at |-> "loop"])
    <2>9. cpu' = [enabled |-> FALSE, frames |-> frames]
        BY <2>5
    <2> HIDE DEF frames
    <2> QED BY <1>1, <1>3, <2>1, <2>2, <2>3, <2>7, <2>8, <2>9, CpuStep
<1>7. CASE kbd_byte
    <2>1. Serving("isr_kbd", "loop") /\ keyboard > 0 /\ keyboard' = keyboard - 1
        BY <1>7 DEF kbd_byte
    <2>2. boot.at = "up" /\ pic.isr = {} /\ cpu.enabled = FALSE
        <3>1. /\ ~cpu.enabled /\ boot.at \in {"up", "hung"}
              /\ [routine |-> "isr_kbd", at |-> "loop", isr |-> pic.isr] \in Served
            BY <2>1, ServingHandler DEF IntrInv
        <3>2. pic.isr = {}
            BY <3>1 DEF Served
        <3> QED BY <3>1, <3>2 DEF IntrInv, CpuInv
    <2>3. PICK base \in {Code, Call} :
              cpu.frames = Append(base, [routine |-> "isr_kbd", at |-> "loop"])
        BY <2>1, ServingHandler DEF IntrInv
    <2> DEFINE irr == IF keyboard > 1 THEN pic.irr \cup {1} ELSE pic.irr \ {1}
    <2>4. pic' = [pic EXCEPT !.irr = irr, !.isr = {}]
        <3>1. pic' = [pic EXCEPT !.irr = irr]
            BY <1>7 DEF kbd_byte
        <3> HIDE DEF irr
        <3> QED BY <2>2, <3>1 DEF IntrInv, IntrType
    <2>5. irr \subseteq Irqs /\ keyboard' \in Nat
        BY <1>3, <2>1 DEF Irqs
    <2>6. keyboard' > 0 => 1 \in irr
        BY <1>3, <2>1
    <2> HIDE DEF irr
    <2>7. pic'.irr = irr /\ pic'.isr = {}
        BY <1>4, <2>4
    <2>8. KeyInv'
        BY <2>6, <2>7 DEF KeyInv
    <2>9. CASE cpu' = cpu
        <3>1. InHandler'
            <4>1. [routine |-> "isr_kbd", at |-> "loop", isr |-> {}] \in Served
                BY DEF Served
            <4> QED BY <2>2, <2>3, <2>7, <2>9, <4>1 DEF InHandler
        <3>2. cpu' = [enabled |-> FALSE, frames |-> cpu.frames]
            BY <2>2, <2>9 DEF IntrInv, CpuInv
        <3> QED BY <1>1, <2>2, <2>4, <2>5, <2>8, <3>1, <3>2, CpuStep
    <2>10. CASE cpu' = Iret
        <3>1. cpu' = [enabled |-> TRUE, frames |-> base]
            <4>1. Front(cpu.frames) = base
                BY <2>3, FramesOf
            <4> QED BY <2>10, <4>1, Zenon DEF Iret
        <3>2. InThread'
            BY <2>7, <3>1 DEF InThread
        <3> QED BY <1>1, <2>2, <2>4, <2>5, <2>8, <3>1, <3>2, CpuStep
    <2> QED BY <1>7, <2>9, <2>10 DEF kbd_byte
<1>8. CASE kbd_empty \/ spurious_isr_main
    <2>1. PICK r \in {"isr_kbd", "isr_spurious"}, a \in {"loop", "entry"} :
              /\ Serving(r, a) /\ cpu' = Iret /\ UNCHANGED <<pic, keyboard>>
              /\ r = "isr_kbd" => keyboard = 0 /\ a = "loop"
        BY <1>8 DEF kbd_empty, spurious_isr_main
    <2>2. boot.at = "up" /\ pic.isr = {}
        BY <2>1, ServingHandler DEF IntrInv, Served
    <2>3. PICK base \in {Code, Call} : cpu.frames = Append(base, [routine |-> r, at |-> a])
        BY <2>1, ServingHandler DEF IntrInv
    <2>4. cpu' = [enabled |-> TRUE, frames |-> base]
        <3>1. Front(cpu.frames) = base
            BY <2>3, FramesOf
        <3> QED BY <2>1, <3>1, Zenon DEF Iret
    <2>5. InThread'
        BY <2>1, <2>2, <2>4 DEF InThread
    <2>6. KeyInv'
        BY <1>1, <2>1 DEF IntrInv, KeyInv, Serving
    <2> QED BY <1>1, <1>2, <1>3, <2>1, <2>2, <2>4, <2>5, <2>6, CpuStep
<1> QED BY <1>5, <1>6, <1>7, <1>8

\* A step of boot: no interrupt is taken before main turns them on.
LEMMA BootStep ==
    ASSUME IntrInv, boot.at \notin {"up", "hung"},
           boot' \in [at : AfterGdt \ {"hung"}, arch : {"none", "i386", "amd64"}, stale : BOOLEAN],
           cpu' = [enabled |-> cpu'.enabled, frames |-> <<>>], cpu'.enabled \in BOOLEAN,
           cpu'.enabled => boot'.at = "up",
           pic' = [offset |-> pic'.offset, imr |-> pic'.imr, irr |-> pic'.irr, isr |-> {}],
           (pic'.irr = pic.irr /\ boot'.stale = boot.stale) \/ boot'.stale = (keyboard > 0),
           UNCHANGED <<keyboard, report>>,
           GdtInv', IdtInv', PicInv'
    PROVE  IntrInv'
<1>1. cpu.frames = <<>>
    BY DEF IntrInv, CpuInv
<1>2. cpu'.frames = <<>> /\ pic'.isr = {}
    OBVIOUS
<1>3. IntrType'
    BY <1>2 DEF IntrInv, IntrType
<1>4. CpuInv'
    <2>1. InThread'
        BY <1>2 DEF InThread, Code
    <2>2. boot'.at # "hung"
        OBVIOUS
    <2> QED BY <1>2, <2>1, <2>2 DEF CpuInv
<1>5. KeyInv'
    <2>1. ~Serving("isr_kbd", "entry") /\ ~Serving("isr_kbd", "loop")
        BY <1>1 DEF Serving
    <2>2. CASE pic'.irr = pic.irr /\ boot'.stale = boot.stale
        BY <2>1, <2>2 DEF IntrInv, KeyInv
    <2>3. CASE boot'.stale = (keyboard > 0)
        BY <2>3 DEF KeyInv
    <2> QED BY <2>2, <2>3
<1>6. ReportInv'
    BY DEF IntrInv, ReportInv
<1> QED BY <1>3, <1>4, <1>5, <1>6 DEF IntrInv

\* Before main, nothing is in service.
LEMMA Booting ==
    ASSUME IntrInv, boot.at \notin {"up", "hung"}
    PROVE  /\ cpu.frames = <<>> /\ cpu.enabled = FALSE /\ pic.isr = {}
           /\ cpu = [enabled |-> FALSE, frames |-> <<>>]
           /\ pic = [offset |-> pic.offset, imr |-> pic.imr, irr |-> pic.irr, isr |-> {}]
<1>1. cpu.frames = <<>> /\ cpu.enabled = FALSE
    BY DEF IntrInv, CpuInv
<1>2. ~InCallEntry
    BY <1>1 DEF InCallEntry
<1>3. ~InHandler
    <2>1. \A base \in {Code, Call} : \A f : Append(base, f) # <<>>
        BY FramesOf
    <2> QED BY <1>1, <2>1 DEF InHandler
<1>4. pic.isr = {}
    BY <1>1, <1>2, <1>3 DEF IntrInv, CpuInv, InThread
<1> QED BY <1>1, <1>4 DEF IntrInv, CpuInv, IntrType

\* The tables are written: gdt_init and idt_init.
LEMMA TableStep ==
    ASSUME IntrInv, (\E arch \in {"i386", "amd64"} : kentry(arch)) \/ idt_init
    PROVE  IntrInv'
<1> USE DEF AfterGdt, AfterIdt, AfterPic, AfterPitBind, AfterPit, AfterKbdBind, AfterKbd,
            AfterCall
<1>1. /\ UNCHANGED <<pic, cpu, keyboard, report>> /\ boot.at \notin {"up", "hung"}
    BY BootOrder DEF kentry, idt_init
<1>2. /\ cpu' = [enabled |-> FALSE, frames |-> <<>>]
      /\ pic' = [offset |-> pic.offset, imr |-> pic.imr, irr |-> pic.irr, isr |-> {}]
    BY <1>1, Booting
<1>3. CASE \E arch \in {"i386", "amd64"} : kentry(arch)
    <2>1. PICK arch \in {"i386", "amd64"} : kentry(arch)
        BY <1>3
    <2>2. /\ boot'.at = "idt_init" /\ boot'.arch = arch /\ boot'.stale = boot.stale
          /\ boot' \in [at : AfterGdt \ {"hung"}, arch : {"none", "i386", "amd64"},
                        stale : BOOLEAN]
        BY <2>1 DEF kentry, IntrInv, IntrType
    <2>3. GdtInv'
        BY <2>1, <2>2 DEF kentry, GdtInv
    <2>4. IdtInv' /\ PicInv'
        BY <1>1, <2>2 DEF IdtInv, PicInv, IntrInv
    <2> QED BY <1>1, <1>2, <2>2, <2>3, <2>4, BootStep
<1>4. CASE idt_init
    <2>1. boot.at = "idt_init" /\ boot' = [boot EXCEPT !.at = "pic_init"]
        BY <1>4, BootOrder DEF idt_init
    <2>2. /\ boot'.at = "pic_init" /\ boot'.arch = boot.arch /\ boot'.stale = boot.stale
          /\ boot' \in [at : AfterGdt \ {"hung"}, arch : {"none", "i386", "amd64"},
                        stale : BOOLEAN]
        BY <2>1 DEF IntrInv, IntrType
    <2>3. GdtInv'
        BY <1>4, <2>1, <2>2 DEF idt_init, GdtInv, IntrInv
    <2>4. IdtInv'
        <3>1. \A v \in Gates : BoundTo(v)' = IF v \in Exceptions THEN "isr_exception"
                                             ELSE IF v = PIC_REMAP_OFFSET + 7 THEN "isr_spurious"
                                             ELSE "isr_stub"
            BY <2>2 DEF BoundTo, PIC_REMAP_OFFSET
        <3> QED BY <1>4, <3>1 DEF IdtInv, idt_init
    <2>5. PicInv'
        BY <1>1, <2>2 DEF PicInv, IntrInv
    <2> QED BY <1>1, <1>2, <2>2, <2>3, <2>4, <2>5, BootStep
<1> QED BY <1>3, <1>4

\* The controllers are set up and their lines opened; main turns interrupts on.
LEMMA PicStep ==
    ASSUME IntrInv, pic_init \/ pit_init \/ kbd_init \/ main
    PROVE  IntrInv'
<1> USE DEF AfterGdt, AfterIdt, AfterPic, AfterPitBind, AfterPit, AfterKbdBind, AfterKbd,
            AfterCall
<1>1. /\ UNCHANGED <<gdt, idt, keyboard, report>> /\ boot.at \notin {"up", "hung"}
    BY BootOrder DEF pic_init, pit_init, kbd_init, main
<1>2. pic.isr = {} /\ cpu = [enabled |-> FALSE, frames |-> <<>>]
    BY <1>1, Booting
<1>3. ASSUME boot'.arch = boot.arch, boot.at \in AfterIdt, boot'.at \in AfterIdt,
             \A v \in Gates : BoundTo(v)' = BoundTo(v)
      PROVE  GdtInv' /\ IdtInv'
    <2>1. GdtInv'
        BY <1>1, <1>3 DEF GdtInv, IntrInv
    <2>2. idt = [v \in Gates |-> Gate(BoundTo(v))]
        BY <1>3 DEF IdtInv, IntrInv
    <2>3. [v \in Gates |-> Gate(BoundTo(v))] = [v \in Gates |-> Gate(BoundTo(v)')]
        BY <1>3
    <2>4. IdtInv'
        BY <1>1, <2>2, <2>3 DEF IdtInv
    <2> QED BY <2>1, <2>4
<1>4. CASE pic_init
    <2>1. /\ boot.at = "pic_init" /\ UNCHANGED cpu
          /\ pic' = [offset |-> 32, imr |-> Irqs, irr |-> {}, isr |-> {}]
        BY <1>4 DEF pic_init, PIC_REMAP_OFFSET
    <2>2. /\ boot'.at = "pit_bind" /\ boot'.arch = boot.arch /\ boot'.stale = (keyboard > 0)
          /\ boot' \in [at : AfterGdt \ {"hung"}, arch : {"none", "i386", "amd64"},
                        stale : BOOLEAN]
        <3> DEFINE b == keyboard > 0
        <3>1. boot' = [boot EXCEPT !.at = "pit_bind", !.stale = b] /\ b \in BOOLEAN
            BY <1>4 DEF pic_init
        <3> HIDE DEF b
        <3>2. /\ boot'.at = "pit_bind" /\ boot'.arch = boot.arch /\ boot'.stale = b
              /\ boot' \in [at : AfterGdt \ {"hung"}, arch : {"none", "i386", "amd64"},
                            stale : BOOLEAN]
            BY <3>1 DEF IntrInv, IntrType
        <3> QED BY <3>2 DEF b
    <2>3. GdtInv' /\ IdtInv'
        BY <1>3, <2>1, <2>2 DEF BoundTo
    <2>4. PicInv'
        BY <2>1, <2>2 DEF PicInv, PIC_REMAP_OFFSET
    <2> QED BY <1>1, <1>2, <2>1, <2>2, <2>3, <2>4, BootStep
<1>5. CASE pit_init
    <2>1. /\ boot.at = "pit_init" /\ boot' = [boot EXCEPT !.at = "kbd_bind"] /\ UNCHANGED cpu
          /\ pic' = [pic EXCEPT !.imr = pic.imr \ {0}]
        BY <1>5, BootOrder DEF pit_init, pic_mask
    <2>2. /\ boot'.at = "kbd_bind" /\ boot'.arch = boot.arch /\ boot'.stale = boot.stale
          /\ boot' \in [at : AfterGdt \ {"hung"}, arch : {"none", "i386", "amd64"},
                        stale : BOOLEAN]
        BY <2>1 DEF IntrInv, IntrType
    <2>3. GdtInv' /\ IdtInv'
        BY <1>3, <2>1, <2>2 DEF BoundTo
    <2>4. pic' = [offset |-> 32, imr |-> Irqs \ {0}, irr |-> pic.irr, isr |-> {}]
        <3>1. pic.offset = 32 /\ pic.imr \ {0} = Irqs \ {0}
            BY <2>1 DEF IntrInv, PicInv, PIC_REMAP_OFFSET
        <3> QED BY <1>2, <2>1, <3>1 DEF IntrInv, IntrType
    <2>5. PicInv'
        BY <2>2, <2>4 DEF PicInv, PIC_REMAP_OFFSET, IntrInv
    <2> QED BY <1>1, <1>2, <2>1, <2>2, <2>3, <2>4, <2>5, BootStep
<1>6. CASE kbd_init
    <2>1. /\ boot.at = "kbd_init" /\ boot' = [boot EXCEPT !.at = "call_init"] /\ UNCHANGED cpu
          /\ pic' = [pic EXCEPT !.imr = pic.imr \ {1}]
        BY <1>6, BootOrder DEF kbd_init, pic_mask
    <2>2. /\ boot'.at = "call_init" /\ boot'.arch = boot.arch /\ boot'.stale = boot.stale
          /\ boot' \in [at : AfterGdt \ {"hung"}, arch : {"none", "i386", "amd64"},
                        stale : BOOLEAN]
        BY <2>1 DEF IntrInv, IntrType
    <2>3. GdtInv' /\ IdtInv'
        BY <1>3, <2>1, <2>2 DEF BoundTo
    <2>4. pic' = [offset |-> 32, imr |-> (Irqs \ {0}) \ {1}, irr |-> pic.irr, isr |-> {}]
        <3>1. pic.offset = 32 /\ pic.imr \ {1} = (Irqs \ {0}) \ {1}
            BY <2>1 DEF IntrInv, PicInv, PIC_REMAP_OFFSET
        <3> QED BY <1>2, <2>1, <3>1 DEF IntrInv, IntrType
    <2>5. PicInv'
        BY <2>2, <2>4 DEF PicInv, PIC_REMAP_OFFSET, IntrInv
    <2> QED BY <1>1, <1>2, <2>1, <2>2, <2>3, <2>4, <2>5, BootStep
<1>7. CASE main
    <2>1. /\ boot.at = "main" /\ boot' = [boot EXCEPT !.at = "up"] /\ UNCHANGED pic
          /\ cpu' = [enabled |-> TRUE, frames |-> <<>>]
        BY <1>2, <1>7, BootOrder DEF main
    <2>2. /\ boot'.at = "up" /\ boot'.arch = boot.arch /\ boot'.stale = boot.stale
          /\ boot' \in [at : AfterGdt \ {"hung"}, arch : {"none", "i386", "amd64"},
                        stale : BOOLEAN]
        BY <2>1 DEF IntrInv, IntrType
    <2>3. GdtInv' /\ IdtInv'
        BY <1>3, <2>1, <2>2 DEF BoundTo
    <2>4. pic' = [offset |-> pic.offset, imr |-> pic.imr, irr |-> pic.irr, isr |-> {}]
        BY <1>2, <2>1 DEF IntrInv, IntrType
    <2>5. PicInv'
        BY <2>1, <2>2 DEF PicInv, IntrInv
    <2> QED BY <1>1, <2>1, <2>2, <2>3, <2>4, <2>5, BootStep
<1> QED BY <1>4, <1>5, <1>6, <1>7

\* A routine is bound to its vector.
LEMMA BindStep ==
    ASSUME IntrInv, pit_bind \/ kbd_bind \/ call_init
    PROVE  IntrInv'
<1> USE DEF AfterGdt, AfterIdt, AfterPic, AfterPitBind, AfterPit, AfterKbdBind, AfterKbd,
            AfterCall
<1>1. PICK v \in {32, 33, 128}, r \in {"isr_pit", "isr_kbd", "isr_syscall"},
           at \in {"pit_init", "kbd_init", "main"} :
          /\ boot' = [boot EXCEPT !.at = at]
          /\ idt' = [idt EXCEPT ![v] = Gate(r)]
          /\ v = 32 => boot.at = "pit_bind" /\ at = "pit_init" /\ r = "isr_pit"
          /\ v = 33 => boot.at = "kbd_bind" /\ at = "kbd_init" /\ r = "isr_kbd"
          /\ v = 128 => boot.at = "call_init" /\ at = "main" /\ r = "isr_syscall"
    <2>1. CASE pit_bind
        <3>1. idt' = [idt EXCEPT ![32] = Gate("isr_pit")]
            BY <2>1 DEF pit_bind, interrupt_bind, idt_set_entry, PIC_REMAP_OFFSET
        <3>2. boot.at = "pit_bind" /\ boot' = [boot EXCEPT !.at = "pit_init"]
            BY <2>1, BootOrder DEF pit_bind
        <3> QED BY <3>1, <3>2
    <2>2. CASE kbd_bind
        <3>1. idt' = [idt EXCEPT ![33] = Gate("isr_kbd")]
            BY <2>2 DEF kbd_bind, interrupt_bind, idt_set_entry, PIC_REMAP_OFFSET
        <3>2. boot.at = "kbd_bind" /\ boot' = [boot EXCEPT !.at = "kbd_init"]
            BY <2>2, BootOrder DEF kbd_bind
        <3> QED BY <3>1, <3>2
    <2>3. CASE call_init
        <3>1. idt' = [idt EXCEPT ![128] = Gate("isr_syscall")]
            BY <2>3 DEF call_init, interrupt_bind, idt_set_entry, CALL_IRQ
        <3>2. boot.at = "call_init" /\ boot' = [boot EXCEPT !.at = "main"]
            BY <2>3, BootOrder DEF call_init
        <3> QED BY <3>1, <3>2
    <2> QED BY <2>1, <2>2, <2>3
<1>2. UNCHANGED <<gdt, pic, cpu, keyboard, report>>
    BY DEF pit_bind, kbd_bind, call_init
<1>3. /\ boot'.at = at /\ boot'.arch = boot.arch /\ boot'.stale = boot.stale
      /\ boot' \in [at : AfterGdt \ {"hung"}, arch : {"none", "i386", "amd64"},
                    stale : BOOLEAN]
      /\ boot.at \notin {"up", "hung"} /\ at # "up"
    BY <1>1 DEF IntrInv, IntrType
<1>4. /\ cpu' = [enabled |-> FALSE, frames |-> <<>>]
      /\ pic' = [offset |-> pic.offset, imr |-> pic.imr, irr |-> pic.irr, isr |-> {}]
    BY <1>2, <1>3, Booting
<1>5. GdtInv'
    BY <1>1, <1>2, <1>3 DEF GdtInv, IntrInv
<1>6. IdtInv'
    <2>1. idt = [w \in Gates |-> Gate(BoundTo(w))]
        BY <1>1 DEF IdtInv, IntrInv
    <2>2. \A w \in Gates : BoundTo(w)' = IF w = v THEN r ELSE BoundTo(w)
        BY <1>1, <1>3 DEF BoundTo, Exceptions
    <2>3. idt' = [w \in Gates |-> IF w = v THEN Gate(r) ELSE Gate(BoundTo(w))]
        BY <1>1, <2>1
    <2>4. idt' = [w \in Gates |-> Gate(BoundTo(w)')]
        BY <2>2, <2>3
    <2> QED BY <2>4 DEF IdtInv
<1>7. PicInv'
    BY <1>1, <1>2, <1>3 DEF PicInv, IntrInv
<1> QED BY <1>2, <1>3, <1>4, <1>5, <1>6, <1>7, BootStep

\* A thread goes on with interrupts on or off, calls the kernel or returns.
LEMMA ThreadStep ==
    ASSUME IntrInv, boot.at # "hung",
           \/ \E b \in BOOLEAN : interrupt_enable(b)
           \/ call_enter \/ syscall_isr_main \/ call_return
    PROVE  IntrInv'
<1>1. UNCHANGED <<gdt, idt, pic, keyboard, boot, report>>
    BY DEF interrupt_enable, call_enter, syscall_isr_main, call_return
<1>2. /\ pic' = [pic EXCEPT !.irr = pic.irr, !.isr = pic.isr]
      /\ pic.irr \subseteq Irqs /\ keyboard' \in Nat
    BY <1>1 DEF IntrInv, IntrType, PicInv
<1>3. ASSUME ~Serving("isr_kbd", "entry"), ~Serving("isr_kbd", "loop")
      PROVE  KeyInv'
    BY <1>1, <1>3 DEF IntrInv, KeyInv
<1>4. ASSUME cpu.frames = <<>>
      PROVE  pic.isr = {} /\ KeyInv'
    <2>1. ~InHandler
        <3>1. \A base \in {Code, Call} : \A f : Append(base, f) # <<>>
            BY FramesOf
        <3> QED BY <1>4, <3>1 DEF InHandler
    <2>2. ~InCallEntry
        BY <1>4 DEF InCallEntry
    <2>3. pic.isr = {}
        BY <2>1, <2>2 DEF IntrInv, CpuInv, InThread
    <2> QED BY <1>3, <1>4, <2>3 DEF Serving
<1>5. ASSUME NEW a, Serving("isr_syscall", a)
      PROVE  KeyInv' /\ boot.at = "up"
    <2>1. KeyInv'
        BY <1>3, <1>5 DEF Serving
    <2>2. boot.at = "up"
        BY <1>5 DEF Serving, IntrInv, CpuInv
    <2> QED BY <2>1, <2>2
<1>6. CASE \E b \in BOOLEAN : interrupt_enable(b)
    <2>1. PICK b \in BOOLEAN : interrupt_enable(b)
        BY <1>6
    <2>2. cpu.frames = <<>> /\ boot.at = "up" /\ cpu' = [enabled |-> b, frames |-> <<>>]
        BY <2>1 DEF interrupt_enable, IntrInv, CpuInv
    <2>3. InThread'
        BY <1>1, <1>4, <2>2 DEF InThread, Code
    <2> QED BY <1>1, <1>2, <1>4, <2>2, <2>3, CpuStep
<1>7. CASE call_enter
    <2>1. cpu.frames = <<>> /\ boot.at = "up" /\ Enter(CALL_IRQ)
        BY <1>7 DEF call_enter
    <2>2. Frame(CALL_IRQ) = [routine |-> "isr_syscall", at |-> "entry"]
        BY <2>1, RoutineUp DEF Frame, CALL_IRQ, IntrInv
    <2> DEFINE f == [routine |-> "isr_syscall", at |-> "entry"]
    <2>3. cpu' = [enabled |-> FALSE, frames |-> Append(<<>>, f)]
        BY <2>1, <2>2, Zenon DEF Enter
    <2>4. Append(<<>>, f) = <<f>>
        <3> HIDE DEF f
        <3> QED OBVIOUS
    <2>5. InCallEntry'
        BY <1>1, <1>4, <2>1, <2>3, <2>4 DEF InCallEntry
    <2> HIDE DEF f
    <2>6. cpu' = [enabled |-> FALSE, frames |-> <<f>>]
        BY <2>3, <2>4
    <2> QED BY <1>1, <1>2, <1>4, <2>1, <2>5, <2>6, CpuStep
<1>8. CASE syscall_isr_main
    <2>1. Serving("isr_syscall", "entry") /\ cpu' = [At("call") EXCEPT !.enabled = TRUE]
        BY <1>8 DEF syscall_isr_main
    <2>2. InCallEntry
        BY <2>1, ServingCall DEF IntrInv
    <2>3. cpu' = [enabled |-> TRUE, frames |-> Call]
        <3> DEFINE g == [routine |-> "isr_syscall", at |-> "entry"]
                   u == [cpu.frames EXCEPT ![Len(cpu.frames)] =
                            [cpu.frames[Len(cpu.frames)] EXCEPT !.at = "call"]]
        <3>1. At("call") = [cpu EXCEPT !.frames = u]
            BY DEF At
        <3>2. u = Call
            <4>1. cpu.frames = <<g>> /\ [g EXCEPT !.at = "call"] = Call[1] /\ Call = <<Call[1]>>
                BY <2>2 DEF InCallEntry, Call
            <4> HIDE DEF g
            <4>2. Len(cpu.frames) = 1 /\ cpu.frames[1] = g
                BY <4>1
            <4>3. u = [cpu.frames EXCEPT ![1] = Call[1]]
                BY <4>1, <4>2
            <4>4. [<<g>> EXCEPT ![1] = Call[1]] = <<Call[1]>>
                OBVIOUS
            <4> QED BY <4>1, <4>3, <4>4
        <3> HIDE DEF u
        <3> QED BY <2>1, <3>1, <3>2 DEF IntrInv, CpuInv
    <2>4. InThread'
        BY <1>1, <2>2, <2>3 DEF InThread, InCallEntry
    <2> QED BY <1>1, <1>2, <1>5, <2>1, <2>3, <2>4, CpuStep
<1>9. CASE call_return
    <2>1. Serving("isr_syscall", "call")
        BY <1>9 DEF call_return
    <2>2. cpu.frames = Call /\ pic.isr = {}
        BY <2>1, ServingCall DEF IntrInv
    <2>3. Front(Call) = Code
        <3> DEFINE c == [routine |-> "isr_syscall", at |-> "call"]
        <3>1. Call = Append(Code, c)
            BY DEF Call, Code
        <3> HIDE DEF c
        <3> QED BY <3>1, FramesOf
    <2>4. PICK frames \in {Code, Call} : cpu' = [enabled |-> TRUE, frames |-> frames]
        <3>1. CASE cpu' = Iret
            BY <2>2, <2>3, <3>1 DEF Iret
        <3>2. CASE cpu' \in Preempt
            BY <3>2 DEF Preempt, Code, Call
        <3> QED BY <1>9, <3>1, <3>2 DEF call_return
    <2>5. InThread'
        BY <1>1, <2>2, <2>4 DEF InThread
    <2> QED BY <1>1, <1>2, <1>5, <2>1, <2>4, <2>5, CpuStep
<1> QED BY <1>6, <1>7, <1>8, <1>9

\* What isr_<v> pushes and isr_common reads.
LEMMA CommonReads ==
    ASSUME NEW v \in Exceptions
    PROVE  LET c == isr_common(v)
           IN  /\ c.code = c.vector
               /\ c.arch = "i386" /\ c.vector # 17 => c.error = c.pushed
<1> DEFINE st == isr_push(v)
           c == isr_common(v)
<1>1. /\ c.vector = v /\ c.arch = boot.arch /\ c.code = st[Len(st)]
      /\ c.pushed = IF CpuError(v) = <<>> THEN "dummy" ELSE "error"
      /\ c.arch = "i386" => c.error = st[Len(st) - 1]
    BY DEF isr_common
<1>2. ASSUME NEW x, NEW w
      PROVE  LET p == <<x>> \o <<>> \o <<w>>
                 q == <<>> \o <<x>> \o <<w>>
             IN  /\ Len(p) = 2 /\ p[1] = x /\ p[2] = w
                 /\ Len(q) = 2 /\ q[1] = x /\ q[2] = w
    OBVIOUS
<1>3. CASE v = 17
    <2>1. CpuError(v) = <<"error">> /\ Dummy(v) = <<"dummy">>
        BY <1>3 DEF CpuError, Dummy
    <2>2. st = <<"error">> \o <<"dummy">> \o <<v>>
        BY <2>1, Zenon DEF isr_push
    <2> HIDE DEF st, c
    <2>3. Len(st) = 3 /\ st[3] = v
        <3> DEFINE x == "error"
                   y == "dummy"
        <3>1. st = <<x>> \o <<y>> \o <<v>>
            BY <2>2
        <3> HIDE DEF x, y
        <3> QED BY <3>1
    <2>4. c.code = v
        BY <1>1, <2>3
    <2> QED BY <1>1, <1>3, <2>4 DEF c
<1>4. CASE v \in {8, 10, 11, 12, 13, 14}
    <2>1. CpuError(v) = <<"error">> /\ Dummy(v) = <<>>
        BY <1>4 DEF CpuError, Dummy
    <2>2. st = <<"error">> \o <<>> \o <<v>>
        BY <2>1, Zenon DEF isr_push
    <2> HIDE DEF st, c
    <2>3. Len(st) = 2 /\ st[1] = "error" /\ st[2] = v
        BY <1>2, <2>2, ZenonT(40)
    <2>4. CpuError(v) # <<>>
        BY <2>1
    <2>5. c.code = v /\ c.pushed = "error" /\ (c.arch = "i386" => c.error = "error")
        BY <1>1, <2>3, <2>4
    <2> QED BY <1>1, <2>5 DEF c
<1>5. CASE v \notin {8, 10, 11, 12, 13, 14, 17}
    <2>1. CpuError(v) = <<>> /\ Dummy(v) = <<"dummy">>
        BY <1>5 DEF CpuError, Dummy, Exceptions
    <2>2. st = <<>> \o <<"dummy">> \o <<v>>
        BY <2>1, Zenon DEF isr_push
    <2> HIDE DEF st, c
    <2>3. Len(st) = 2 /\ st[1] = "dummy" /\ st[2] = v
        BY <1>2, <2>2, ZenonT(40)
    <2>4. c.code = v /\ c.pushed = "dummy" /\ (c.arch = "i386" => c.error = "dummy")
        BY <1>1, <2>1, <2>3
    <2> QED BY <1>1, <2>4 DEF c
<1> QED BY <1>3, <1>4, <1>5

LEMMA ExceptionStep ==
    ASSUME IntrInv, NEW v \in Exceptions, exception_handle(v)
    PROVE  IntrInv'
<1>1. /\ boot.at = "up" /\ report' = isr_common(v) /\ UNCHANGED <<gdt, idt, pic, keyboard>>
      /\ cpu.frames = <<>> \/ Serving("isr_syscall", "call")
    BY DEF exception_handle
<1>2. cpu.frames \in {Code, Call} /\ pic.isr = {}
    <2>1. CASE cpu.frames = <<>>
        <3>1. ~InHandler
            <4>1. \A base \in {Code, Call} : \A f : Append(base, f) # <<>>
                BY FramesOf
            <4> QED BY <2>1, <4>1 DEF InHandler
        <3>2. ~InCallEntry
            BY <2>1 DEF InCallEntry
        <3> QED BY <2>1, <3>1, <3>2 DEF IntrInv, CpuInv, InThread, Code
    <2>2. CASE Serving("isr_syscall", "call")
        BY <2>2, ServingCall DEF IntrInv
    <2> QED BY <1>1, <2>1, <2>2
<1>3. ~Serving("isr_kbd", "entry") /\ ~Serving("isr_kbd", "loop")
    BY <1>1 DEF Serving
<1>4. ReportInv'
    BY <1>1, CommonReads DEF ReportInv
<1>5. /\ boot'.at \in {"up", "hung"} /\ boot'.arch = boot.arch /\ boot'.stale = boot.stale
      /\ boot' \in [at : {"gdt_init"} \cup AfterGdt, arch : {"none", "i386", "amd64"},
                    stale : BOOLEAN]
    BY <1>1 DEF exception_handle, IntrInv, IntrType, AfterGdt, AfterIdt, AfterPic, AfterPitBind,
                AfterPit, AfterKbdBind, AfterKbd, AfterCall
<1>6. PICK on \in BOOLEAN, frames \in {Code, Call} :
          /\ cpu' = [enabled |-> on, frames |-> frames]
          /\ boot'.at = "hung" => on = FALSE
    <2>1. CASE exception_panic(report'.code)
        <3>1. cpu' = [cpu EXCEPT !.enabled = FALSE]
            BY <2>1 DEF exception_handle
        <3>2. cpu' = [enabled |-> FALSE, frames |-> cpu.frames]
            BY <3>1 DEF IntrInv, CpuInv
        <3> QED BY <1>2, <3>2
    <2>2. CASE ~exception_panic(report'.code)
        <3>1. cpu' \in Preempt /\ boot' = boot
            BY <2>2 DEF exception_handle
        <3> QED BY <1>1, <3>1 DEF Preempt, Code, Call
    <2> QED BY <2>1, <2>2
<1>7. CpuInv'
    <2>1. cpu'.enabled = on /\ cpu'.frames = frames
        BY <1>6
    <2>2. InThread'
        BY <1>1, <1>2, <1>6, <2>1 DEF InThread
    <2> QED BY <1>5, <1>6, <2>1, <2>2 DEF CpuInv
<1>8. IntrType'
    BY <1>1, <1>5 DEF IntrInv, IntrType
<1>9. KeyInv'
    BY <1>1, <1>3, <1>5 DEF IntrInv, KeyInv
<1>10. GdtInv' /\ PicInv'
    BY <1>1, <1>5 DEF IntrInv, GdtInv, PicInv, AfterGdt, AfterIdt, AfterPic, AfterPitBind,
                      AfterPit, AfterKbdBind, AfterKbd, AfterCall
<1>11. IdtInv'
    <2> USE DEF AfterIdt, AfterPic, AfterPitBind, AfterPit, AfterKbdBind, AfterKbd, AfterCall
    <2>1. idt = [w \in Gates |-> Gate(BoundTo(w))]
        BY <1>1 DEF IntrInv, IdtInv
    <2>2. \A w \in Gates : BoundTo(w)' = BoundTo(w)
        BY <1>1, <1>5 DEF BoundTo
    <2>3. idt' = [w \in Gates |-> Gate(BoundTo(w)')]
        BY <1>1, <2>1, <2>2
    <2> QED BY <2>3 DEF IdtInv
<1> QED BY <1>4, <1>7, <1>8, <1>9, <1>10, <1>11 DEF IntrInv

LEMMA IntrKept == IntrInv /\ [intr_next]_intr_vars => IntrInv'
<1> SUFFICES ASSUME IntrInv, [intr_next]_intr_vars PROVE IntrInv'
    OBVIOUS
<1>1. pic.irr \subseteq Irqs /\ keyboard \in Nat /\ 1 \in Irqs
    BY DEF IntrInv, PicInv, IntrType, Irqs
<1>2. ASSUME NEW i \in Lines, raise(i) PROVE IntrInv'
    <2>1. pic.irr \cup {i} \subseteq Irqs
        BY <1>1, IntrAssumption DEF IntrAssumption
    <2> QED BY <1>1, <1>2, <2>1, LineStep, IntrAssumption DEF raise
<1>3. CASE key
    <2> DEFINE irr == IF keyboard = 0 THEN pic.irr \cup {1} ELSE pic.irr
    <2>1. pic' = [pic EXCEPT !.irr = irr] /\ keyboard' = keyboard + 1
        BY <1>3 DEF key
    <2>2. UNCHANGED <<gdt, idt, cpu, boot, report>>
        BY <1>3 DEF key
    <2>3. irr \subseteq Irqs /\ (1 \in pic.irr => 1 \in irr) /\ (keyboard = 0 => 1 \in irr)
        BY <1>1
    <2> HIDE DEF irr
    <2> QED BY <1>1, <2>1, <2>2, <2>3, LineStep, IntrAssumption
<1>4. CASE timer_low
    BY <1>1, <1>4, LineStep, IntrAssumption DEF timer_low
<1>5. CASE UNCHANGED intr_vars
    <2>1. pic' = [pic EXCEPT !.irr = pic.irr]
        BY <1>5 DEF intr_vars, IntrInv, IntrType
    <2> QED BY <1>1, <1>5, <2>1, LineStep, IntrAssumption DEF intr_vars
<1> QED BY <1>2, <1>3, <1>4, <1>5, AcceptStep, TableStep, PicStep, BindStep, HandlerStep,
           ThreadStep, ExceptionStep
        DEF intr_next

LEMMA IntrSafe == IntrInv => InterruptsHandled
<1> SUFFICES ASSUME IntrInv PROVE InterruptsHandled
    OBVIOUS
<1> DEFINE R == {"isr_pit", "isr_kbd", "isr_spurious", "isr_syscall"}
<1>1. \A n \in 1 .. Len(cpu.frames) : cpu.frames[n].routine \in R
    <2>1. ASSUME NEW base \in {Code, Call}
          PROVE  Len(base) \in Nat /\ \A n \in 1 .. Len(base) : base[n].routine \in R
        BY DEF Code, Call
    <2>2. CASE InThread
        BY <2>1, <2>2 DEF InThread
    <2>3. CASE InCallEntry
        BY <2>3 DEF InCallEntry
    <2>4. CASE InHandler
        <3>1. PICK base \in {Code, Call}, s \in Served :
                  cpu.frames = Append(base, [routine |-> s.routine, at |-> s.at])
            BY <2>4 DEF InHandler
        <3> DEFINE f == [routine |-> s.routine, at |-> s.at]
        <3>2. f.routine \in R
            BY DEF Served
        <3>3. cpu.frames = Append(base, f)
            BY <3>1
        <3> HIDE DEF R, f
        <3>4. /\ Len(cpu.frames) = Len(base) + 1 /\ cpu.frames[Len(base) + 1] = f
              /\ \A n \in 1 .. Len(base) : cpu.frames[n] = base[n]
            BY <3>3, FramesOf
        <3> QED BY <2>1, <3>2, <3>4
    <2> QED BY <2>2, <2>3, <2>4 DEF IntrInv, CpuInv
<1>2. cpu.enabled => pic.isr = {}
    BY DEF IntrInv, CpuInv, InThread, InCallEntry, InHandler
<1> QED BY <1>1, <1>2 DEF IntrInv, KeyInv, ReportInv, InterruptsHandled

\* Every interrupt finds its handler, nothing in service holds one back while
\* interrupts are on, no byte of the keyboard is forgotten after pic_init, and
\* exceptions are reported as what they were: for any devices that use any of
\* the interrupt lines, in every order with boot.
THEOREM UnitInterruptsHandled == intr_spec => []InterruptsHandled
<1> QED BY IntrStart, IntrKept, IntrSafe, PTL DEF intr_spec

-----------------------------------------------------------------------------
(* The clock. *)

\* The last moment that a register may have been read at.
Upto == IF rtc.updating THEN rtc.now + 1 ELSE rtc.now

\* Register r of the reading t is that of some moment from lo to hi.
ReadIn(t, r, lo, hi) == \E m \in lo .. hi : t[r] = Register(rtc.times[m], r)

Readings == [1 .. 6 -> Nat]

ClockType ==
    /\ rtc = [format |-> rtc.format, times |-> rtc.times, now |-> rtc.now,
              updating |-> rtc.updating]
    /\ rtc.format \in Formats /\ rtc.updating \in BOOLEAN
    /\ rtc.times \in Moments \cup {<<NoTime>>}
    /\ rtc.now \in 1 .. Len(rtc.times)
    /\ rtc.updating => rtc.now < Len(rtc.times)
    /\ call \in [at : {"none", "wait", "read", "compare", "done"}, reg : Nat,
                 time : Readings, l_time : Readings, i : Nat]
    /\ call.at = "none" <=> rtc.times \notin Moments
    /\ call.at = "none" => call.i = 0
    /\ call.at = "read" => call.reg \in 1 .. 6
    /\ call.at = "compare" => call.reg = 7

\* The last round is over, and another begins at the moment c or has begun there.
WaitInv == call.at = "wait" /\ call.i > 0 => \A r \in 1 .. 6 : ReadIn(call.time, r, 1, Upto)
RoundInv == call.at \in {"read", "compare"} =>
    \E c \in 1 .. rtc.now :
        /\ call.i > 0 => \A r \in 1 .. 6 : ReadIn(call.l_time, r, 1, c)
        /\ \A r \in 1 .. call.reg - 1 : ReadIn(call.time, r, c, Upto)
DoneInv == call.at = "done" =>
    \E c \in 1 .. rtc.now : \A r \in 1 .. 6 : call.time[r] = Register(rtc.times[c], r)

\* The inductive invariant.
ClockInv == ClockType /\ WaitInv /\ RoundInv /\ DoneInv

\* In each format the registers tell apart what they hold.
LEMMA RegisterOnto ==
    ASSUME ClockType, NEW t, IsTime(t), NEW u, IsTime(u), NEW r \in 1 .. 6
    PROVE  /\ Register(t, r) \in Nat
           /\ t[r] = u[r] <=> Register(t, r) = Register(u, r)
<1>1. /\ rtc.format.binary \in BOOLEAN /\ rtc.format.hours24 \in BOOLEAN
    BY DEF ClockType, Formats
<1>2. CASE r = 3
    <2>1. t[3] \in 0 .. 23 /\ u[3] \in 0 .. 23
        BY DEF IsTime
    <2> DEFINE h12(v) == IF v % 12 = 0 THEN 12 ELSE v % 12
               p12(v) == IF v >= 12 THEN 128 ELSE 0
               code(n) == IF rtc.format.binary THEN n ELSE Bcd(n)
    <2>2. ASSUME NEW v, v = t \/ v = u
          PROVE  Register(v, 3) = IF rtc.format.hours24 THEN code(v[3]) + 0
                                  ELSE code(h12(v[3])) + p12(v[3])
        BY <1>1 DEF Register
    <2>3. \A n, m \in 0 .. 23 : code(n) \in 0 .. 35 /\ (code(n) = code(m) <=> n = m)
        BY <1>1 DEF Bcd
    <2>4. \A n, m \in 0 .. 23 : /\ h12(n) \in 1 .. 12 /\ p12(n) \in {0, 128}
                                 /\ n = m <=> h12(n) = h12(m) /\ p12(n) = p12(m)
        OBVIOUS
    <2> HIDE DEF h12, p12, code
    <2>5. /\ h12(t[3]) \in 1 .. 12 /\ h12(u[3]) \in 1 .. 12
          /\ p12(t[3]) \in {0, 128} /\ p12(u[3]) \in {0, 128}
          /\ t[3] = u[3] <=> h12(t[3]) = h12(u[3]) /\ p12(t[3]) = p12(u[3])
        BY <2>1, <2>4
    <2>6. /\ code(h12(t[3])) \in 0 .. 35 /\ code(h12(u[3])) \in 0 .. 35
          /\ code(t[3]) \in 0 .. 35 /\ code(u[3]) \in 0 .. 35
          /\ code(h12(t[3])) = code(h12(u[3])) <=> h12(t[3]) = h12(u[3])
          /\ code(t[3]) = code(u[3]) <=> t[3] = u[3]
        BY <2>1, <2>3, <2>5
    <2>7. CASE rtc.format.hours24
        BY <1>2, <2>2, <2>6, <2>7
    <2>8. CASE ~rtc.format.hours24
        BY <1>2, <2>2, <2>5, <2>6, <2>8
    <2> QED BY <2>7, <2>8
<1>3. CASE r = 6
    BY <1>1, <1>3 DEF Register, IsTime, Bcd, CURRENT_YEAR
<1>4. CASE r \in {1, 2, 4, 5}
    <2>1. t[r] \in Nat /\ u[r] \in Nat
        BY <1>4 DEF IsTime
    <2>2. /\ Register(t, r) = IF rtc.format.binary THEN t[r] ELSE Bcd(t[r])
          /\ Register(u, r) = IF rtc.format.binary THEN u[r] ELSE Bcd(u[r])
        BY <1>4 DEF Register
    <2>3. \A n, m \in Nat : Bcd(n) \in Nat /\ (Bcd(n) = Bcd(m) <=> n = m)
        BY DEF Bcd
    <2> QED BY <1>1, <2>1, <2>2, <2>3
<1> QED BY <1>2, <1>3, <1>4

LEMMA ReadingSteady ==
    ASSUME ClockType, rtc.times \in Moments, NEW r \in 1 .. 6,
           NEW i \in 1 .. Len(rtc.times), NEW k \in 1 .. Len(rtc.times), NEW j \in i .. k,
           Register(rtc.times[i], r) = Register(rtc.times[k], r)
    PROVE  Register(rtc.times[j], r) = Register(rtc.times[i], r)
<1> DEFINE T == rtc.times
<1>1. /\ T \in Seq(Readings)
      /\ \A m \in 1 .. Len(T) : IsTime(T[m])
      /\ \A a, b \in 1 .. Len(T) : T[a][r] = T[b][r] => \A c \in a .. b : T[c][r] = T[a][r]
    BY MomentsAssumption DEF Readings
<1>2. i \in 1 .. Len(T) /\ k \in 1 .. Len(T) /\ j \in i .. k
    OBVIOUS
<1>3. Register(T[i], r) = Register(T[k], r)
    OBVIOUS
<1> HIDE DEF T
<1>4. Len(T) \in Nat
    BY <1>1
<1>5. j \in 1 .. Len(T)
    BY <1>2, <1>4
<1>6. T[i][r] = T[k][r]
    <2>1. IsTime(T[i]) /\ IsTime(T[k])
        BY <1>1, <1>2, Zenon
    <2> QED BY <1>3, <2>1, RegisterOnto
<1>7. T[j][r] = T[i][r]
    BY <1>1, <1>2, <1>6, Zenon
<1>8. Register(T[j], r) = Register(T[i], r)
    <2>1. IsTime(T[i]) /\ IsTime(T[j])
        BY <1>1, <1>2, <1>5, Zenon
    <2> QED BY <1>7, <2>1, RegisterOnto
<1> QED BY <1>8 DEF T

\* What cmos_read makes of the registers of the moment t.
Told(format, t) == IF AtTwelve(format, t) THEN [t EXCEPT ![3] = (@ + 12) % 24] ELSE t

LEMMA DecodeTells ==
    ASSUME ClockType, NEW t, IsTime(t), NEW q \in Readings,
           \A r \in 1 .. 6 : q[r] = Register(t, r)
    PROVE  Decode(rtc.format, q) = Told(rtc.format, t)
<1> DEFINE f == rtc.format
           hour12 == IF t[3] % 12 = 0 THEN 12 ELSE t[3] % 12
           hour == IF f.hours24 THEN t[3] ELSE hour12
           pm == IF ~f.hours24 /\ t[3] >= 12 THEN 128 ELSE 0
           b == IF f.binary THEN q
                ELSE [r \in 1 .. 6 |-> IF r = 3 THEN FromBcdHour(q[r]) ELSE FromBcd(q[r])]
           hh == IF ~f.hours24 /\ b[3] >= 128 THEN ((b[3] % 128) + 12) % 24 ELSE b[3]
           century == b[6] + (CURRENT_YEAR \div 100) * 100
           year == IF century < CURRENT_YEAR THEN century + 100 ELSE century
<1>1. f.binary \in BOOLEAN /\ f.hours24 \in BOOLEAN
    BY DEF ClockType, Formats
<1>2. /\ \A n \in 0 .. 99 : FromBcd(Bcd(n)) = n
      /\ \A n \in 0 .. 23 : FromBcdHour(Bcd(n)) = n /\ FromBcdHour(Bcd(n) + 128) = n + 128
    BY DEF FromBcd, FromBcdHour, Bcd
<1>3. t[3] \in 0 .. 23 /\ hour \in 0 .. 23 /\ pm \in {0, 128}
    BY <1>1 DEF IsTime
<1>4. /\ q[3] = IF f.binary THEN hour + pm ELSE Bcd(hour) + pm
      /\ q[6] = IF f.binary THEN t[6] % 100 ELSE Bcd(t[6] % 100)
      /\ \A r \in {1, 2, 4, 5} : q[r] = IF f.binary THEN t[r] ELSE Bcd(t[r])
    BY DEF Register
<1>5. b[3] = hour + pm
    <2> HIDE DEF hour, pm
    <2>1. FromBcdHour(Bcd(hour) + pm) = hour + pm
        BY <1>2, <1>3 DEF Bcd
    <2> QED BY <1>1, <1>4, <2>1
<1>6. b[6] = t[6] % 100
    <2>1. t[6] % 100 \in 0 .. 99
        BY DEF IsTime, CURRENT_YEAR
    <2> QED BY <1>1, <1>2, <1>4, <2>1
<1>7. \A r \in {1, 2, 4, 5} : b[r] = t[r]
    <2>1. \A r \in {1, 2, 4, 5} : t[r] \in 0 .. 99
        BY DEF IsTime
    <2> QED BY <1>1, <1>2, <1>4, <2>1
<1>8. DOMAIN b = 1 .. 6 /\ b = [r \in 1 .. 6 |-> b[r]]
    BY DEF Readings
<1> HIDE DEF b
<1>9. year = t[6]
    BY <1>6 DEF IsTime, CURRENT_YEAR
<1>10. hh = IF ~f.hours24 /\ t[3] % 12 = 0 THEN (t[3] + 12) % 24 ELSE t[3]
    BY <1>1, <1>3, <1>5
<1> HIDE DEF hour, pm, hh, year
<1>11. Decode(f, q) = [b EXCEPT ![3] = hh, ![6] = year]
    BY DEF Decode, b, hh, year
<1>12. Told(f, t) = [t EXCEPT ![3] = hh]
    BY <1>1, <1>10 DEF Told, AtTwelve, IsTime
<1>13. t = [r \in 1 .. 6 |-> t[r]] /\ DOMAIN t = 1 .. 6
    BY DEF IsTime
<1> DEFINE x == [b EXCEPT ![3] = hh, ![6] = year]
           y == [t EXCEPT ![3] = hh]
<1>14. /\ x = [r \in 1 .. 6 |-> IF r = 6 THEN year ELSE IF r = 3 THEN hh ELSE b[r]]
       /\ y = [r \in 1 .. 6 |-> IF r = 3 THEN hh ELSE t[r]]
    BY <1>8, <1>13
<1>15. x = y
    BY <1>7, <1>9, <1>14
<1> QED BY <1>11, <1>12, <1>15

LEMMA ClockStart == clock_init => ClockInv
<1> SUFFICES ASSUME clock_init PROVE ClockInv
    OBVIOUS
<1>1. <<NoTime>> \notin Moments
    <2>1. <<NoTime>>[1][6] = 1970 /\ Len(<<NoTime>>) = 1
        BY DEF NoTime
    <2>2. ~(1970 \in 2017 .. 2116)
        BY SMT
    <2>3. ~IsTime(<<NoTime>>[1])
        BY <2>1, <2>2, SMT DEF IsTime, CURRENT_YEAR
    <2> DEFINE T == <<NoTime>>
    <2> HIDE DEF T
    <2>4. ASSUME T \in Moments, Len(T) = 1, ~IsTime(T[1]) PROVE FALSE
        <3>1. \A m \in 1 .. Len(T) : IsTime(T[m])
            BY <2>4, MomentsAssumption, Zenon
        <3>2. 1 \in 1 .. Len(T)
            BY <2>4
        <3> QED BY <2>4, <3>1, <3>2, Zenon
    <2> QED BY <2>1, <2>3, <2>4 DEF T
<1>2. NoTime \in Readings
    BY SMT DEF NoTime, Readings
<1>3. ClockType
    BY <1>1, <1>2 DEF clock_init, ClockType, Formats
<1> QED BY <1>3 DEF clock_init, ClockInv, WaitInv, RoundInv, DoneInv

\* The registers of a moment do not change while the call runs.
LEMMA Fixed ==
    ASSUME UNCHANGED <<rtc.format, rtc.times>>
    PROVE  \A t, r, lo, hi : ReadIn(t, r, lo, hi) <=> ReadIn(t, r, lo, hi)'
BY DEF ReadIn, Register

\* The clock moves on.
LEMMA UpdateStep ==
    ASSUME ClockInv, update_begin \/ update_end
    PROVE  ClockInv'
<1>1. /\ UNCHANGED call /\ rtc'.format = rtc.format /\ rtc'.times = rtc.times
      /\ rtc' = [format |-> rtc.format, times |-> rtc.times, now |-> rtc'.now,
                 updating |-> rtc'.updating]
    BY DEF ClockInv, ClockType, update_begin, update_end
<1>2. Len(rtc.times) \in Nat /\ rtc.now \in Nat
    <2>1. rtc.now \in 1 .. Len(rtc.times)
        BY DEF ClockInv, ClockType
    <2>2. CASE rtc.times \in Moments
        <3>1. rtc.times \in Seq(Readings)
            BY <2>2, MomentsAssumption DEF Readings
        <3> QED BY <2>1, <3>1
    <2>3. CASE rtc.times = <<NoTime>>
        BY <2>1, <2>3
    <2> QED BY <2>2, <2>3 DEF ClockInv, ClockType
<1>3. /\ rtc'.now \in 1 .. Len(rtc.times) /\ rtc'.updating \in BOOLEAN
      /\ rtc'.updating => rtc'.now < Len(rtc.times)
      /\ rtc'.now >= rtc.now /\ Upto' >= Upto /\ Upto \in Nat /\ Upto' \in Nat
    <2>1. CASE update_begin
        <3>1. rtc'.now = rtc.now /\ rtc'.updating = TRUE /\ rtc.updating = FALSE
            BY <2>1 DEF ClockInv, ClockType, update_begin
        <3> QED BY <1>2, <2>1, <3>1 DEF ClockInv, ClockType, update_begin, Upto
    <2>2. CASE update_end
        <3>1. rtc'.now = rtc.now + 1 /\ rtc'.updating = FALSE /\ rtc.updating = TRUE
            BY <2>2 DEF ClockInv, ClockType, update_end
        <3>2. rtc.now < Len(rtc.times)
            BY <3>1 DEF ClockInv, ClockType
        <3>3. Upto = rtc.now + 1 /\ Upto' = rtc.now + 1
            BY <3>1 DEF Upto
        <3>4. rtc'.updating \in BOOLEAN /\ ~rtc'.updating
            BY <3>1
        <3>5. /\ rtc'.now \in 1 .. Len(rtc.times) /\ rtc'.now >= rtc.now
              /\ Upto' >= Upto /\ Upto \in Nat /\ Upto' \in Nat
            <4>1. rtc'.now = rtc.now + 1
                BY <3>1
            <4> QED BY <1>2, <3>2, <3>3, <4>1
        <3> QED BY <3>4, <3>5, Zenon
    <2> QED BY <2>1, <2>2
<1>4. \A t, r, lo, hi : ReadIn(t, r, lo, hi) <=> ReadIn(t, r, lo, hi)'
    BY <1>1, Fixed
<1>5. \A t, r : \A lo \in Nat : ReadIn(t, r, lo, Upto) => ReadIn(t, r, lo, Upto')
    BY <1>3 DEF ReadIn
<1>6. ClockType'
    BY <1>1, <1>3 DEF ClockInv, ClockType
<1>7. WaitInv'
    BY <1>1, <1>4, <1>5 DEF ClockInv, WaitInv
<1>8. RoundInv'
    BY <1>1, <1>2, <1>3, <1>4, <1>5 DEF ClockInv, RoundInv
<1>9. DoneInv'
    BY <1>1, <1>2, <1>3 DEF ClockInv, DoneInv, Register
<1> QED BY <1>6, <1>7, <1>8, <1>9 DEF ClockInv

\* The call begins, and each round of it.
LEMMA RoundStep ==
    ASSUME ClockInv, (\E f \in Formats, times \in Moments : clock_read(f, times)) \/ cmos_updating
    PROVE  ClockInv'
<1>1. CASE \E f \in Formats, times \in Moments : clock_read(f, times)
    <2>1. PICK f \in Formats, times \in Moments : clock_read(f, times)
        BY <1>1
    <2>2. /\ call'.at = "wait" /\ call'.i = 0
          /\ rtc' = [format |-> f, times |-> times, now |-> 1, updating |-> FALSE]
          /\ call' \in [at : {"none", "wait", "read", "compare", "done"}, reg : Nat,
                        time : Readings, l_time : Readings, i : Nat]
        BY <2>1 DEF ClockInv, ClockType, clock_read
    <2>3. 1 \in 1 .. Len(times)
        <3>1. times \in Seq(Readings) /\ times # <<>>
            BY MomentsAssumption DEF Readings
        <3> QED BY <3>1
    <2>4. ClockType'
        BY <2>2, <2>3 DEF ClockType
    <2> QED BY <2>2, <2>4 DEF ClockInv, WaitInv, RoundInv, DoneInv
<1>2. CASE cmos_updating
    <2>1. /\ call.at = "wait" /\ rtc' = rtc /\ Upto = rtc.now
          /\ call' = [call EXCEPT !.at = "read", !.reg = 1, !.l_time = call.time]
        BY <1>2 DEF cmos_updating, Upto
    <2>2. /\ call'.at = "read" /\ call'.reg = 1 /\ call'.l_time = call.time /\ call'.i = call.i
          /\ call' \in [at : {"none", "wait", "read", "compare", "done"}, reg : Nat,
                        time : Readings, l_time : Readings, i : Nat]
        BY <2>1 DEF ClockInv, ClockType
    <2>3. ClockType'
        BY <2>1, <2>2 DEF ClockInv, ClockType
    <2>4. RoundInv'
        <3>1. call.i > 0 => \A r \in 1 .. 6 : ReadIn(call.time, r, 1, rtc.now)
            BY <2>1 DEF ClockInv, WaitInv
        <3>2. \A t, r, lo, hi : ReadIn(t, r, lo, hi) <=> ReadIn(t, r, lo, hi)'
            BY <2>1, Fixed
        <3>3. rtc.now \in 1 .. rtc.now
            BY DEF ClockInv, ClockType
        <3>4. \A r \in 1 .. call'.reg - 1 : FALSE
            BY <2>2
        <3> QED BY <2>1, <2>2, <3>1, <3>2, <3>3, <3>4 DEF RoundInv
    <2> QED BY <2>2, <2>3, <2>4 DEF ClockInv, WaitInv, DoneInv
<1> QED BY <1>1, <1>2

\* A register is read, at the moment or in the middle of an update.
LEMMA RegisterStep ==
    ASSUME ClockInv, cmos_get_reg
    PROVE  ClockInv'
<1>1. /\ call.at = "read" /\ call.reg \in 1 .. 6 /\ rtc' = rtc /\ rtc.times \in Moments
    BY DEF ClockInv, ClockType, cmos_get_reg
<1>2. rtc.times \in Seq(Readings) /\ \A m \in 1 .. Len(rtc.times) : IsTime(rtc.times[m])
    BY <1>1, MomentsAssumption DEF Readings
<1>3. /\ rtc.now \in 1 .. Len(rtc.times) /\ rtc.updating \in BOOLEAN
      /\ rtc.updating => rtc.now < Len(rtc.times)
    BY DEF ClockInv, ClockType
<1>4. Len(rtc.times) \in Nat
    BY <1>2
<1>5. PICK m \in rtc.now .. Upto :
          call' = [call EXCEPT !.time[call.reg] = Register(rtc.times[m], call.reg),
                               !.reg = @ + 1,
                               !.at = IF call.reg = 6 THEN "compare" ELSE "read"]
    <2>1. {rtc.now} \cup (IF rtc.updating THEN {rtc.now + 1} ELSE {}) \subseteq rtc.now .. Upto
        BY <1>3, <1>4 DEF Upto
    <2> HIDE DEF Upto
    <2> QED BY <2>1, Zenon DEF cmos_get_reg
<1>6. m \in 1 .. Len(rtc.times) /\ Upto \in Nat
    BY <1>3, <1>4, <1>5 DEF Upto
<1> DEFINE v == Register(rtc.times[m], call.reg)
           at == IF call.reg = 6 THEN "compare" ELSE "read"
<1>7. v \in Nat
    BY <1>1, <1>2, <1>6, RegisterOnto DEF ClockInv
<1> DEFINE w == [call.time EXCEPT ![call.reg] = v]
<1>8. call' = [call EXCEPT !.time = w, !.reg = call.reg + 1, !.at = at]
    BY <1>5
<1>9. call.time \in Readings /\ w \in Readings /\ at \in {"compare", "read"}
    BY <1>1, <1>7 DEF ClockInv, ClockType, Readings
<1> HIDE DEF v, w, at
<1>10. /\ call'.at = at /\ call'.reg = call.reg + 1 /\ call'.l_time = call.l_time
       /\ call'.i = call.i /\ call'.time = w
       /\ call' \in [at : {"none", "wait", "read", "compare", "done"}, reg : Nat,
                     time : Readings, l_time : Readings, i : Nat]
    <2>1. /\ call = [at |-> call.at, reg |-> call.reg, time |-> call.time,
                      l_time |-> call.l_time, i |-> call.i]
          /\ call.l_time \in Readings /\ call.i \in Nat
        BY DEF ClockInv, ClockType
    <2>2. call' = [at |-> at, reg |-> call.reg + 1, time |-> w, l_time |-> call.l_time,
                   i |-> call.i]
        BY <1>8, <2>1
    <2> QED BY <1>1, <1>9, <2>1, <2>2
<1>11. ClockType'
    BY <1>1, <1>9, <1>10 DEF ClockInv, ClockType, at
<1>12. \A t, r, lo, hi : ReadIn(t, r, lo, hi) <=> ReadIn(t, r, lo, hi)'
    BY <1>1, Fixed
<1>13. RoundInv'
    <2>1. PICK c \in 1 .. rtc.now :
              /\ call.i > 0 => \A r \in 1 .. 6 : ReadIn(call.l_time, r, 1, c)
              /\ \A r \in 1 .. call.reg - 1 : ReadIn(call.time, r, c, Upto)
        BY <1>1 DEF ClockInv, RoundInv
    <2>2. \A r \in 1 .. call.reg - 1 : ReadIn(call'.time, r, c, Upto)
        <3>1. \A r \in 1 .. call.reg - 1 : call'.time[r] = call.time[r]
            BY <1>1, <1>9, <1>10 DEF Readings, w
        <3> QED BY <2>1, <3>1 DEF ReadIn
    <2>3. ReadIn(call'.time, call.reg, c, Upto)
        <3>1. call'.time[call.reg] = v
            BY <1>1, <1>9, <1>10 DEF Readings, w
        <3>2. m \in c .. Upto
            BY <1>3, <1>4, <1>6
        <3> QED BY <3>1, <3>2 DEF ReadIn, v
    <2>4. \A r \in 1 .. call'.reg - 1 : ReadIn(call'.time, r, c, Upto)
        <3>1. \A r \in 1 .. call'.reg - 1 : r \in 1 .. call.reg - 1 \/ r = call.reg
            BY <1>1, <1>10
        <3> QED BY <2>2, <2>3, <3>1
    <2>5. Upto' = Upto /\ rtc'.now = rtc.now
        BY <1>1 DEF Upto
    <2> QED BY <1>10, <1>12, <2>1, <2>4, <2>5 DEF RoundInv
<1> QED BY <1>9, <1>10, <1>11, <1>13 DEF ClockInv, WaitInv, DoneInv

\* Two rounds agree: then all registers are those of the moment between them.
LEMMA CompareStep ==
    ASSUME ClockInv, compare
    PROVE  ClockInv'
<1>1. /\ call.at = "compare" /\ call.reg = 7 /\ rtc' = rtc /\ rtc.times \in Moments
    BY DEF ClockInv, ClockType, compare
<1>2. rtc.times \in Seq(Readings)
    BY <1>1, MomentsAssumption DEF Readings
<1>3. /\ rtc.now \in 1 .. Len(rtc.times) /\ Len(rtc.times) \in Nat
      /\ Upto \in rtc.now .. Len(rtc.times)
    BY <1>2 DEF ClockInv, ClockType, Upto
<1> DEFINE at == IF call.i = 0 \/ call.time # call.l_time THEN "wait" ELSE "done"
           n == IF call.i = 0 THEN 1 ELSE 2
<1>4. call' = [call EXCEPT !.i = n, !.at = at]
    BY DEF compare
<1>5. /\ call'.at = at /\ call'.time = call.time
      /\ call' \in [at : {"none", "wait", "read", "compare", "done"}, reg : Nat,
                    time : Readings, l_time : Readings, i : Nat]
    BY <1>4 DEF ClockInv, ClockType
<1>6. ClockType'
    BY <1>1, <1>5 DEF ClockInv, ClockType
<1>7. \A t, r, lo, hi : ReadIn(t, r, lo, hi) <=> ReadIn(t, r, lo, hi)'
    BY <1>1, Fixed
<1>8. PICK c \in 1 .. rtc.now :
          /\ call.i > 0 => \A r \in 1 .. 6 : ReadIn(call.l_time, r, 1, c)
          /\ \A r \in 1 .. 6 : ReadIn(call.time, r, c, Upto)
    BY <1>1 DEF ClockInv, RoundInv
<1>9. WaitInv'
    <2>1. \A r \in 1 .. 6 : ReadIn(call.time, r, 1, Upto)
        <3> SUFFICES ASSUME NEW r \in 1 .. 6 PROVE ReadIn(call.time, r, 1, Upto)
            OBVIOUS
        <3>1. PICK m \in c .. Upto : call.time[r] = Register(rtc.times[m], r)
            BY <1>8 DEF ReadIn
        <3>2. m \in 1 .. Upto
            BY <1>3
        <3> QED BY <3>1, <3>2 DEF ReadIn
    <2>2. Upto' = Upto
        BY <1>1 DEF Upto
    <2> QED BY <1>5, <1>7, <2>1, <2>2 DEF WaitInv
<1>10. DoneInv'
    <2> SUFFICES ASSUME call'.at = "done" PROVE DoneInv'
        BY DEF DoneInv
    <2>1. call.i # 0 /\ call.time = call.l_time
        BY <1>5
    <2>2. call.i > 0
        BY <2>1 DEF ClockInv, ClockType
    <2>3. ASSUME NEW r \in 1 .. 6
          PROVE  call.time[r] = Register(rtc.times[c], r)
        <3>1. PICK j \in 1 .. c : call.time[r] = Register(rtc.times[j], r)
            BY <1>8, <2>1, <2>2 DEF ReadIn
        <3>2. PICK k \in c .. Upto : call.time[r] = Register(rtc.times[k], r)
            BY <1>8 DEF ReadIn
        <3>3. j \in 1 .. Len(rtc.times) /\ k \in 1 .. Len(rtc.times) /\ c \in j .. k
            BY <1>3
        <3> QED BY <1>1, <3>1, <3>2, <3>3, ReadingSteady DEF ClockInv
    <2>4. \A r \in 1 .. 6 : call'.time[r] = Register(rtc.times[c], r)'
        BY <1>1, <1>5, <2>3 DEF Register
    <2> QED BY <1>1, <2>4 DEF DoneInv
<1> QED BY <1>5, <1>6, <1>9, <1>10 DEF ClockInv, RoundInv

LEMMA ClockKept == ClockInv /\ [clock_next]_clock_vars => ClockInv'
<1> SUFFICES ASSUME ClockInv, [clock_next]_clock_vars PROVE ClockInv'
    OBVIOUS
<1>1. CASE UNCHANGED clock_vars
    BY <1>1 DEF clock_vars, ClockInv, ClockType, WaitInv, RoundInv, DoneInv, ReadIn, Register, Upto
<1> QED BY <1>1, UpdateStep, RoundStep, RegisterStep, CompareStep DEF clock_next

LEMMA ClockSafe == ClockInv => ClockRight
<1> SUFFICES ASSUME ClockInv, call.at = "done"
             PROVE  ClockRight
    BY DEF ClockRight
<1>1. PICK c \in 1 .. rtc.now : \A r \in 1 .. 6 : call.time[r] = Register(rtc.times[c], r)
    BY DEF ClockInv, DoneInv
<1>2. rtc.times \in Moments /\ call.time \in Readings /\ rtc.now \in 1 .. Len(rtc.times)
    BY DEF ClockInv, ClockType
<1>3. rtc.times \in Seq(Readings) /\ \A m \in 1 .. Len(rtc.times) : IsTime(rtc.times[m])
    BY <1>2, MomentsAssumption DEF Readings
<1>4. c \in 1 .. Len(rtc.times)
    BY <1>2, <1>3
<1>5. IsTime(rtc.times[c])
    BY <1>3, <1>4
<1> DEFINE t == rtc.times[c]
           told == Decode(rtc.format, call.time)
<1>6. told = Told(rtc.format, t)
    BY <1>1, <1>2, <1>5, DecodeTells DEF ClockInv
<1>7. DOMAIN t = 1 .. 6 /\ t[3] \in 0 .. 23
    BY <1>5 DEF IsTime
<1> HIDE DEF t, told
<1>8. /\ told[3] % 12 = t[3] % 12
      /\ told = IF AtTwelve(rtc.format, t) THEN [t EXCEPT ![3] = told[3]] ELSE t
  <2>1. CASE AtTwelve(rtc.format, t)
    <3>1. told = [t EXCEPT ![3] = (t[3] + 12) % 24] /\ told[3] = (t[3] + 12) % 24
        BY <1>6, <1>7, <2>1 DEF Told
    <3>2. ((t[3] + 12) % 24) % 12 = t[3] % 12
        BY <1>7
    <3> QED BY <2>1, <3>1, <3>2
  <2>2. CASE ~AtTwelve(rtc.format, t)
      BY <1>6, <2>2 DEF Told
  <2> QED BY <2>1, <2>2
<1> QED BY <1>8 DEF ClockRight, t, told

\* However the clock moves on while its registers are read, cmos_read returns
\* one time, that of a moment of the call, for all times in the hundred years
\* from CURRENT_YEAR and in every format; only in the hour after noon and
\* after midnight of a clock that counts to twelve may its hour be half a day off.
THEOREM UnitClockRight == clock_spec => []ClockRight
<1> QED BY ClockStart, ClockKept, ClockSafe, PTL DEF clock_spec

-----------------------------------------------------------------------------
(* Memory at boot. *)

Tag == [type : Nat, start : Nat, size : Nat]
Memory == 0 .. MemSize - 1
Content == Int \X Int
Region == [start : Nat, bytes : Nat]

\* Rounding up to a page or to the alignment of a pool.
LEMMA Ceiling ==
    ASSUME NEW n \in Nat, NEW align \in Nat \ {0}
    PROVE  /\ ceiling(n, align) \in Nat
           /\ ceiling(n, align) >= n /\ ceiling(n, align) >= align
           /\ n # 0 => ceiling(n, align) < n + align
<1>1. CASE n = 0
    BY <1>1 DEF ceiling
<1>2. CASE n # 0
  <2> DEFINE d == (n - 1) \div align
             p == align * d
  <2>1. d \in Nat /\ p <= n - 1 /\ n - 1 < p + align
      BY <1>2
  <2>2. p \in Nat
      BY <2>1
  <2>3. ceiling(n, align) = align + p
      BY <1>2 DEF ceiling
  <2> HIDE DEF p, d
  <2> QED BY <1>2, <2>1, <2>2, <2>3
<1> QED BY <1>1, <1>2

\* A multiple of the page size that is not below n is not below n rounded up.
LEMMA CeilingLeast ==
    ASSUME NEW n \in Nat \ {0}, NEW align \in Nat \ {0}, NEW m \in Nat,
           m % align = 0, m >= n
    PROVE  m >= ceiling(n, align)
<1> DEFINE d == (n - 1) \div align
           e == m \div align
<1>1. d \in Nat /\ e \in Nat /\ m = align * e /\ align * d <= n - 1
    OBVIOUS
<1>2. ceiling(n, align) = align + align * d
    BY DEF ceiling
<1> HIDE DEF d, e
<1>3. e > d
  <2> SUFFICES ASSUME e <= d PROVE FALSE
      BY <1>1
  <2>1. align * e <= align * d
      BY <1>1
  <2> QED BY <1>1, <2>1
<1>4. align * e >= align * (d + 1)
    BY <1>1, <1>3
<1>5. align * (d + 1) = align + align * d
    BY <1>1
<1> QED BY <1>1, <1>2, <1>4, <1>5

\* mem_copy writes its destination and nothing else, and copies what was at
\* the source unless the destination begins inside it.
IsCopy(m, src, dest, n) ==
    /\ m \in [Memory -> Content]
    /\ \A c \in Memory \ Span(dest, n) : m[c] = mem[c]
    /\ ~(src < dest /\ dest < src + n) => \A i \in 0 .. n - 1 : m[dest + i] = mem[src + i]

LEMMA CopyCells ==
    ASSUME mem \in [Memory -> Content], MemSize \in Nat,
           NEW src \in Nat, NEW dest \in Nat, NEW n \in Nat,
           src + n <= MemSize, dest + n <= MemSize
    PROVE  IsCopy(mem_copy(src, dest, n), src, dest, n)
<1> DEFINE V == [Memory -> Content]
           Step(m, i) == [m EXCEPT ![dest + i - 1] = m[src + i - 1]]
           g == [p \in (1 .. n) \X V |-> Step(p[2], p[1])]
           Body(h) == [i \in 0 .. n |-> IF i = 0 THEN mem ELSE Step(h[i - 1], i)]
           copied == CHOOSE h : h = Body(h)
<1>1. \A i \in 1 .. n : dest + i - 1 \in Memory /\ src + i - 1 \in Memory
    BY DEF Memory
<1>2. \A m \in V, i \in 1 .. n : Step(m, i) \in V
    BY <1>1
<1>3. copied = Body(copied)
  <2>1. mem \in V
      OBVIOUS
  <2>2. g \in [(1 .. n) \X V -> V]
    <3> HIDE DEF V, Step
    <3> QED BY <1>2
  <2>3. PICK f \in [0 .. n -> V] : IsLoop(f, mem, g, n)
    <3> HIDE DEF V, g
    <3> QED BY <2>1, <2>2, LoopSolution
  <2>4. f = Body(f)
    <3>1. \A i \in 0 .. n : i # 0 => i \in 1 .. n /\ f[i - 1] \in V
      <4>1. \A i \in 0 .. n : i # 0 => i \in 1 .. n /\ i - 1 \in 0 .. n
          OBVIOUS
      <4> HIDE DEF V
      <4> QED BY <4>1
    <3>2. \A i \in 0 .. n : i # 0 => g[<<i, f[i - 1]>>] = Step(f[i - 1], i)
      <4> HIDE DEF V, Step
      <4> QED BY <3>1
    <3> HIDE DEF V, Step, g
    <3> QED BY <2>3, <3>2 DEF IsLoop
  <2> HIDE DEF Body
  <2> QED BY <2>4
<1>4. mem_copy(src, dest, n) = copied[n]
    BY DEF mem_copy
<1> HIDE DEF copied
<1>5. copied[0] = mem /\ \A i \in 1 .. n : copied[i] = Step(copied[i - 1], i)
  <2>1. \A i \in 0 .. n : copied[i] = IF i = 0 THEN mem ELSE Step(copied[i - 1], i)
    <3> HIDE DEF Step
    <3> QED BY <1>3
  <2> HIDE DEF Step
  <2> QED BY <2>1
<1> DEFINE Apart == ~(src < dest /\ dest < src + n)
           Good(i) == /\ copied[i] \in V
                      /\ \A c \in Memory \ Span(dest, i) : copied[i][c] = mem[c]
                      /\ Apart => \A k \in 0 .. i - 1 : copied[i][dest + k] = mem[src + k]
<1>6. Good(0)
    BY <1>5
<1>7. ASSUME NEW i \in 0 .. n - 1, Good(i) PROVE Good(i + 1)
  <2>1. i + 1 \in 1 .. n /\ (i + 1) - 1 = i
      OBVIOUS
  <2>2. /\ dest + (i + 1) - 1 = dest + i /\ src + (i + 1) - 1 = src + i
        /\ dest + i \in Memory /\ src + i \in Memory
      BY <1>1, <2>1
  <2>3. copied[i + 1] = [copied[i] EXCEPT ![dest + i] = copied[i][src + i]]
      BY <1>5, <2>1, <2>2
  <2> DEFINE a == copied[i]
             b == copied[i + 1]
  <2>4. a \in V /\ b = [a EXCEPT ![dest + i] = a[src + i]]
      BY <1>7, <2>3
  <2> HIDE DEF a, b
  <2>5. /\ b \in V /\ b[dest + i] = a[src + i]
        /\ \A c \in Memory : c # dest + i => b[c] = a[c]
      BY <2>2, <2>4
  <2>6. \A c \in Memory \ Span(dest, i + 1) : b[c] = mem[c]
    <3>1. \A c \in Memory \ Span(dest, i + 1) :
              c # dest + i /\ c \in Memory \ Span(dest, i)
        BY DEF Span, Memory
    <3>2. \A c \in Memory \ Span(dest, i) : a[c] = mem[c]
        BY <1>7 DEF a
    <3> QED BY <2>5, <3>1, <3>2
  <2>7. Apart => \A k \in 0 .. (i + 1) - 1 : b[dest + k] = mem[src + k]
    <3> SUFFICES ASSUME Apart, NEW k \in 0 .. i PROVE b[dest + k] = mem[src + k]
        OBVIOUS
    <3>1. CASE k = i
      <4>1. src + i \in Memory \ Span(dest, i)
          BY <2>2 DEF Span
      <4>2. a[src + i] = mem[src + i]
          BY <1>7, <4>1 DEF a
      <4> QED BY <2>5, <3>1, <4>2
    <3>2. CASE k # i
      <4>1. k \in 0 .. i - 1 /\ dest + k # dest + i /\ dest + k \in Memory
          BY <3>2 DEF Memory
      <4>2. a[dest + k] = mem[src + k]
          BY <1>7, <4>1 DEF a
      <4> QED BY <2>5, <4>1, <4>2
    <3> QED BY <3>1, <3>2
  <2> QED BY <2>5, <2>6, <2>7 DEF b
<1>8. Good(n)
  <2> DEFINE S == {i \in 0 .. n : Good(i)}
  <2> HIDE DEF Good
  <2>1. 0 \in S /\ \A i \in 0 .. n - 1 : i \in S => i + 1 \in S
      BY <1>6, <1>7
  <2>2. 0 .. n \subseteq S
    <3> HIDE DEF S
    <3> QED BY <2>1, BoundedInduction
  <2> QED BY <2>2
<1> QED BY <1>4, <1>8 DEF IsCopy

\* The numbers of arch_kernel_alloc: what it hands out lies behind all that
\* it handed out before, at a distance of kernel_end_offset at least.
LEMMA NextAllocation ==
    ASSUME kernel_end_offset \in Nat, NEW bytes \in Nat
    PROVE  /\ OffsetOfNext \in Nat /\ OffsetOfNext >= 2 * kernel_end_offset
           /\ ceiling(bytes, ARCH_PAGE_SIZE) \in Nat
           /\ ceiling(bytes, ARCH_PAGE_SIZE) >= bytes
           /\ ceiling(bytes, ARCH_PAGE_SIZE) >= ARCH_PAGE_SIZE
           /\ kernel_end \in Nat \ {0} /\ ARCH_PAGE_SIZE \in Nat \ {0}
<1>1. kernel_end \in Nat \ {0} /\ ARCH_PAGE_SIZE \in Nat \ {0}
    BY BootAssumption
<1>2. kernel_end + kernel_end_offset \in Nat
    BY <1>1
<1>3. /\ ceiling(kernel_end + kernel_end_offset, ARCH_PAGE_SIZE) \in Nat
      /\ ceiling(kernel_end + kernel_end_offset, ARCH_PAGE_SIZE)
            >= kernel_end + kernel_end_offset
    BY <1>1, <1>2, Ceiling
<1>4. /\ ceiling(bytes, ARCH_PAGE_SIZE) \in Nat
      /\ ceiling(bytes, ARCH_PAGE_SIZE) >= bytes
      /\ ceiling(bytes, ARCH_PAGE_SIZE) >= ARCH_PAGE_SIZE
    BY <1>1, Ceiling
<1>5. OffsetOfNext \in Nat /\ OffsetOfNext >= 2 * kernel_end_offset
    BY <1>1, <1>3 DEF OffsetOfNext
<1> QED BY <1>1, <1>4, <1>5

BootType ==
    /\ kernel_end_offset \in Nat
    /\ loaded \in Tags \cup {<<>>}
    /\ loaded \in Seq(Tag) /\ tags \in Seq(Tag) /\ Len(tags) = Len(loaded)
    /\ mem \in [Memory -> Content]
    /\ bootmem \in [at : {"loader", "tags", "kmem", "ready"}, tag : Nat]
    /\ regions \in Seq(Region)
    /\ bootmem.at = "loader" => /\ kernel_end_offset = 0
                                /\ tags = <<>> /\ regions = <<>> /\ harmed = {}
    /\ bootmem.at = "tags" => bootmem.tag # 0

\* Only the addresses of the modules that were moved change in the tags.
TagsKept == \A t \in 1 .. Len(tags) :
    /\ tags[t].type = loaded[t].type /\ tags[t].size = loaded[t].size
    /\ t >= bootmem.tag => tags[t].start = loaded[t].start

RegionsApart == \A r \in 1 .. Len(regions) :
    /\ regions[r].start >= kernel_end
    /\ regions[r].start + regions[r].bytes <= kernel_end + kernel_end_offset
    /\ kernel_end_offset >= ARCH_PAGE_SIZE
    /\ \A s \in 1 .. r - 1 : Span(regions[r].start, regions[r].bytes)
                               \cap Span(regions[s].start, regions[s].bytes) = {}

\* Where a module was moved to was allocated, and is memory.
MovedInside ==
    /\ \A t \in Moved : /\ tags[t].start + tags[t].size <= kernel_end + kernel_end_offset
                        /\ tags[t].start + tags[t].size <= MemSize
                        /\ kernel_end_offset >= ARCH_PAGE_SIZE
    /\ bootmem.at = "tags" /\ Moved = {} => kernel_end_offset = 0

\* A module that is still to be moved is intact as well, if it is not harmed.
ModulesIntact == \A t \in Modules \ harmed : t \in Moved \/ bootmem.at = "tags" => Intact(t)

SingleUnharmed ==
    Cardinality(Modules) = 1 /\ (\A t \in Modules : loaded[t].start % ARCH_PAGE_SIZE = 0)
       => harmed = {}

HeapInside == bootmem.at = "ready" =>
    /\ pool.block_count > 0
    /\ PoolOwn \subseteq HeapCells
    /\ \A r \in 1 .. Len(regions) - 1 :
          PoolCells \cap Span(regions[r].start, regions[r].bytes) = {}

\* The inductive invariant.
BootInv == /\ BootType /\ TagsKept /\ RegionsApart /\ MovedInside
           /\ ModulesIntact /\ SingleUnharmed /\ HeapInside

LEMMA BootMemStart == bootmem_init => BootInv
<1> SUFFICES ASSUME bootmem_init PROVE BootInv
    OBVIOUS
<1>1. MemSize \in Nat /\ Nothing \in Content
    BY BootAssumption DEF Nothing, Content
<1>2. BootType
    BY <1>1 DEF BootType, bootmem_init, Memory
<1>3. tags = <<>> /\ regions = <<>> /\ Len(<<>>) = 0 /\ harmed = {} /\ bootmem.at = "loader"
    BY DEF bootmem_init
<1>4. Modules = {} /\ Moved = {}
    BY <1>3 DEF Modules, ModulesIn, Moved
<1>5. TagsKept /\ RegionsApart
    BY <1>3 DEF TagsKept, RegionsApart
<1> QED BY <1>2, <1>3, <1>4, <1>5
        DEF BootInv, MovedInside, ModulesIntact, SingleUnharmed, HeapInside

\* The loader puts each module into memory.
LEMMA LoadStep ==
    ASSUME BootInv, NEW t \in Tags, NEW magic \in BOOLEAN, load(t, magic)
    PROVE  BootInv'
<1>1. /\ bootmem.at = "loader" /\ tags' = t /\ loaded' = t
      /\ bootmem' = [at |-> IF magic THEN "tags" ELSE "kmem", tag |-> 1]
      /\ UNCHANGED <<kernel_end_offset, pool, regions, harmed>>
    BY DEF load
<1>2. kernel_end_offset = 0 /\ regions = <<>> /\ harmed = {} /\ mem \in [Memory -> Content]
    BY <1>1 DEF BootInv, BootType
<1>3. t \in Seq(Tag)
    BY LoaderAssumption DEF Tag
<1>4. bootmem'.tag = 1 /\ bootmem'.at \in {"tags", "kmem"}
    BY <1>1
<1>5. Moved' = {} /\ Modules' = ModulesIn(t)
    BY <1>1, <1>4 DEF Moved, Modules, ModulesIn
<1> DEFINE inside(c) == {n \in ModulesIn(t) : c \in Span(t[n].start, t[n].size)}
<1>6. mem' = [c \in Memory |-> IF inside(c) = {} THEN Nothing
                               ELSE <<Min(inside(c)), c - t[Min(inside(c))].start>>]
    BY <1>2 DEF load
<1>7. \A n \in 1 .. Len(t) : t[n] \in Tag
    BY <1>3, ElementOfSeq
<1>8. mem' \in [Memory -> Content]
  <2>1. Nothing \in Content
      BY DEF Nothing, Content
  <2>2. ASSUME NEW c \in Memory, inside(c) # {}
        PROVE  <<Min(inside(c)), c - t[Min(inside(c))].start>> \in Content
    <3>1. inside(c) \subseteq Nat /\ \A n \in inside(c) : t[n] \in Tag
        BY <1>7 DEF ModulesIn
    <3>2. Min(inside(c)) \in inside(c)
      <4> HIDE DEF inside
      <4> QED BY <2>2, <3>1, MinIn
    <3>3. Min(inside(c)) \in Int /\ t[Min(inside(c))].start \in Int /\ c \in Int
        BY <3>1, <3>2 DEF Tag, Memory
    <3> HIDE DEF inside
    <3> QED BY <3>3 DEF Content
  <2> HIDE DEF inside
  <2> QED BY <1>6, <2>1, <2>2
<1>9. BootType'
  <2>1. bootmem' \in [at : {"loader", "tags", "kmem", "ready"}, tag : Nat]
        /\ bootmem'.at # "loader"
      BY <1>1
  <2> QED BY <1>1, <1>3, <1>8, <2>1 DEF BootInv, BootType
<1>10. TagsKept'
    BY <1>1 DEF TagsKept
<1>11. RegionsApart'
    BY <1>1, <1>2 DEF RegionsApart
<1>12. MovedInside'
    BY <1>1, <1>2, <1>5 DEF MovedInside
<1>13. ModulesIntact'
  <2> SUFFICES ASSUME NEW m \in ModulesIn(t), NEW i \in 0 .. t[m].size - 1
               PROVE  mem'[t[m].start + i] = <<m, i>>
      BY <1>1, <1>5 DEF ModulesIntact, Intact
  <2> DEFINE c == t[m].start + i
  <2>1. t[m].start \in Nat /\ t[m].size \in Nat /\ i \in Nat /\ m \in Nat
      BY <1>7 DEF ModulesIn, Tag
  <2>2. t[m].start + t[m].size <= MemSize
        /\ \A n \in ModulesIn(t) \ {m} :
              Span(t[m].start, t[m].size) \cap Span(t[n].start, t[n].size) = {}
      BY LoaderAssumption
  <2>3. c \in Memory /\ c \in Span(t[m].start, t[m].size)
      BY <2>1, <2>2, BootAssumption DEF Memory, Span
  <2> HIDE DEF c
  <2>4. inside(c) = {m}
      BY <2>2, <2>3
  <2>5. Min({m}) = m
      BY <2>1, MinIs
  <2>6. mem'[c] = <<m, c - t[m].start>>
    <3> HIDE DEF inside
    <3> QED BY <1>6, <2>3, <2>4, <2>5
  <2>7. c - t[m].start = i
      BY <2>1 DEF c
  <2> QED BY <2>6, <2>7 DEF c
<1>14. SingleUnharmed' /\ HeapInside'
    BY <1>1, <1>2, <1>4 DEF SingleUnharmed, HeapInside
<1> QED BY <1>9, <1>10, <1>11, <1>12, <1>13, <1>14 DEF BootInv

\* A tag that is no module, and the end of the tags, change nothing else.
LEMMA PassStep ==
    ASSUME BootInv, multiboot_parse_other \/ multiboot_done
    PROVE  BootInv'
<1>1. /\ bootmem.at = "tags"
      /\ UNCHANGED <<kernel_end_offset, tags, mem, pool, loaded, regions, harmed>>
      /\ \/ /\ bootmem' = [bootmem EXCEPT !.tag = @ + 1] /\ tags[bootmem.tag].type # 3
         \/ bootmem' = [bootmem EXCEPT !.at = "kmem"]
    BY DEF multiboot_parse_other, multiboot_done, NextTag
<1>2. bootmem \in [at : {"loader", "tags", "kmem", "ready"}, tag : Nat]
    BY DEF BootInv, BootType
<1>3. /\ bootmem' \in [at : {"loader", "tags", "kmem", "ready"}, tag : Nat]
      /\ bootmem'.at \in {"tags", "kmem"} /\ bootmem'.tag >= bootmem.tag
      /\ \/ bootmem'.tag = bootmem.tag
         \/ bootmem'.tag = bootmem.tag + 1 /\ tags[bootmem.tag].type # 3
    BY <1>1, <1>2
<1>4. Modules' = Modules /\ Modules \subseteq Nat
    BY <1>1 DEF Modules, ModulesIn
<1>5. Moved' = Moved
  <2>1. \A t \in Modules : t < bootmem'.tag <=> t < bootmem.tag
    <3>1. \A t \in Modules : tags[t].type = 3 /\ t \in Nat
        BY <1>4 DEF Modules, ModulesIn
    <3> QED BY <1>2, <1>3, <3>1
  <2> QED BY <1>4, <2>1 DEF Moved
<1>6. BootType'
  <2>1. bootmem'.at # "loader"
      BY <1>3
  <2> QED BY <1>1, <1>3, <2>1 DEF BootInv, BootType
<1>7. TagsKept'
    BY <1>1, <1>2, <1>3 DEF BootInv, TagsKept
<1>8. RegionsApart'
    BY <1>1 DEF BootInv, RegionsApart
<1>9. MovedInside'
    BY <1>1, <1>5 DEF BootInv, MovedInside
<1>10. ModulesIntact'
    BY <1>1, <1>4, <1>5 DEF BootInv, ModulesIntact, Intact
<1>11. SingleUnharmed' /\ HeapInside'
    BY <1>1, <1>3, <1>4 DEF BootInv, SingleUnharmed, HeapInside
<1> QED BY <1>6, <1>7, <1>8, <1>9, <1>10, <1>11 DEF BootInv

\* arch_kernel_alloc keeps the allocations apart.
LEMMA AllocStep ==
    ASSUME BootInv, NEW bytes \in Nat, arch_kernel_alloc(bytes)
    PROVE  LET dest == kernel_end + OffsetOfNext
           IN  /\ kernel_end_offset' \in Nat /\ kernel_end_offset' >= ARCH_PAGE_SIZE
               /\ kernel_end_offset' >= kernel_end_offset
               /\ dest \in Nat /\ dest >= kernel_end + 2 * kernel_end_offset
               /\ dest + bytes <= kernel_end + kernel_end_offset'
               /\ regions' \in Seq(Region) /\ Len(regions') = Len(regions) + 1
               /\ \A r \in 1 .. Len(regions) : regions'[r] = regions[r]
               /\ regions'[Len(regions')].start = dest
               /\ regions'[Len(regions')].bytes >= bytes
               /\ RegionsApart'
<1> DEFINE dest == kernel_end + OffsetOfNext
           size == ceiling(bytes, ARCH_PAGE_SIZE)
           new == [start |-> dest, bytes |-> size]
           n == Len(regions)
<1>1. /\ kernel_end_offset \in Nat /\ regions \in Seq(Region)
      /\ kernel_end_offset' = OffsetOfNext + size
      /\ regions' = Append(regions, new)
    BY DEF BootInv, BootType, arch_kernel_alloc
<1>2. /\ OffsetOfNext \in Nat /\ OffsetOfNext >= 2 * kernel_end_offset
      /\ size \in Nat /\ size >= bytes /\ size >= ARCH_PAGE_SIZE
      /\ kernel_end \in Nat \ {0} /\ ARCH_PAGE_SIZE \in Nat \ {0}
    BY <1>1, NextAllocation
<1> HIDE DEF size
<1>3. dest \in Nat /\ new \in Region
    BY <1>2 DEF Region
<1>4. /\ regions' \in Seq(Region) /\ Len(regions') = n + 1
      /\ \A r \in 1 .. n : regions'[r] = regions[r]
      /\ regions'[n + 1] = new /\ n \in Nat
  <2> HIDE DEF new
  <2> QED BY <1>1, <1>3, AppendProperties, LenProperties
<1>5. regions'[n + 1].start = dest /\ regions'[n + 1].bytes = size
    BY <1>4
<1>6. /\ kernel_end_offset' \in Nat /\ kernel_end_offset' >= ARCH_PAGE_SIZE
      /\ kernel_end_offset' >= kernel_end_offset
      /\ dest >= kernel_end + 2 * kernel_end_offset
      /\ dest + bytes <= kernel_end + kernel_end_offset'
      /\ dest + size = kernel_end + kernel_end_offset'
    BY <1>1, <1>2
<1> HIDE DEF dest
<1>7. RegionsApart'
  <2> SUFFICES ASSUME NEW r \in 1 .. n + 1
               PROVE  /\ regions'[r].start >= kernel_end
                      /\ regions'[r].start + regions'[r].bytes
                            <= kernel_end + kernel_end_offset'
                      /\ kernel_end_offset' >= ARCH_PAGE_SIZE
                      /\ \A s \in 1 .. r - 1 :
                            Span(regions'[r].start, regions'[r].bytes)
                              \cap Span(regions'[s].start, regions'[s].bytes) = {}
      BY <1>4 DEF RegionsApart
  <2>1. ASSUME NEW s \in 1 .. n
        PROVE  /\ regions'[s] = regions[s] /\ regions[s] \in Region
               /\ regions[s].start >= kernel_end
               /\ regions[s].start + regions[s].bytes <= kernel_end + kernel_end_offset
               /\ \A q \in 1 .. s - 1 : Span(regions[s].start, regions[s].bytes)
                                          \cap Span(regions[q].start, regions[q].bytes) = {}
      BY <1>1, <1>4, ElementOfSeq DEF BootInv, RegionsApart
  <2>2. CASE r \in 1 .. n
    <3>1. \A q \in 1 .. r - 1 : q \in 1 .. n
        BY <1>4, <2>2
    <3>2. regions'[r] = regions[r] /\ regions[r] \in Region /\ regions[r].start >= kernel_end
          /\ regions[r].start + regions[r].bytes <= kernel_end + kernel_end_offset
        BY <2>1, <2>2
    <3>3. regions'[r].start + regions'[r].bytes <= kernel_end + kernel_end_offset'
      <4>1. regions[r].start \in Nat /\ regions[r].bytes \in Nat
          BY <3>2 DEF Region
      <4> DEFINE x == regions[r].start + regions[r].bytes
                 o == kernel_end_offset
                 next == kernel_end_offset'
      <4>2. /\ x \in Nat /\ o \in Nat /\ next \in Nat /\ kernel_end \in Nat
            /\ o <= next /\ x <= kernel_end + o
        <5>1. x \in Nat /\ x <= kernel_end + o
            BY SMTT(30), <3>2, <4>1
        <5>2. o \in Nat /\ kernel_end \in Nat
            BY <1>1, <1>2
        <5>3. next \in Nat /\ o <= next
            BY <1>6
        <5> QED BY <5>1, <5>2, <5>3
      <4>3. regions'[r].start + regions'[r].bytes = x
          BY <3>2
      <4> HIDE DEF x, o, next
      <4>4. x <= kernel_end + next
          BY <4>2
      <4> QED BY <4>3, <4>4 DEF next
    <3>4. \A q \in 1 .. r - 1 : Span(regions'[r].start, regions'[r].bytes)
                                   \cap Span(regions'[q].start, regions'[q].bytes) = {}
        BY <2>1, <2>2, <3>1
    <3> QED BY <1>6, <3>2, <3>3, <3>4
  <2>3. CASE r = n + 1
    <3>1. ASSUME NEW s \in 1 .. n
          PROVE  Span(dest, size) \cap Span(regions[s].start, regions[s].bytes) = {}
      <4>1. /\ regions[s].start \in Nat /\ regions[s].bytes \in Nat
            /\ regions[s].start + regions[s].bytes <= kernel_end + kernel_end_offset
          BY <2>1 DEF Region
      <4> QED BY SMTT(30), <1>1, <1>2, <1>3, <1>6, <4>1 DEF Span
    <3>2. \A s \in 1 .. r - 1 : s \in 1 .. n
        BY <1>4, <2>3
    <3>3. regions'[r].start = dest /\ regions'[r].bytes = size
        BY <1>5, <2>3
    <3>4. dest >= kernel_end
        BY <1>1, <1>2, <1>3, <1>6
    <3>5. dest + size <= kernel_end + kernel_end_offset'
        BY <1>2, <1>6
    <3>6. \A s \in 1 .. r - 1 : regions'[s] = regions[s]
        BY <1>4, <3>2
    <3> QED BY <1>6, <3>1, <3>2, <3>3, <3>4, <3>5, <3>6
  <2> QED BY <1>4, <2>2, <2>3
<1> QED BY <1>3, <1>4, <1>5, <1>6, <1>7, <1>2 DEF dest

\* Moving a module harms none that was moved before, and one that is still to
\* be moved only if it is counted as harmed.
LEMMA ModuleStep ==
    ASSUME BootInv, multiboot_parse_module
    PROVE  BootInv'
<1> DEFINE t == bootmem.tag
           src == tags[t].start
           n == tags[t].size
           dest == kernel_end + OffsetOfNext
           later == {u \in Modules : u > t}
<1>1. /\ bootmem.at = "tags" /\ More /\ tags[t].type = 3 /\ dest + n <= MemSize
      /\ arch_kernel_alloc(n)
      /\ mem' = mem_copy(src, dest, n)
      /\ tags' = [tags EXCEPT ![t].start = dest]
      /\ harmed' = (harmed
            \cup {u \in later : Span(dest, n) \cap Span(tags[u].start, tags[u].size) # {}})
            \cup (IF src < dest /\ dest < src + n THEN {t} ELSE {})
      /\ bootmem' = [bootmem EXCEPT !.tag = @ + 1]
      /\ UNCHANGED <<pool, loaded>>
    BY DEF multiboot_parse_module, NextTag
<1>2. BootType /\ TagsKept /\ MovedInside /\ ModulesIntact
    BY DEF BootInv
<1>3. /\ t \in Nat /\ t <= Len(tags) /\ Len(tags) \in Nat /\ Len(loaded) = Len(tags)
      /\ \A u \in 1 .. Len(tags) : tags[u] \in Tag /\ loaded[u] \in Tag
    BY <1>1, <1>2, ElementOfSeq, LenProperties DEF BootType, More
<1>4. bootmem'.tag = t + 1 /\ bootmem'.at = "tags"
      /\ bootmem' \in [at : {"loader", "tags", "kmem", "ready"}, tag : Nat]
    BY <1>1, <1>2 DEF BootType
<1>5. t \in 1 .. Len(tags)
  <2>1. tags \in Seq(Tag)
      BY <1>2 DEF BootType
  <2>2. t # 0
    BY <1>1, <1>2 DEF BootType
  <2> QED BY <1>3, <2>2
<1>6. /\ src \in Nat /\ n \in Nat /\ src = loaded[t].start /\ n = loaded[t].size
      /\ t \in Modules /\ t \in ModulesIn(loaded)
    BY <1>1, <1>2, <1>3, <1>5 DEF TagsKept, Tag, Modules, ModulesIn
<1>7. /\ loaded \in Tags /\ src + n <= MemSize
      /\ src >= kernel_end \/ src + n <= kernel_end
  <2>1. loaded \in Tags
      BY <1>2, <1>3, <1>5 DEF BootType
  <2> QED BY <1>6, <2>1, LoaderAssumption
<1>8. /\ kernel_end_offset' \in Nat /\ kernel_end_offset' >= ARCH_PAGE_SIZE
      /\ kernel_end_offset' >= kernel_end_offset
      /\ dest \in Nat /\ dest >= kernel_end + 2 * kernel_end_offset
      /\ dest + n <= kernel_end + kernel_end_offset'
      /\ regions' \in Seq(Region) /\ RegionsApart'
    BY <1>1, <1>6, AllocStep
<1>9. /\ kernel_end \in Nat \ {0} /\ ARCH_PAGE_SIZE \in Nat \ {0} /\ MemSize \in Nat
      /\ kernel_end_offset \in Nat /\ mem \in [Memory -> Content]
    BY <1>2, BootAssumption DEF BootType
<1>10. /\ mem' \in [Memory -> Content]
       /\ \A c \in Memory \ Span(dest, n) : mem'[c] = mem[c]
       /\ ~(src < dest /\ dest < src + n) =>
             \A i \in 0 .. n - 1 : mem'[dest + i] = mem[src + i]
  <2>1. src \in Nat /\ dest \in Nat /\ n \in Nat
      BY <1>6, <1>8
  <2>2. src + n <= MemSize /\ dest + n <= MemSize
      BY <1>1, <1>7
  <2>3. mem' = mem_copy(src, dest, n)
      BY <1>1
  <2> HIDE DEF src, dest, n
  <2>4. IsCopy(mem', src, dest, n)
      BY <1>9, <2>1, <2>2, <2>3, CopyCells
  <2> QED BY <2>4 DEF IsCopy
<1>11. /\ tags' \in Seq(Tag) /\ Len(tags') = Len(tags)
       /\ tags'[t].start = dest /\ tags'[t].size = n /\ tags'[t].type = 3
       /\ \A u \in 1 .. Len(tags) : u # t => tags'[u] = tags[u]
  <2> DEFINE moved == [tags[t] EXCEPT !.start = dest]
  <2>1. moved \in Tag /\ moved.start = dest /\ moved.size = n /\ moved.type = 3
      BY <1>1, <1>3, <1>5, <1>8 DEF Tag
  <2>2. tags \in Seq(Tag) /\ tags' = [tags EXCEPT ![t] = moved]
      BY <1>1, <1>2 DEF BootType
  <2> HIDE DEF moved, dest, n, t
  <2>3. /\ tags' \in Seq(Tag) /\ Len(tags') = Len(tags) /\ tags'[t] = moved
        /\ \A u \in 1 .. Len(tags) : u # t => tags'[u] = tags[u]
      BY <1>5, <2>1, <2>2, ExceptSeq
  <2> QED BY <2>1, <2>3
<1>12. Modules' = Modules
  <2>1. \A u \in 1 .. Len(tags) : tags'[u].type = tags[u].type
      BY <1>1, <1>11
  <2> QED BY <1>11, <2>1 DEF Modules, ModulesIn
<1>13. Modules \subseteq 1 .. Len(tags) /\ Moved' = Moved \cup {t}
  <2>1. Modules \subseteq 1 .. Len(tags)
      BY DEF Modules, ModulesIn
  <2>2. \A u \in Modules : u < t + 1 <=> u < t \/ u = t
      BY <1>3, <2>1
  <2> QED BY <1>4, <1>6, <1>12, <2>1, <2>2 DEF Moved
<1>14. BootType'
    BY <1>1, <1>2, <1>4, <1>8, <1>10, <1>11 DEF BootType
<1>15. TagsKept'
  <2> SUFFICES ASSUME NEW u \in 1 .. Len(tags)
               PROVE  /\ tags'[u].type = loaded[u].type /\ tags'[u].size = loaded[u].size
                      /\ u >= t + 1 => tags'[u].start = loaded[u].start
      BY <1>1, <1>4, <1>11 DEF TagsKept
  <2>1. CASE u = t
      BY <1>1, <1>2, <1>3, <1>5, <1>6, <1>11, <2>1 DEF TagsKept
  <2>2. CASE u # t
      BY <1>2, <1>3, <1>11, <2>2 DEF TagsKept
  <2> QED BY <2>1, <2>2
<1>16. MovedInside'
  <2>1. ASSUME NEW u \in Moved
        PROVE  /\ tags'[u].start + tags'[u].size <= kernel_end + kernel_end_offset'
               /\ tags'[u].start + tags'[u].size <= MemSize
    <3>1. u \in 1 .. Len(tags) /\ u # t
        BY <1>3, <1>13 DEF Moved
    <3>2. tags'[u] = tags[u] /\ tags[u].start \in Nat /\ tags[u].size \in Nat
        BY <1>3, <1>11, <3>1 DEF Tag
    <3>3. tags[u].start + tags[u].size <= kernel_end + kernel_end_offset
          /\ tags[u].start + tags[u].size <= MemSize
        BY <1>2 DEF MovedInside
    <3> QED BY SMTT(30), <1>8, <1>9, <3>2, <3>3
  <2>2. /\ tags'[t].start + tags'[t].size <= kernel_end + kernel_end_offset'
        /\ tags'[t].start + tags'[t].size <= MemSize
      BY <1>1, <1>8, <1>11
  <2> QED BY <1>8, <1>13, <2>1, <2>2 DEF MovedInside
<1>17. ModulesIntact'
  <2> SUFFICES ASSUME NEW u \in Modules \ harmed' PROVE Intact(u)'
      BY <1>12 DEF ModulesIntact
  <2>1. u \in 1 .. Len(tags) /\ u \in Modules \ harmed /\ tags[u] \in Tag
      BY <1>1, <1>3, <1>13
  <2>2. Intact(u)
      BY <1>1, <1>2, <2>1 DEF ModulesIntact
  <2>3. tags[u].start \in Nat /\ tags[u].size \in Nat
      BY <2>1 DEF Tag
  <2>4. CASE u = t
    <3>1. ~(src < dest /\ dest < src + n)
        BY <1>1, <2>4
    <3>2. \A i \in 0 .. n - 1 : mem[src + i] = <<t, i>>
        BY <2>2, <2>4 DEF Intact
    <3> HIDE DEF src, dest, n, t
    <3> QED BY <1>10, <1>11, <2>4, <3>1, <3>2 DEF Intact
  <2>5. CASE u # t
    <3>1. tags'[u] = tags[u]
        BY <1>11, <2>1, <2>5
    <3>2. ASSUME NEW i \in 0 .. tags[u].size - 1
          PROVE  tags[u].start + i \in Memory \ Span(dest, n)
      <4>1. CASE u < t
        <5>1. tags[u].start + tags[u].size <= kernel_end + kernel_end_offset
              /\ tags[u].start + tags[u].size <= MemSize
            BY <1>2, <2>1, <4>1 DEF MovedInside, Moved
        <5>2. dest \in Nat /\ n \in Nat /\ dest >= kernel_end + kernel_end_offset
            BY <1>6, <1>8, <1>9
        <5> DEFINE a == tags[u].start
                   z == tags[u].size
        <5>3. a \in Nat /\ z \in Nat /\ i \in 0 .. z - 1 /\ a + z <= MemSize
              /\ a + z <= kernel_end + kernel_end_offset
            BY <2>3, <5>1
        <5> HIDE DEF dest, n, a, z
        <5>4. a + i \in Memory \ Span(dest, n)
            BY <1>9, <5>2, <5>3 DEF Memory, Span
        <5> QED BY <5>4 DEF a
      <4>2. CASE u > t
        <5>1. Span(dest, n) \cap Span(tags[u].start, tags[u].size) = {}
            BY <1>1, <2>1, <4>2
        <5>2. u \in ModulesIn(loaded) /\ tags[u].start = loaded[u].start
              /\ tags[u].size = loaded[u].size
            BY <1>2, <1>3, <2>1, <4>2 DEF TagsKept, Modules, ModulesIn
        <5>3. tags[u].start + tags[u].size <= MemSize
            BY <1>7, <5>2, LoaderAssumption
        <5>4. tags[u].start + i \in Memory /\ tags[u].start + i \in Span(tags[u].start, tags[u].size)
          <6> DEFINE a == tags[u].start
                     z == tags[u].size
          <6>1. a \in Nat /\ z \in Nat /\ i \in 0 .. z - 1 /\ a + z <= MemSize
              BY <2>3, <5>3
          <6> HIDE DEF a, z
          <6>2. a + i \in Memory /\ a + i \in Span(a, z)
              BY <1>9, <6>1 DEF Memory, Span
          <6> QED BY <6>2 DEF a, z
        <5> QED BY <5>1, <5>4
      <4> QED BY <1>3, <2>1, <2>5, <4>1, <4>2
    <3> HIDE DEF dest, n, t
    <3> QED BY <1>10, <2>2, <3>1, <3>2 DEF Intact
  <2> QED BY <2>4, <2>5
<1>18. SingleUnharmed'
  <2> SUFFICES ASSUME Cardinality(Modules) = 1,
                      \A u \in Modules : loaded[u].start % ARCH_PAGE_SIZE = 0
               PROVE  harmed' = {}
      BY <1>1, <1>12 DEF SingleUnharmed
  <2>1. harmed = {}
      BY DEF BootInv, SingleUnharmed
  <2>2. Modules = {t}
    <3>1. IsFiniteSet(1 .. Len(tags))
      <4>1. 1 \in Int /\ Len(tags) \in Int
          BY <1>3
      <4> QED BY <4>1, FS_Interval
    <3>2. IsFiniteSet(Modules)
        BY <1>13, <3>1, FS_Subset
    <3>3. \E x : Modules = {x}
        BY <3>2, FS_Singleton
    <3> QED BY <1>6, <3>3
  <2>3. Moved = {} /\ later = {}
      BY <1>3, <2>2 DEF Moved
  <2>4. kernel_end_offset = 0
      BY <1>1, <1>2, <2>3 DEF MovedInside
  <2>5. dest = ceiling(kernel_end, ARCH_PAGE_SIZE)
    <3>1. kernel_end \in Nat /\ kernel_end + 0 = kernel_end
        BY <1>9
    <3>2. ceiling(kernel_end, ARCH_PAGE_SIZE) \in Nat
        BY <1>9, <3>1, Ceiling
    <3> QED BY <1>9, <2>4, <3>1, <3>2 DEF OffsetOfNext
  <2>6. src % ARCH_PAGE_SIZE = 0
      BY <1>6
  <2> HIDE DEF src, dest, n
  <2>7. ~(src < dest /\ dest < src + n)
    <3>1. CASE src >= kernel_end
      <4>1. src >= ceiling(kernel_end, ARCH_PAGE_SIZE)
          BY <1>6, <1>9, <2>6, <3>1, CeilingLeast
      <4> QED BY <1>6, <1>8, <2>5, <4>1
    <3>2. CASE src + n <= kernel_end
      <4>1. dest >= kernel_end /\ dest \in Nat /\ src \in Nat /\ n \in Nat
          BY <1>6, <1>8, <1>9
      <4>2. kernel_end \in Nat
          BY BootAssumption
      <4> QED BY <3>2, <4>1, <4>2
    <3> QED BY <1>7, <3>1, <3>2
  <2>8. harmed' = harmed
    <3> HIDE DEF later
    <3> QED BY <1>1, <2>3, <2>7
  <2> QED BY <2>1, <2>8
<1>19. HeapInside'
    BY <1>4 DEF HeapInside
<1> QED BY <1>8, <1>14, <1>15, <1>16, <1>17, <1>18, <1>19 DEF BootInv

\* The numbers of pool_construct: blocks and map fit into what it was given
\* and the padding it took from below.
LEMMA PoolNumbers ==
    ASSUME NEW start \in Nat \ {0}, NEW size \in Nat, NEW bs \in Nat \ {0}, bs < size
    PROVE  LET diff  == start - ceiling(start, POOL_ALIGN)
               body  == start + diff
               count == (4 * (size - diff)) \div (4 * bs + 1)
           IN  /\ count \in Nat \ {0} /\ bs * count \in Nat
               /\ body \in Int /\ body > start - POOL_ALIGN
               /\ body + bs * count + (count + 3) \div 4 <= start + size
<1> DEFINE diff  == start - ceiling(start, POOL_ALIGN)
           count == (4 * (size - diff)) \div (4 * bs + 1)
           p == bs * count
           d == 4 * bs + 1
           all == 4 * (size - diff)
<1>1. POOL_ALIGN \in Nat \ {0}
    BY BootAssumption
<1>2. /\ ceiling(start, POOL_ALIGN) \in Nat /\ ceiling(start, POOL_ALIGN) >= start
      /\ ceiling(start, POOL_ALIGN) < start + POOL_ALIGN
    BY <1>1, Ceiling
<1>3. diff \in Int /\ diff <= 0 /\ diff > 0 - POOL_ALIGN
    BY <1>1, <1>2
<1> HIDE DEF diff
<1>4. all \in Nat /\ d \in Nat \ {0} /\ all >= d
    BY <1>3
<1>5. count \in Nat /\ d * count <= all /\ count # 0
  <2>1. count = all \div d
      OBVIOUS
  <2> HIDE DEF all, d, count
  <2>2. count \in Nat /\ d * count <= all /\ all < d * count + d
      BY <1>4, <2>1
  <2>3. ASSUME count = 0 PROVE FALSE
    <3>1. d * count = 0
        BY <1>4, <2>3
    <3> QED BY <1>4, <2>2, <3>1
  <2> QED BY <2>2, <2>3
<1> HIDE DEF count
<1>6. p \in Nat
    BY <1>5
<1>7. d * count = 4 * p + count
    BY <1>5
<1>8. 4 * p + count <= 4 * (size - diff)
  <2> HIDE DEF p, d
  <2> QED BY <1>5, <1>7
<1>9. p + (count + 3) \div 4 <= size - diff
  <2> HIDE DEF p
  <2> QED BY <1>3, <1>5, <1>6, <1>8
<1> HIDE DEF p
<1>10. (count + 3) \div 4 \in Int
    BY <1>5
<1>11. start + diff + p + (count + 3) \div 4 <= start + size
    BY <1>3, <1>6, <1>9, <1>10
<1>12. start + diff \in Int /\ start + diff > start - POOL_ALIGN
    BY <1>1, <1>3
<1> QED BY <1>5, <1>6, <1>11, <1>12 DEF count, p, diff

\* Laying out the heap and clearing its map harms no module that was moved.
LEMMA KmemStep ==
    ASSUME BootInv, kmem_init
    PROVE  BootInv'
<1> DEFINE start == kernel_end + OffsetOfNext
           diff == start - ceiling(start, POOL_ALIGN)
           low == start + diff
           count == (4 * (KMEM_SIZE - diff)) \div (4 * KMEM_BLOCK_SIZE + 1)
           map == low + KMEM_BLOCK_SIZE * count
           n == Len(regions)
<1>1. /\ bootmem.at = "kmem" /\ arch_kernel_alloc(KMEM_SIZE)
      /\ bootmem' = [bootmem EXCEPT !.at = "ready"]
      /\ UNCHANGED <<tags, loaded, harmed>>
      /\ pool' = [body |-> low, block_count |-> count, map |-> map]
      /\ mem' = [c \in DOMAIN mem |-> IF c \in Span(map, count) THEN Nothing ELSE mem[c]]
    BY DEF kmem_init, pool_construct
<1>2. BootType /\ TagsKept /\ RegionsApart /\ MovedInside /\ ModulesIntact /\ SingleUnharmed
    BY DEF BootInv
<1>3. /\ KMEM_SIZE \in Nat /\ KMEM_BLOCK_SIZE \in Nat \ {0} /\ KMEM_BLOCK_SIZE < KMEM_SIZE
      /\ POOL_ALIGN \in Nat \ {0} /\ POOL_ALIGN <= ARCH_PAGE_SIZE
      /\ kernel_end \in Nat \ {0} /\ ARCH_PAGE_SIZE \in Nat \ {0}
      /\ kernel_end_offset \in Nat
    BY <1>2, BootAssumption DEF BootType
<1>4. /\ kernel_end_offset' \in Nat /\ kernel_end_offset' >= kernel_end_offset
      /\ start \in Nat /\ start >= kernel_end + 2 * kernel_end_offset
      /\ regions' \in Seq(Region) /\ Len(regions') = n + 1
      /\ \A r \in 1 .. n : regions'[r] = regions[r]
      /\ regions'[Len(regions')].start = start
      /\ regions'[Len(regions')].bytes >= KMEM_SIZE
      /\ RegionsApart'
    BY <1>1, <1>3, AllocStep
<1>5. start \in Nat \ {0}
    BY <1>3, <1>4
<1> HIDE DEF start
<1>6. /\ count \in Nat \ {0} /\ KMEM_BLOCK_SIZE * count \in Nat
      /\ low \in Int /\ low > start - POOL_ALIGN
      /\ low + KMEM_BLOCK_SIZE * count + (count + 3) \div 4 <= start + KMEM_SIZE
    BY <1>3, <1>5, PoolNumbers
<1>7. pool'.body = low /\ pool'.block_count = count /\ pool'.map = map
    BY <1>1
<1> HIDE DEF low, count
<1>0. kernel_end_offset >= ARCH_PAGE_SIZE => low >= kernel_end + kernel_end_offset
  <2> DEFINE e == kernel_end
             o == kernel_end_offset
             page == ARCH_PAGE_SIZE
             align == POOL_ALIGN
  <2>1. /\ e \in Nat /\ o \in Nat /\ page \in Nat /\ align \in Nat /\ start \in Nat /\ low \in Int
        /\ align <= page /\ start >= e + 2 * o /\ low > start - align
      BY <1>3, <1>4, <1>6
  <2> HIDE DEF e, o, page, align
  <2>2. o >= page => low >= e + o
      BY <2>1
  <2> QED BY <2>2 DEF e, o, page
<1>8. map \in Int /\ map >= low
    BY <1>6
<1> HIDE DEF map
<1>9. bootmem' \in [at : {"loader", "tags", "kmem", "ready"}, tag : Nat]
      /\ bootmem'.at = "ready" /\ bootmem'.tag = bootmem.tag
    BY <1>1, <1>2 DEF BootType
<1>10. Modules' = Modules /\ Moved' = Moved
    BY <1>1, <1>9 DEF Modules, Moved
<1>11. mem \in [Memory -> Content] /\ mem' \in [Memory -> Content]
       /\ \A c \in Memory : c < low => mem'[c] = mem[c]
  <2>1. Nothing \in Content
      BY DEF Nothing, Content
  <2>2. mem \in [Memory -> Content] /\ DOMAIN mem = Memory
      BY <1>2 DEF BootType
  <2>3. \A c \in Memory : c < low => ~(c \in Span(map, count))
      BY <1>6, <1>8 DEF Memory, Span
  <2>4. mem' = [c \in Memory |-> IF c \in Span(map, count) THEN Nothing ELSE mem[c]]
      BY <1>1, <2>2
  <2> QED BY <2>1, <2>2, <2>3, <2>4
<1>12. n \in Nat /\ Len(tags) \in Nat
    BY <1>2, LenProperties DEF BootType
<1>13. BootType'
  <2>1. bootmem'.at # "loader" /\ bootmem'.at # "tags"
      BY <1>9
  <2> QED BY <1>1, <1>2, <1>4, <1>9, <1>11, <2>1 DEF BootType
<1>14. TagsKept'
    BY <1>1, <1>2, <1>9 DEF TagsKept
<1>15. \A t \in Moved : /\ t \in 1 .. Len(tags)
                        /\ tags[t].start \in Nat /\ tags[t].size \in Nat
  <2> SUFFICES ASSUME NEW t \in Moved
               PROVE  t \in 1 .. Len(tags) /\ tags[t].start \in Nat /\ tags[t].size \in Nat
      OBVIOUS
  <2>1. t \in 1 .. Len(tags)
      BY DEF Moved, Modules, ModulesIn
  <2>2. tags[t] \in Tag
      BY <1>2, <2>1, ElementOfSeq DEF BootType
  <2> QED BY <2>1, <2>2 DEF Tag
<1>16. /\ kernel_end + kernel_end_offset <= kernel_end + kernel_end_offset'
       /\ kernel_end + kernel_end_offset \in Nat /\ kernel_end + kernel_end_offset' \in Nat
       /\ kernel_end_offset >= ARCH_PAGE_SIZE => kernel_end_offset' >= ARCH_PAGE_SIZE
  <2>1. kernel_end_offset' \in Nat /\ kernel_end_offset' >= kernel_end_offset
      BY <1>4
  <2>2. ASSUME NEW e \in Nat, e >= kernel_end_offset
        PROVE  /\ kernel_end + kernel_end_offset <= kernel_end + e
               /\ kernel_end + kernel_end_offset \in Nat /\ kernel_end + e \in Nat
               /\ kernel_end_offset >= ARCH_PAGE_SIZE => e >= ARCH_PAGE_SIZE
      BY <1>3, <2>2
  <2> QED BY <2>1, <2>2
<1>17. MovedInside'
  <2> SUFFICES ASSUME NEW t \in Moved
               PROVE  /\ tags[t].start + tags[t].size <= kernel_end + kernel_end_offset'
                      /\ tags[t].start + tags[t].size <= MemSize
                      /\ kernel_end_offset' >= ARCH_PAGE_SIZE
      BY <1>1, <1>9, <1>10 DEF MovedInside
  <2>1. /\ tags[t].start + tags[t].size <= kernel_end + kernel_end_offset
        /\ tags[t].start + tags[t].size <= MemSize
        /\ kernel_end_offset >= ARCH_PAGE_SIZE
      BY <1>2 DEF MovedInside
  <2>2. tags[t].start \in Nat /\ tags[t].size \in Nat
      BY <1>15
  <2> DEFINE top == tags[t].start + tags[t].size
  <2>3. top \in Nat /\ top <= kernel_end + kernel_end_offset
      BY <2>1, <2>2
  <2> HIDE DEF top
  <2>4. top <= kernel_end + kernel_end_offset' /\ kernel_end_offset' >= ARCH_PAGE_SIZE
    <3>1. kernel_end_offset >= ARCH_PAGE_SIZE
        BY <2>1
    <3> QED BY <1>16, <2>3, <3>1
  <2> QED BY <2>1, <2>4 DEF top
<1>18. ModulesIntact'
  <2> SUFFICES ASSUME NEW t \in Moved, t \in Modules \ harmed PROVE Intact(t)'
      BY <1>1, <1>9, <1>10 DEF ModulesIntact
  <2>1. Intact(t)
      BY <1>2 DEF ModulesIntact
  <2>2. /\ tags[t].start + tags[t].size <= kernel_end + kernel_end_offset
        /\ tags[t].start + tags[t].size <= MemSize
        /\ kernel_end_offset >= ARCH_PAGE_SIZE
      BY <1>2 DEF MovedInside
  <2> DEFINE a == tags[t].start
             z == tags[t].size
  <2>3. a \in Nat /\ z \in Nat /\ a + z <= MemSize /\ a + z <= kernel_end + kernel_end_offset
      BY <1>15, <2>2
  <2> HIDE DEF a, z
  <2>4. low >= kernel_end + kernel_end_offset
      BY <1>3, <1>4, <1>6, <2>2
  <2>5. MemSize \in Nat
      BY BootAssumption
  <2>6. \A i \in 0 .. z - 1 : a + i \in Memory /\ a + i < low
      BY <1>3, <1>6, <2>3, <2>4, <2>5 DEF Memory
  <2>7. \A i \in 0 .. z - 1 : mem'[a + i] = mem[a + i]
      BY <1>11, <2>6
  <2>8. \A i \in 0 .. z - 1 : mem[a + i] = <<t, i>>
      BY <2>1 DEF Intact, a, z
  <2>9. a' = a /\ z' = z
      BY <1>1 DEF a, z
  <2> QED BY <1>1, <2>7, <2>8 DEF Intact, a, z
<1>19. SingleUnharmed'
    BY <1>1, <1>2, <1>10 DEF SingleUnharmed
<1>20. HeapInside'
  <2> DEFINE len == KMEM_BLOCK_SIZE * count + (count + 3) \div 4
             last == regions'[n + 1]
  <2>1. /\ len \in Int /\ low + len <= start + KMEM_SIZE
        /\ KMEM_BLOCK_SIZE * count \in Nat /\ (count + 3) \div 4 \in Nat
      BY <1>6
  <2>2. PoolOwn' = Span(low, len) /\ PoolCells' = PoolOwn' \cup Span(map, count)
      BY <1>7 DEF PoolOwn, PoolCells
  <2> HIDE DEF len
  <2>8. \A c \in PoolCells' : c \in Int /\ c >= low
      BY <1>6, <1>8, <2>1, <2>2 DEF Span
  <2>3. last.start = start /\ last.bytes >= KMEM_SIZE /\ last.bytes \in Nat
    <3>1. last \in Region
        BY <1>4, <1>12, ElementOfSeq
    <3> QED BY <1>4, <3>1 DEF Region
  <2> HIDE DEF last
  <2>4. Span(low, len) \subseteq Span(last.start - POOL_ALIGN + 1, last.bytes + POOL_ALIGN - 1)
    <3> SUFFICES ASSUME NEW c \in low .. low + len - 1
                 PROVE  c \in start - POOL_ALIGN + 1 .. (start - POOL_ALIGN + 1)
                                                         + (last.bytes + POOL_ALIGN - 1) - 1
        BY <2>3 DEF Span
    <3> DEFINE bytes == last.bytes
    <3>1. /\ low \in Int /\ len \in Int /\ start \in Nat /\ low > start - POOL_ALIGN
          /\ POOL_ALIGN \in Nat /\ KMEM_SIZE \in Nat /\ bytes \in Nat /\ bytes >= KMEM_SIZE
          /\ low + len <= start + KMEM_SIZE
        BY <1>3, <1>4, <1>6, <2>1, <2>3
    <3> HIDE DEF bytes
    <3>2. c \in start - POOL_ALIGN + 1 .. (start - POOL_ALIGN + 1) + (bytes + POOL_ALIGN - 1) - 1
        BY <3>1
    <3> QED BY <3>2 DEF bytes
  <2>5. ASSUME NEW r \in 1 .. n
        PROVE  PoolCells' \cap Span(regions'[r].start, regions'[r].bytes) = {}
    <3>1. regions'[r] = regions[r] /\ regions[r] \in Region
          /\ regions[r].start + regions[r].bytes <= kernel_end + kernel_end_offset
          /\ kernel_end_offset >= ARCH_PAGE_SIZE
        BY <1>2, <1>4, ElementOfSeq DEF BootType, RegionsApart
    <3>2. low >= kernel_end + kernel_end_offset
        BY <1>0, <3>1
    <3>3. regions[r].start \in Nat /\ regions[r].bytes \in Nat
        BY <3>1 DEF Region
    <3> DEFINE a == regions[r].start
               z == regions[r].bytes
    <3>4. a \in Nat /\ z \in Nat /\ a + z <= low
      <4>1. a \in Nat /\ z \in Nat /\ a + z <= kernel_end + kernel_end_offset
          BY <3>1, <3>3
      <4> HIDE DEF a, z
      <4> QED BY <1>3, <1>6, <3>2, <4>1
    <3> HIDE DEF a, z
    <3>5. PoolCells' \cap Span(a, z) = {}
        BY <1>6, <2>8, <3>4 DEF Span
    <3> QED BY <3>1, <3>5 DEF a, z
  <2>6. (n + 1) - 1 = n
      BY <1>12
  <2>7. pool'.block_count > 0
      BY <1>6, <1>7
  <2>9. HeapCells' = Span(last.start - POOL_ALIGN + 1, last.bytes + POOL_ALIGN - 1)
      BY <1>4 DEF HeapCells, last
  <2> QED BY <1>4, <2>2, <2>4, <2>5, <2>6, <2>7, <2>9 DEF HeapInside, last
<1> QED BY <1>4, <1>13, <1>14, <1>17, <1>18, <1>19, <1>20 DEF BootInv

LEMMA BootKept == BootInv /\ [bootmem_next]_bootmem_vars => BootInv'
<1> SUFFICES ASSUME BootInv, [bootmem_next]_bootmem_vars PROVE BootInv'
    OBVIOUS
<1>1. CASE \E t \in Tags, magic \in BOOLEAN : load(t, magic)
    BY <1>1, LoadStep
<1>2. CASE multiboot_parse_other \/ multiboot_done
    BY <1>2, PassStep
<1>3. CASE multiboot_parse_module
    BY <1>3, ModuleStep
<1>4. CASE kmem_init
    BY <1>4, KmemStep
<1>5. CASE UNCHANGED bootmem_vars
    BY <1>5 DEF bootmem_vars, BootInv, BootType, TagsKept, RegionsApart, MovedInside,
                ModulesIntact, Intact, SingleUnharmed, HeapInside, Modules, Moved, PoolOwn, PoolCells,
                HeapCells
<1> QED BY <1>1, <1>2, <1>3, <1>4, <1>5 DEF bootmem_next

\* BootLayout for every placement of the kernel and of the modules, every
\* page size and every size of the heap: no allocation overlaps another, a
\* module that no move has overwritten is where its tag says, whole, the
\* heap's blocks and map keep within its allocation, and nothing that
\* pool_construct clears was allocated to anybody else.
THEOREM UnitBootLayout == bootmem_spec => []BootLayout
<1>1. BootInv => BootLayout
  <2> SUFFICES ASSUME BootInv PROVE BootLayout
      OBVIOUS
  <2>1. \A t \in Moved \ harmed : Intact(t)
      BY DEF BootInv, ModulesIntact, Moved
  <2> QED BY <2>1 DEF BootInv, BootLayout, RegionsApart, Intact, SingleUnharmed, HeapInside
<1> QED BY <1>1, BootMemStart, BootKept, PTL DEF bootmem_spec
=============================================================================
