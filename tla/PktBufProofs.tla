---------------------------- MODULE PktBufProofs ----------------------------
(***************************************************************************)
(* The packet buffer is a bounded queue of consecutive sequence numbers,   *)
(* for every capacity, every width of its counters and every sequence      *)
(* space.                                                                  *)
(***************************************************************************)
EXTENDS PktBufOps, RingLemmas, SequenceTheorems

\* The slots of this ring hold nothing but their sequence number.
Slots == [seq : SeqNums]

IInv == TypeOK /\ Consecutive(buf)

LEMMA SlotsAreSlots == SlotSet(Slots) /\ \A s \in SeqNums : [seq |-> s] \in Slots
BY DEF SlotSet, Slots

-----------------------------------------------------------------------------
(***************************************************************************)
(* The inductive invariant                                                 *)
(***************************************************************************)

LEMMA InitInvariant == Init => IInv
PROOF
  <1> SUFFICES ASSUME Init PROVE IInv
    OBVIOUS
  <1>1. 0 \in SeqNums /\ 0 \in 0 .. IdxSpace - 1
    BY SeqSpaceAssumption, IdxSpaceFactor DEF SeqNums
  <1>2. TypeOK
    BY <1>1 DEF Init, TypeOK, pktbuf_new, Blank
  <1>3. buf \in Rings(Slots) /\ pktbuf_empty(buf)
    BY <1>2 DEF Init, TypeOK, Rings, Slots, pktbuf_new, pktbuf_empty
  <1>4. pktbuf_used(buf) = 0
    BY <1>3, RingCounters
  <1> QED
    BY <1>2, <1>4, IdxSpaceFactor DEF IInv, Consecutive

\* An enqueue appends the number that follows the newest one.
LEMMA EnqueueKeepsInvariant ==
  ASSUME IInv, NEW s \in SeqNums, Enqueue(s)
  PROVE  IInv' /\ (pktbuf_used(buf) > 0 => s = U8(SeqAt(buf, pktbuf_used(buf) - 1) + 1))
PROOF
  <1> DEFINE used == pktbuf_used(buf)
  <1>1. buf \in Rings(Slots) /\ Consecutive(buf)
    BY DEF IInv, TypeOK, Rings, Slots
  <1>2. /\ used \in Nat /\ used < Capacity /\ buf.first \in Int
        /\ buf.last = U32(buf.first + used)
        /\ (pktbuf_empty(buf) <=> used = 0)
    BY <1>1, RingCounters, IdxSpaceFactor DEF Enqueue, pktbuf_full
  <1>3. /\ buf' \in Rings(Slots)
        /\ pktbuf_used(buf') = used + 1
        /\ \A i \in 0 .. used - 1 : SeqAt(buf', i) = SeqAt(buf, i)
        /\ SeqAt(buf', used) = s
    BY <1>1, <1>2, SlotsAreSlots, EnqueueAppends DEF Enqueue, SeqAt
  <1>4. SeqAt(buf, 0) \in SeqNums /\ SeqAt(buf, 0) \in Int
    BY <1>1, SlotsAreSlots, SlotAtType, SeqSpaceAssumption DEF SeqNums
  <1> HIDE DEF used
  <1>5. ASSUME used > 0
        PROVE  s = U8(SeqAt(buf, 0) + used) /\ s = U8(SeqAt(buf, used - 1) + 1)
    <2>1. mask_index(buf.last - 1) = mask_index(buf.first + (used - 1))
      <3>1. buf.first + used \in Int /\ -1 \in Int
        BY <1>2
      <3>2. mask_index(U32(buf.first + used) + (-1)) = mask_index((buf.first + used) + (-1))
        BY <3>1, MaskOfSum
      <3>3. U32(buf.first + used) \in Int
        BY <3>1, U32Type
      <3>4. /\ U32(buf.first + used) + (-1) = buf.last - 1
            /\ (buf.first + used) + (-1) = buf.first + (used - 1)
        BY <1>2, <3>3
      <3> QED
        BY <3>2, <3>4
    <2>2. pktbuf_last(buf).seq = SeqAt(buf, used - 1)
      BY <2>1 DEF pktbuf_last, last_item, SeqAt, SlotAt
    <2>3. SeqAt(buf, used - 1) = U8(SeqAt(buf, 0) + (used - 1))
      BY <1>1, <1>2, <1>5 DEF Consecutive, used
    <2>4. /\ s = U8(SeqAt(buf, used - 1) + 1)
          /\ s = U8(U8(SeqAt(buf, 0) + (used - 1)) + 1)
      BY <1>2, <1>5, <2>2, <2>3 DEF Enqueue
    <2>5. SeqAt(buf, 0) + (used - 1) \in Int
      BY <1>2, <1>4
    <2>6. U8(U8(SeqAt(buf, 0) + (used - 1)) + 1) = U8((SeqAt(buf, 0) + (used - 1)) + 1)
      BY <2>5, U8Add
    <2>7. (SeqAt(buf, 0) + (used - 1)) + 1 = SeqAt(buf, 0) + used
      BY <1>2, <1>4
    <2> QED
      BY <2>4, <2>6, <2>7
  <1>6. ASSUME NEW i \in 0 .. pktbuf_used(buf') - 1
        PROVE  SeqAt(buf', i) = U8(SeqAt(buf', 0) + i)
    <2>1. CASE i \in 0 .. used - 1
      BY <1>1, <1>2, <1>3, <2>1 DEF Consecutive, used
    <2>2. CASE i = used /\ used > 0
      BY <1>2, <1>3, <1>5, <2>2
    <2>3. CASE i = used /\ used = 0
      <3>1. s + 0 = s /\ U8(s) = s
        BY U8Small, SeqSpaceAssumption DEF SeqNums
      <3> QED
        BY <1>3, <2>3, <3>1
    <2> QED
      BY <1>2, <1>3, <2>1, <2>2, <2>3
  <1>7. Consecutive(buf')
    BY <1>2, <1>3, <1>6, IdxSpaceFactor DEF Consecutive
  <1>8. ret' \in SeqNums
    BY DEF Enqueue
  <1>9. IInv'
    BY <1>3, <1>7, <1>8 DEF IInv, TypeOK, Rings, Slots, Consecutive, SeqAt, SlotAt, pktbuf_used
  <1> QED
    BY <1>5, <1>9 DEF used

\* A dequeue removes the oldest one.
LEMMA DequeueKeepsInvariant ==
  ASSUME IInv, Dequeue
  PROVE  IInv'
PROOF
  <1> DEFINE used == pktbuf_used(buf)
  <1>1. buf \in Rings(Slots) /\ Consecutive(buf) /\ ~pktbuf_empty(buf)
    BY DEF IInv, TypeOK, Rings, Slots, Dequeue
  <1>2. /\ used \in Nat /\ used > 0 /\ used <= Capacity
        /\ pktbuf_first(buf).seq = SeqAt(buf, 0)
    BY <1>1, RingCounters, IdxSpaceFactor DEF Consecutive, SeqAt
  <1>3. /\ buf' \in Rings(Slots)
        /\ pktbuf_used(buf') = used - 1
        /\ \A i \in Int : SeqAt(buf', i) = SeqAt(buf, i + 1)
    BY <1>1, <1>2, DequeueDrops DEF Dequeue, SeqAt
  <1>4. SeqAt(buf, 0) \in SeqNums /\ SeqAt(buf, 0) \in Int
    BY <1>1, SlotsAreSlots, SlotAtType, SeqSpaceAssumption DEF SeqNums
  <1> HIDE DEF used
  <1>5. ASSUME NEW i \in 0 .. pktbuf_used(buf') - 1
        PROVE  SeqAt(buf', i) = U8(SeqAt(buf', 0) + i)
    <2>1. i \in Nat /\ i + 1 \in 0 .. used - 1 /\ 0 + 1 \in 0 .. used - 1 /\ 0 + 1 = 1
      BY <1>2, <1>3
    <2>2. /\ SeqAt(buf', i) = U8(SeqAt(buf, 0) + (i + 1))
          /\ SeqAt(buf', 0) = U8(SeqAt(buf, 0) + 1)
      BY <1>1, <1>3, <2>1 DEF Consecutive, used
    <2>3. SeqAt(buf, 0) + 1 \in Int /\ i \in Int
      BY <1>4, <2>1
    <2>4. U8(U8(SeqAt(buf, 0) + 1) + i) = U8((SeqAt(buf, 0) + 1) + i)
      BY <2>3, U8Add
    <2>5. (SeqAt(buf, 0) + 1) + i = SeqAt(buf, 0) + (i + 1)
      BY <1>4, <2>1
    <2> QED
      BY <2>2, <2>4, <2>5
  <1>6. Consecutive(buf')
    BY <1>2, <1>3, <1>5, IdxSpaceFactor DEF Consecutive
  <1>7. ret' \in SeqNums
    BY <1>2, <1>4 DEF Dequeue
  <1> QED
    BY <1>3, <1>6, <1>7 DEF IInv, TypeOK, Rings, Slots, Consecutive, SeqAt, SlotAt, pktbuf_used

\* A slot that is asked for is returned with its number.
LEMMA SlotForKeepsInvariant ==
  ASSUME IInv, NEW s \in SeqNums, SlotFor(s)
  PROVE  IInv' /\ ret' = s
PROOF
  <1>1. buf \in Rings(Slots) /\ Consecutive(buf) /\ SlotOffset(buf, s) < Capacity
    BY DEF IInv, TypeOK, Rings, Slots, SlotFor
  <1>2. buf' \in Rings(Slots) /\ Consecutive(buf') /\ ret' = s
    BY <1>1, SlotsAreSlots, SlotForExtends DEF SlotFor
  <1> QED
    BY <1>2 DEF IInv, TypeOK, Rings, Slots, Consecutive, SeqAt, SlotAt, pktbuf_used

LEMMA NextInvariant == IInv /\ [Next]_vars => IInv'
PROOF
  <1> SUFFICES ASSUME IInv, [Next]_vars PROVE IInv'
    OBVIOUS
  <1>1. CASE Dequeue
    BY <1>1, DequeueKeepsInvariant
  <1>2. ASSUME NEW s \in SeqNums, Enqueue(s) PROVE IInv'
    BY <1>2, EnqueueKeepsInvariant
  <1>3. ASSUME NEW s \in SeqNums, SlotFor(s) PROVE IInv'
    BY <1>3, SlotForKeepsInvariant
  <1>4. CASE UNCHANGED vars
    BY <1>4 DEF vars, IInv, TypeOK, Consecutive, SeqAt, SlotAt, pktbuf_used
  <1> QED
    BY <1>1, <1>2, <1>3, <1>4 DEF Next

\* IInv is inductive: the sequence numbers in use are consecutive and no more
\* than the ring has slots, so that no operation meets a slot in use.
THEOREM PktBufInvariant == Spec => []IInv
PROOF
  BY InitInvariant, NextInvariant, PTL DEF Spec

\* The types of the ring and of what its functions return.
THEOREM PktBufTypeOK == Spec => []TypeOK
PROOF
  <1>1. IInv => TypeOK
    BY DEF IInv
  <1> QED
    BY <1>1, PktBufInvariant, PTL

\* pktbuf_slotfor_seq returns the slot of the number it was asked for, for
\* every ring and every width of its counters.
THEOREM PktBufSlotHasItsSeq == Spec => SlotHasItsSeq
PROOF
  <1>1. IInv /\ [Next]_vars => [\A s \in SeqNums : SlotFor(s) => ret' = s]_vars
    BY SlotForKeepsInvariant
  <1> QED
    BY <1>1, PktBufInvariant, PTL DEF Spec, SlotHasItsSeq

-----------------------------------------------------------------------------
(***************************************************************************)
(* The ring implements the queue                                           *)
(***************************************************************************)

\* The queue of a ring.
ContentsOf(b) == [i \in 1 .. pktbuf_used(b) |-> SeqAt(b, i - 1)]

LEMMA ContentsType ==
  ASSUME NEW b \in Rings(Slots)
  PROVE  /\ ContentsOf(b) \in Seq(SeqNums)
         /\ Len(ContentsOf(b)) = pktbuf_used(b) /\ pktbuf_used(b) \in Nat
         /\ \A i \in 1 .. pktbuf_used(b) : ContentsOf(b)[i] = SeqAt(b, i - 1)
         /\ ContentsOf(b) = << >> <=> pktbuf_empty(b)
PROOF
  <1> DEFINE used == pktbuf_used(b)
  <1>1. used \in Nat /\ (pktbuf_empty(b) <=> used = 0)
    BY RingCounters, IdxSpaceFactor
  <1>2. \A i \in 1 .. used : SeqAt(b, i - 1) \in SeqNums
    BY SlotsAreSlots, SlotAtType
  <1>3. ContentsOf(b) = [i \in 1 .. used |-> SeqAt(b, i - 1)]
    BY DEF ContentsOf
  <1> HIDE DEF used
  <1>4. ContentsOf(b) \in [1 .. used -> SeqNums]
    BY <1>2, <1>3
  <1>5. ContentsOf(b) \in Seq(SeqNums) /\ Len(ContentsOf(b)) = used
    BY <1>1, <1>4
  <1>6. ContentsOf(b) = << >> <=> used = 0
    BY <1>5, EmptySeq
  <1> QED
    BY <1>1, <1>3, <1>5, <1>6 DEF used

LEMMA ContentsIs ==
  ASSUME NEW b \in Rings(Slots)
  PROVE  [i \in 1 .. pktbuf_used(b) |-> b.head[mask_index(b.first + i - 1)].seq] = ContentsOf(b)
PROOF
  <1>1. b.first \in Int /\ pktbuf_used(b) \in Nat
    BY RingCounters, IdxSpaceFactor
  <1>2. \A i \in 1 .. pktbuf_used(b) : b.first + i - 1 = b.first + (i - 1)
    BY <1>1
  <1> QED
    BY <1>2 DEF ContentsOf, SeqAt, SlotAt

\* An enqueue appends to the queue.
LEMMA EnqueueImplements ==
  ASSUME IInv, NEW s \in SeqNums, Enqueue(s), Contents = ContentsOf(buf), Contents' = ContentsOf(buf')
  PROVE  Queue!Enqueue
PROOF
  <1> DEFINE used == pktbuf_used(buf)
             q == ContentsOf(buf)
             r == ContentsOf(buf')
  <1>1. buf \in Rings(Slots) /\ buf' \in Rings(Slots)
    BY EnqueueKeepsInvariant DEF IInv, TypeOK, Rings, Slots
  <1>2. /\ used \in Nat /\ used < Capacity
        /\ pktbuf_used(buf') = used + 1
        /\ \A i \in 0 .. used - 1 : SeqAt(buf', i) = SeqAt(buf, i)
        /\ SeqAt(buf', used) = s
    BY <1>1, SlotsAreSlots, RingCounters, EnqueueAppends, IdxSpaceFactor DEF Enqueue, pktbuf_full, SeqAt
  <1>3. /\ q \in Seq(SeqNums) /\ Len(q) = used
        /\ \A i \in 1 .. used : q[i] = SeqAt(buf, i - 1)
    BY <1>1, ContentsType
  <1>4. /\ r \in Seq(SeqNums) /\ Len(r) = used + 1
        /\ \A i \in 1 .. used + 1 : r[i] = SeqAt(buf', i - 1)
    BY <1>1, <1>2, ContentsType
  <1>5. q # << >> => used > 0
    BY <1>1, <1>2, RingCounters, ContentsType, IdxSpaceFactor
  <1>6. used > 0 => s = U8(SeqAt(buf, used - 1) + 1)
    BY EnqueueKeepsInvariant
  <1> HIDE DEF used, q, r
  <1>7. q # << >> => s = U8(q[Len(q)] + 1)
    BY <1>2, <1>3, <1>5, <1>6
  <1>8. r = Append(q, s)
    <2>1. Append(q, s) \in Seq(SeqNums) /\ Len(Append(q, s)) = Len(r)
      BY <1>3, <1>4
    <2>2. ASSUME NEW i \in 1 .. Len(r) PROVE r[i] = Append(q, s)[i]
      <3>1. CASE i \in 1 .. used
        BY <1>2, <1>3, <1>4, <3>1
      <3>2. CASE i = used + 1
        BY <1>2, <1>3, <1>4, <3>2
      <3>3. i \in Int /\ 1 <= i /\ i <= used + 1
        BY <1>2, <1>4, <2>2
      <3>4. i \in 1 .. used \/ i = used + 1
        BY <1>2, <3>3
      <3> QED
        BY <3>1, <3>2, <3>4
    <2> QED
      BY <1>4, <2>1, <2>2, SeqEqual
  <1> QED
    BY <1>2, <1>3, <1>7, <1>8 DEF Queue!Enqueue, Queue!SeqNums, SeqNums, Queue!U8, U8, q, r

\* A dequeue removes the head of the queue.
LEMMA DequeueImplements ==
  ASSUME IInv, Dequeue, Contents = ContentsOf(buf), Contents' = ContentsOf(buf')
  PROVE  Queue!Dequeue
PROOF
  <1> DEFINE used == pktbuf_used(buf)
             q == ContentsOf(buf)
             r == ContentsOf(buf')
  <1>1. buf \in Rings(Slots) /\ buf' \in Rings(Slots) /\ ~pktbuf_empty(buf)
    BY DequeueKeepsInvariant DEF IInv, TypeOK, Rings, Slots, Dequeue
  <1>2. /\ used \in Nat /\ used > 0
        /\ pktbuf_used(buf') = used - 1
        /\ \A i \in Int : SeqAt(buf', i) = SeqAt(buf, i + 1)
    BY <1>1, RingCounters, DequeueDrops, IdxSpaceFactor DEF Dequeue, IInv, Consecutive, SeqAt
  <1>3. /\ q \in Seq(SeqNums) /\ Len(q) = used /\ q # << >>
        /\ \A i \in 1 .. used : q[i] = SeqAt(buf, i - 1)
    BY <1>1, ContentsType
  <1>4. /\ r \in Seq(SeqNums) /\ Len(r) = used - 1
        /\ \A i \in 1 .. used - 1 : r[i] = SeqAt(buf', i - 1)
    BY <1>1, <1>2, ContentsType
  <1> HIDE DEF used, q, r
  <1>5. /\ Tail(q) \in Seq(SeqNums) /\ Len(Tail(q)) = used - 1
        /\ \A i \in 1 .. used - 1 : Tail(q)[i] = q[i + 1]
    BY <1>3, HeadTailProperties
  <1>6. ASSUME NEW i \in 1 .. used - 1 PROVE r[i] = Tail(q)[i]
    <2>1. i + 1 \in 1 .. used /\ (i - 1) + 1 = i /\ (i + 1) - 1 = i /\ i - 1 \in Int
      BY <1>2
    <2> QED
      BY <1>2, <1>3, <1>4, <1>5, <2>1
  <1>7. r = Tail(q)
    BY <1>4, <1>5, <1>6, SeqEqual
  <1> QED
    BY <1>3, <1>7 DEF Queue!Dequeue, q, r

\* A slot that is asked for is there, or the queue is extended to it.
LEMMA SlotForImplements ==
  ASSUME IInv, NEW s \in SeqNums, SlotFor(s), Contents = ContentsOf(buf), Contents' = ContentsOf(buf')
  PROVE  Queue!SlotFor \/ UNCHANGED Contents
PROOF
  <1> DEFINE base == SlotBase(buf, s)
             offset == SlotOffset(buf, s)
             first == SeqAt(base, 0)
             q == ContentsOf(buf)
             r == ContentsOf(buf')
  <1>1. buf \in Rings(Slots) /\ Consecutive(buf) /\ offset < Capacity /\ buf' = SlotReserved(buf, s)
    BY DEF IInv, TypeOK, Rings, Slots, SlotFor
  <1>2. /\ base \in Rings(Slots) /\ pktbuf_used(base) > 0
        /\ pktbuf_empty(buf) => pktbuf_used(base) = 1 /\ first = s
        /\ ~pktbuf_empty(buf) => base = buf
    BY <1>1, SlotsAreSlots, SlotBaseStarts
  <1>2a. 0 \in 0 .. pktbuf_used(base) - 1
    BY <1>2, RingCounters, IdxSpaceFactor
  <1>3. /\ buf' \in Rings(Slots) /\ offset \in Nat /\ offset = SeqDiff(s, first)
        /\ pktbuf_used(buf') = IF offset < pktbuf_used(base) THEN pktbuf_used(base) ELSE offset + 1
        /\ offset < pktbuf_used(base) => buf' = base
        /\ SeqAt(buf', 0) = first /\ Consecutive(buf')
    BY <1>1, <1>2, <1>2a, SlotsAreSlots, SlotForExtends DEF SeqAt
  <1>4. pktbuf_used(base) \in Nat /\ first \in SeqNums /\ first \in Int
    BY <1>2, RingCounters, SlotsAreSlots, SlotAtType, IdxSpaceFactor, SeqSpaceAssumption DEF SeqNums
  <1>5. /\ q \in Seq(SeqNums) /\ Len(q) = pktbuf_used(buf) /\ Len(q) \in Nat
        /\ \A i \in 1 .. pktbuf_used(buf) : q[i] = SeqAt(buf, i - 1)
        /\ q = << >> <=> pktbuf_empty(buf)
        /\ pktbuf_empty(buf) => pktbuf_used(buf) = 0
    BY <1>1, ContentsType, RingCounters
  <1>6. r = [i \in 1 .. pktbuf_used(buf') |-> SeqAt(buf', i - 1)]
    BY DEF ContentsOf
  <1> HIDE DEF base, offset, first, q, r
  <1>7. first = IF q = << >> THEN s ELSE q[1]
    <2>1. CASE pktbuf_empty(buf)
      BY <1>2, <1>5, <2>1
    <2>2. CASE ~pktbuf_empty(buf)
      <3>1. 1 \in 1 .. pktbuf_used(buf) /\ 1 - 1 = 0
        BY <1>2, <1>4, <2>2
      <3> QED
        BY <1>2, <1>5, <2>2, <3>1 DEF first
    <2> QED
      BY <2>1, <2>2
  <1>8. CASE ~pktbuf_empty(buf) /\ offset < pktbuf_used(base)
    BY <1>2, <1>3, <1>8 DEF q, r
  <1>9. CASE pktbuf_empty(buf) \/ ~(offset < pktbuf_used(base))
    <2>1. pktbuf_used(buf') = offset + 1 /\ Len(q) < offset + 1
      <3>1. CASE pktbuf_empty(buf)
        <4>1. offset = 0
          BY <1>2, <1>3, <3>1, SeqSpaceAssumption, U8Small DEF SeqDiff, SeqNums
        <4> QED
          BY <1>2, <1>3, <1>5, <3>1, <4>1
      <3>2. CASE ~pktbuf_empty(buf)
        BY <1>2, <1>3, <1>4, <1>5, <1>9, <3>2
      <3> QED
        BY <3>1, <3>2
    <2>2. r = [i \in 1 .. offset + 1 |-> U8(first + i - 1)]
      <3>1. ASSUME NEW i \in 1 .. offset + 1
            PROVE  SeqAt(buf', i - 1) = U8(first + i - 1)
        <4>1. i - 1 \in 0 .. pktbuf_used(buf') - 1 /\ first + (i - 1) = first + i - 1
          BY <1>3, <1>4, <2>1
        <4>2. SeqAt(buf', i - 1) = U8(first + (i - 1))
          BY <1>3, <4>1 DEF Consecutive
        <4> QED
          BY <4>1, <4>2
      <3> QED
        BY <1>6, <2>1, <3>1
    <2>3. /\ Len(q) < SeqDiff(s, first) + 1 /\ SeqDiff(s, first) + 1 <= Capacity
          /\ r = [i \in 1 .. SeqDiff(s, first) + 1 |-> U8(first + i - 1)]
      BY <1>1, <1>3, <2>1, <2>2, IdxSpaceFactor
    <2>4. Queue!SlotFor
      BY <1>7, <2>3
      DEF Queue!SlotFor, Queue!SeqNums, SeqNums, Queue!SeqDiff, SeqDiff, Queue!U8, U8, q, r
    <2> QED
      BY <2>4
  <1> QED
    BY <1>8, <1>9

\* The ring implements the bounded queue of consecutive sequence numbers, for
\* every capacity, counter width and sequence space: its initial state is the
\* empty queue, and each call appends, removes, extends or leaves the queue.
THEOREM PktBufImplementsQueue == Spec => ImplementsQueue
PROOF
  <1>1. IInv => Contents = ContentsOf(buf)
    BY ContentsIs DEF IInv, TypeOK, Rings, Slots, Contents
  <1>2. Init => Queue!Init
    <2>1. ASSUME Init PROVE Queue!Init
      <3>1. IInv /\ buf \in Rings(Slots) /\ pktbuf_empty(buf)
        BY <2>1, InitInvariant DEF Init, IInv, TypeOK, Rings, Slots, pktbuf_new, pktbuf_empty
      <3>2. Contents = << >>
        BY <1>1, <3>1, ContentsType
      <3> QED
        BY <3>2 DEF Queue!Init
    <2> QED
      BY <2>1
  <1>3. IInv /\ IInv' /\ [Next]_vars => [Queue!Next]_Contents
    <2> SUFFICES ASSUME IInv, IInv', [Next]_vars PROVE [Queue!Next]_Contents
      OBVIOUS
    <2>1. Contents = ContentsOf(buf)
      BY <1>1
    <2>2. Contents' = ContentsOf(buf')
      BY ContentsIs DEF IInv, TypeOK, Rings, Slots, Contents
    <2>3. CASE Dequeue
      BY <2>1, <2>2, <2>3, DequeueImplements DEF Queue!Next
    <2>4. ASSUME NEW s \in SeqNums, Enqueue(s) PROVE Queue!Next
      BY <2>1, <2>2, <2>4, EnqueueImplements DEF Queue!Next
    <2>5. ASSUME NEW s \in SeqNums, SlotFor(s) PROVE [Queue!Next]_Contents
      BY <2>1, <2>2, <2>5, SlotForImplements DEF Queue!Next
    <2>6. CASE UNCHANGED vars
      BY <2>1, <2>2, <2>6 DEF vars
    <2> QED
      BY <2>3, <2>4, <2>5, <2>6 DEF Next
  <1> QED
    BY <1>2, <1>3, PktBufInvariant, PTL DEF Spec, ImplementsQueue, Queue!Spec

=============================================================================
