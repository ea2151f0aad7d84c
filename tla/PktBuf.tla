------------------------------- MODULE PktBuf -------------------------------
(***************************************************************************)
(* The packet buffer of common/pktbuf.c: a ring of Capacity slots indexed  *)
(* by two free-running uint32_t counters, first (oldest used slot) and     *)
(* last (next free slot).  A slot is a record with at least a seq field;   *)
(* the sender and the receiver add what identifies the payload.            *)
(*                                                                         *)
(* The operators model the release build, in which the ASSERTs of the      *)
(* enqueue and dequeue functions are compiled out and only ASSERT_ALWAYS   *)
(* remains.                                                                *)
(***************************************************************************)
EXTENDS SeqNum

CONSTANTS
  Capacity,   \* slots in the ring (buf->capacity)
  IdxSpace    \* 2^32, the range of the first and last counters

\* The two ASSERT_ALWAYS of pktbuf_new, and that 2^32 is a multiple of a
\* power of two that fits it twice.
ASSUME CapacityAssumption ==
  /\ Capacity \in Nat \ {0}
  /\ IdxSpace \in Nat \ {0}
  /\ IdxSpace % Capacity = 0
  /\ 2 * Capacity <= IdxSpace

ASSUME CapacityPowerOfTwo == \E k \in 0 .. 31 : Capacity = 2 ^ k

SlotIds == 0 .. Capacity - 1

U32(n) == n % IdxSpace

\* (i) & (capacity - 1), for a capacity that is a power of two.
mask_index(i) == i % Capacity

pktbuf_new(blank) == [first |-> 0, last |-> 0, head |-> [i \in SlotIds |-> blank]]

pktbuf_empty(buf) == buf.first = buf.last

pktbuf_used(buf) == U32(buf.last - buf.first)

\* Mutant: the ring counts as full one slot too late.
MutantFullTooLate(buf) == pktbuf_used(buf) > Capacity

pktbuf_full(buf) == pktbuf_used(buf) >= Capacity

\* Indices in head of the first and the last used slot.
first_item(buf) == mask_index(buf.first)
last_item(buf) == mask_index(buf.last - 1)

\* *pktbuf_first(buf) and *pktbuf_last(buf); the pointers are NULL when empty.
pktbuf_first(buf) == buf.head[first_item(buf)]
pktbuf_last(buf) == buf.head[last_item(buf)]

\* n calls of pktbuf_dequeue.
pktbuf_dequeue(buf, n) == [buf EXCEPT !.first = U32(@ + n)]

\* pktbuf_enqueue(buf), the slot it returns being filled with pkt.
pktbuf_enqueue(buf, pkt) ==
  [buf EXCEPT !.last = U32(@ + 1), !.head[mask_index(buf.last)] = pkt]

-----------------------------------------------------------------------------
(***************************************************************************)
(* pktbuf_slotfor_seq, split into the buffer it works on once an empty     *)
(* buffer has got its first slot, the offset of the requested slot, the    *)
(* buffer it leaves and the slot.  What follows from the ASSERT_ALWAYS on  *)
(* the offset, an exit of the process, is left to the callers.             *)
(***************************************************************************)
SlotBase(buf, seqnum) ==
  IF pktbuf_empty(buf)
  THEN pktbuf_enqueue(buf, [buf.head[mask_index(buf.last)] EXCEPT !.seq = seqnum])
  ELSE buf

SlotOffset(buf, seqnum) == SeqDiff(seqnum, pktbuf_first(SlotBase(buf, seqnum)).seq)

\* The condition of that ASSERT_ALWAYS: one slot more than the ring has.
SlotInReach(buf, seqnum) == SlotOffset(buf, seqnum) <= Capacity

\* Mutant: the sequence number of a reserved slot is not reduced to its width.
MutantReserveWide(buf, n) ==
  LET nextSeq == pktbuf_first(buf).seq + pktbuf_used(buf)
      Pos(i) == mask_index(i - buf.last)
  IN  [buf EXCEPT !.last = U32(@ + n),
                  !.head = [i \in SlotIds |->
                              IF Pos(i) < n
                              THEN [buf.head[i] EXCEPT !.seq = nextSeq + Pos(i)]
                              ELSE buf.head[i]]]

\* The n slots that follow the last one are reserved; a reserved slot keeps
\* its stale content and only gets the sequence number of its position.
Reserve(buf, n) ==
  LET nextSeq == pktbuf_first(buf).seq + pktbuf_used(buf)
      Pos(i) == mask_index(i - buf.last)
  IN  [buf EXCEPT !.last = U32(@ + n),
                  !.head = [i \in SlotIds |->
                              IF Pos(i) < n
                              THEN [buf.head[i] EXCEPT !.seq = U8(nextSeq + Pos(i))]
                              ELSE buf.head[i]]]

SlotReserved(buf, seqnum) ==
  LET base == SlotBase(buf, seqnum)
      offset == SlotOffset(buf, seqnum)
  IN  IF offset < pktbuf_used(base)
      THEN base
      ELSE Reserve(base, offset + 1 - pktbuf_used(base))

\* Mutant: the offset is taken from the start of the array.
MutantIndexFromZero(buf, seqnum) == mask_index(SlotOffset(buf, seqnum))

SlotIndex(buf, seqnum) ==
  mask_index(first_item(SlotBase(buf, seqnum)) + SlotOffset(buf, seqnum))

\* pktbuf_at: the slot is found from the index alone, buf->first is not added.
\* Its ASSERT_ALWAYS is left to the callers, too.
pktbuf_at(buf, idx) == buf.head[mask_index(idx)]

=============================================================================
