----------------------------- MODULE PktBufOps -----------------------------
(***************************************************************************)
(* The packet buffer driven through its interface the way the sender and   *)
(* the receiver drive it: packets are enqueued with consecutive sequence   *)
(* numbers, dequeued one at a time, and slots are requested by sequence    *)
(* number.  The guards are the preconditions the two programs establish    *)
(* (and that the debug build asserts).                                     *)
(***************************************************************************)
EXTENDS PktBuf, Sequences

VARIABLES
  buf,   \* the pktbuf_t
  ret    \* sequence number of the slot the last call returned

vars == <<buf, ret>>

\* calloc gives every slot the sequence number 0.
Blank == [seq |-> 0]

Init == buf = pktbuf_new(Blank) /\ ret = 0

\* pktbuf_enqueue(buf)->seq = s
Enqueue(s) ==
  /\ ~pktbuf_full(buf)
  /\ pktbuf_empty(buf) \/ s = U8(pktbuf_last(buf).seq + 1)
  /\ buf' = pktbuf_enqueue(buf, [seq |-> s])
  /\ ret' = s

\* pktbuf_dequeue(buf)->seq
Dequeue ==
  /\ ~pktbuf_empty(buf)
  /\ buf' = pktbuf_dequeue(buf, 1)
  /\ ret' = pktbuf_first(buf).seq

\* pktbuf_slotfor_seq(buf, s), for a slot the ring can hold.
SlotFor(s) ==
  /\ SlotOffset(buf, s) < Capacity
  /\ buf' = SlotReserved(buf, s)
  /\ ret' = buf'.head[SlotIndex(buf, s)].seq

Next ==
  \/ Dequeue
  \/ \E s \in SeqNums : Enqueue(s) \/ SlotFor(s)

Spec == Init /\ [][Next]_vars

-----------------------------------------------------------------------------
TypeOK ==
  /\ buf \in [first : 0 .. IdxSpace - 1, last : 0 .. IdxSpace - 1,
              head : [SlotIds -> [seq : SeqNums]]]
  /\ ret \in SeqNums

\* The queue the ring stands for.
Contents == [i \in 1 .. pktbuf_used(buf) |-> buf.head[mask_index(buf.first + i - 1)].seq]

\* pktbuf_slotfor_seq returns the slot of the sequence number it was asked
\* for (the ASSERT of pktbuf.c:85), whether the slot existed or was reserved.
SlotHasItsSeq == [][\A s \in SeqNums : SlotFor(s) => ret' = s]_vars

Queue == INSTANCE PacketQueue WITH q <- Contents

\* The ring implements the bounded queue of consecutive sequence numbers:
\* index wrap-around, masking and slot reservation never lose, reorder or
\* overwrite a packet that is in the buffer.
ImplementsQueue == Queue!Spec

=============================================================================
