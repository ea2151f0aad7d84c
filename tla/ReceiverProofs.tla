--------------------------- MODULE ReceiverProofs ---------------------------
(***************************************************************************)
(* The receiver writes a prefix of the input and acknowledges only what it *)
(* has, for every size of the sequence space, of the ring, of the window,  *)
(* of the mask and of the input.                                           *)
(*                                                                         *)
(* The theorems have two hypotheses.  The output blocks, as one does that  *)
(* the receiver opened itself, or the window is one packet at most: else   *)
(* process_incoming_pkt counts a packet that stayed in the buffer twice.   *)
(* And the oldest packet of the network is no further behind than the      *)
(* window check of net_recv_pkt can tell.                                  *)
(***************************************************************************)
EXTENDS Receiver, RingLemmas, FiniteSetTheorems, SequenceTheorems, WellFoundedInduction

BlocksOrWindowIsOne == OutNonBlocking => max_window <= 1

OldPacketsAreTold == Lag + max_window < SeqSpace

-----------------------------------------------------------------------------
(***************************************************************************)
(* The mask                                                                *)
(***************************************************************************)

\* The count of the packets in sequence exists, and is what its name says.
LEMMA InSequenceIs ==
  ASSUME NEW mask \in SUBSET (0 .. MaskBits - 1)
  PROVE  /\ InSequence(mask) \in 0 .. MaskBits
         /\ 0 .. InSequence(mask) - 1 \subseteq mask
         /\ InSequence(mask) \notin mask
<1> DEFINE free == (0 .. MaskBits) \ mask
<1>1. MaskBits \in Nat /\ free \subseteq Nat /\ MaskBits \in free
  BY ReceiverAssumption
<1>2. PICK n \in free : \A m \in free : ~(<<m, n>> \in OpToRel(<, Nat))
  <2>1. free # {}
    BY <1>1
  <2> HIDE DEF free
  <2> QED
    BY <1>1, <2>1, NatLessThanWellFounded, WFMin
<1>3. \A m \in free : ~(m < n)
  BY <1>1, <1>2 DEF OpToRel
<1>4. n \in 0 .. MaskBits /\ 0 .. n - 1 \subseteq mask /\ n \notin mask
  BY <1>1, <1>3
<1>5. InSequence(mask) = CHOOSE i \in 0 .. MaskBits : 0 .. i - 1 \subseteq mask /\ i \notin mask
  BY DEF InSequence
<1> QED
  BY <1>4, <1>5

\* There is one such count.
LEMMA InSequenceUnique ==
  ASSUME NEW mask \in SUBSET (0 .. MaskBits - 1), NEW n \in Nat,
         0 .. n - 1 \subseteq mask, n \notin mask
  PROVE  InSequence(mask) = n
<1> DEFINE m == InSequence(mask)
<1>1. m \in Nat /\ 0 .. m - 1 \subseteq mask /\ m \notin mask
  BY InSequenceIs, ReceiverAssumption
<1> HIDE DEF m
<1>2. ~(m < n) /\ ~(n < m)
  BY <1>1
<1> QED
  BY <1>1, <1>2 DEF m

\* Without the first packet none is in sequence.
LEMMA NoneInSequence ==
  ASSUME NEW mask \in SUBSET (0 .. MaskBits - 1), 0 \notin mask
  PROVE  InSequence(mask) = 0
BY InSequenceUnique

\* A mask without its first packet, relative to the next one.
LEMMA ShiftedMask ==
  ASSUME NEW mask \in SUBSET (0 .. MaskBits - 1), 0 \in mask
  PROVE  LET shifted == {i - 1 : i \in mask \ {0}} IN
         /\ shifted \in SUBSET (0 .. MaskBits - 1)
         /\ \A i \in shifted : i + 1 \in mask
         /\ InSequence(mask) = InSequence(shifted) + 1
<1> DEFINE shifted == {i - 1 : i \in mask \ {0}}
<1>1. MaskBits \in Nat
  BY ReceiverAssumption
<1>2. shifted \in SUBSET (0 .. MaskBits - 1) /\ \A i \in shifted : i + 1 \in mask
  BY <1>1
<1>3. \A i \in Nat : i + 1 \in mask => i \in shifted
  <2> SUFFICES ASSUME NEW i \in Nat, i + 1 \in mask PROVE i \in shifted
    OBVIOUS
  <2>1. i + 1 \in mask \ {0} /\ i = (i + 1) - 1
    OBVIOUS
  <2> QED
    BY <2>1
<1> HIDE DEF shifted
<1> DEFINE n == InSequence(shifted)
<1>4. n \in Nat /\ 0 .. n - 1 \subseteq shifted /\ n \notin shifted
  BY <1>1, <1>2, InSequenceIs
<1> HIDE DEF n
<1>5. n + 1 \in Nat /\ n + 1 \notin mask
  BY <1>3, <1>4
<1>6. ASSUME NEW i \in 0 .. (n + 1) - 1 PROVE i \in mask
  <2>1. CASE i = 0
    BY <2>1
  <2>2. CASE i # 0
    <3>1. i - 1 \in 0 .. n - 1 /\ (i - 1) + 1 = i
      BY <1>4, <2>2
    <3> QED
      BY <1>2, <1>4, <3>1
  <2> QED
    BY <2>1, <2>2
<1>7. InSequence(mask) = n + 1
  BY <1>5, <1>6, InSequenceUnique
<1> QED
  BY <1>2, <1>7 DEF n, shifted

-----------------------------------------------------------------------------
(***************************************************************************)
(* The ring, whose oldest slot is the one of packet n                      *)
(***************************************************************************)

Slots == [seq : SeqNums, chunk : -1 .. NChunks]

LEMMA SlotsAreSlots == SlotSet(Slots)
BY DEF SlotSet, Slots

\* The slots in use have the numbers of their places, and hold the packets of
\* the mask.
Holds(b, mask, n) ==
  /\ pktbuf_used(b) <= Capacity
  /\ \A i \in 0 .. pktbuf_used(b) - 1 : SeqAt(b, i) = U8(n + i)
  /\ \A i \in mask :
       /\ i \in 0 .. pktbuf_used(b) - 1
       /\ SlotAt(b, i) = [seq |-> U8(n + i), chunk |-> n + i]

\* Numbers that count on from the oldest one are consecutive.
LEMMA HeldIsConsecutive ==
  ASSUME NEW b \in Rings(Slots), NEW mask, NEW n \in Int, Holds(b, mask, n)
  PROVE  Consecutive(b)
<1>1. pktbuf_used(b) \in Nat
  BY RingCounters, IdxSpaceFactor
<1>2. ASSUME NEW i \in 0 .. pktbuf_used(b) - 1
      PROVE  SeqAt(b, i) = U8(SeqAt(b, 0) + i)
  <2>1. i \in Int /\ 0 \in 0 .. pktbuf_used(b) - 1 /\ n + 0 = n
    BY <1>1
  <2>2. SeqAt(b, i) = U8(n + i) /\ SeqAt(b, 0) = U8(n)
    BY <2>1 DEF Holds
  <2>3. U8(U8(n) + i) = U8(n + i)
    BY <2>1, U8Add
  <2> QED
    BY <2>2, <2>3
<1> QED
  BY <1>2 DEF Holds, Consecutive

\* pktbuf_slotfor_seq, and a packet stored in the slot it returns.
Put(b, s, chunk) ==
  [SlotReserved(b, s) EXCEPT !.head[SlotIndex(b, s)] = [seq |-> s, chunk |-> chunk]]

\* A packet stored k places behind the oldest slot leaves the other packets of
\* the mask alone; slots before it are reserved as needed.
LEMMA PutHolds ==
  ASSUME NEW b \in Rings(Slots), NEW mask, NEW n \in Int, Holds(b, mask, n),
         NEW k \in Nat, k < Capacity, k < SeqSpace, pktbuf_empty(b) => k = 0,
         NEW chunk \in -1 .. NChunks, k \in mask => chunk = n + k
  PROVE  LET r == Put(b, U8(n + k), chunk) IN
         /\ r \in Rings(Slots)
         /\ Holds(r, mask, n)
         /\ k \in 0 .. pktbuf_used(r) - 1
         /\ chunk = n + k => Holds(r, mask \cup {k}, n)
<1> DEFINE s == U8(n + k)
           base == SlotBase(b, s)
           offset == SlotOffset(b, s)
           c == SlotReserved(b, s)
           p == [seq |-> s, chunk |-> chunk]
           r == Put(b, s, chunk)
<1>1. /\ n + k \in Int /\ s \in SeqNums /\ Consecutive(b) /\ SlotSet(Slots)
      /\ pktbuf_used(b) \in Nat /\ (pktbuf_empty(b) <=> pktbuf_used(b) = 0)
  BY U8Type, HeldIsConsecutive, SlotsAreSlots, RingCounters, IdxSpaceFactor
<1>2. /\ base \in Rings(Slots)
      /\ pktbuf_empty(b) => pktbuf_used(base) = 1 /\ SeqAt(base, 0) = s
      /\ ~pktbuf_empty(b) => base = b
  BY <1>1, SlotBaseStarts
<1>3. SeqAt(base, 0) = U8(n)
  <2>1. CASE pktbuf_empty(b)
    BY <1>2, <2>1
  <2>2. CASE ~pktbuf_empty(b)
    <3>1. 0 \in 0 .. pktbuf_used(b) - 1 /\ n + 0 = n
      BY <1>1, <2>2
    <3> QED
      BY <1>2, <2>2, <3>1 DEF Holds
  <2> QED
    BY <2>1, <2>2
<1>4. offset = k
  <2>1. offset = SeqDiff(s, U8(n))
    BY <1>2, <1>3, RingCounters DEF SlotOffset, SeqAt
  <2>2. s \in Int /\ SeqDiff(s, U8(n)) = U8(s - n) /\ SeqDiff(s, n) = U8((n + k) - n)
    BY <1>1, SeqDiffReduce, SeqSpaceAssumption DEF SeqNums
  <2>3. SeqDiff(s, n) = U8(s - n) /\ (n + k) - n = k
    BY DEF SeqDiff
  <2>4. k \in SeqNums
    BY SeqSpaceAssumption DEF SeqNums
  <2> QED
    BY <2>1, <2>2, <2>3, <2>4, U8Small
<1>5. /\ c \in Rings(Slots)
      /\ pktbuf_used(c) = IF k < pktbuf_used(base) THEN pktbuf_used(base) ELSE k + 1
      /\ \A i \in 0 .. pktbuf_used(base) - 1 : SlotAt(c, i) = SlotAt(base, i)
      /\ SeqAt(c, 0) = SeqAt(base, 0)
      /\ Consecutive(c)
      /\ SlotIndex(b, s) = mask_index(c.first + k)
  <2>1. pktbuf_used(base) \in Nat /\ 0 \in 0 .. pktbuf_used(base) - 1
    BY <1>1, <1>2, RingCounters, IdxSpaceFactor
  <2> QED
    BY <1>1, <1>4, <2>1, SlotForExtends DEF SeqAt
<1>6. pktbuf_used(base) \in Nat /\ pktbuf_used(c) \in Nat /\ c.first \in Int /\ k < pktbuf_used(c)
  BY <1>2, <1>5, RingCounters, IdxSpaceFactor
<1>7. pktbuf_used(c) <= Capacity
  BY <1>5 DEF Consecutive
<1>8. r = [c EXCEPT !.head[mask_index(c.first + k)] = p]
  BY <1>5 DEF Put
<1> HIDE DEF base, offset, c, r
<1>9. /\ p \in Slots /\ mask_index(c.first + k) \in SlotIds
      /\ c.head \in [SlotIds -> Slots]
  BY <1>1, <1>5, <1>6, MaskType DEF Slots, Rings
<1>10. /\ r \in Rings(Slots)
       /\ r.first = c.first /\ r.last = c.last
       /\ r.head = [c.head EXCEPT ![mask_index(c.first + k)] = p]
  BY <1>5, <1>8, <1>9 DEF Rings
<1>11. pktbuf_used(r) = pktbuf_used(c)
  BY <1>10 DEF pktbuf_used
<1>12. SlotAt(r, k) = p
  BY <1>9, <1>10 DEF SlotAt
<1>13. ASSUME NEW i \in 0 .. pktbuf_used(c) - 1, i # k
       PROVE  SlotAt(r, i) = SlotAt(c, i)
  <2>1. mask_index(c.first + i) # mask_index(c.first + k) /\ mask_index(c.first + i) \in SlotIds
    <3>1. i \in Int /\ c.first + i \in Int /\ c.first + k \in Int
      BY <1>6
    <3>2. CASE i < k
      BY <1>6, <1>7, <3>1, <3>2, SlotsDiffer, MaskType, IdxSpaceFactor
    <3>3. CASE k < i
      BY <1>6, <1>7, <3>1, <3>3, SlotsDiffer, MaskType, IdxSpaceFactor
    <3> QED
      BY <1>13, <3>1, <3>2, <3>3
  <2> QED
    BY <1>9, <1>10, <2>1 DEF SlotAt
<1>14. ASSUME NEW i \in 0 .. pktbuf_used(c) - 1
       PROVE  SeqAt(r, i) = U8(n + i)
  <2>1. SeqAt(c, i) = U8(n + i)
    <3>1. SeqAt(c, i) = U8(U8(n) + i)
      BY <1>3, <1>5 DEF Consecutive
    <3> QED
      BY <3>1, U8Add
  <2> QED
    BY <1>12, <1>13, <2>1 DEF SeqAt
<1>15. ASSUME NEW i \in mask
       PROVE  /\ i \in 0 .. pktbuf_used(r) - 1
              /\ SlotAt(r, i) = [seq |-> U8(n + i), chunk |-> n + i]
  <2>1. i \in 0 .. pktbuf_used(b) - 1 /\ SlotAt(b, i) = [seq |-> U8(n + i), chunk |-> n + i]
    BY DEF Holds
  <2>2. ~pktbuf_empty(b) /\ base = b
    BY <1>1, <1>2, <2>1
  <2>3. i \in 0 .. pktbuf_used(c) - 1
    BY <1>5, <1>6, <2>1, <2>2
  <2>4. CASE i = k
    BY <1>11, <1>12, <2>3, <2>4
  <2>5. CASE i # k
    BY <1>5, <1>11, <1>13, <2>1, <2>2, <2>3, <2>5
  <2> QED
    BY <2>4, <2>5
<1>16. k \in 0 .. pktbuf_used(r) - 1
  BY <1>6, <1>11
<1>17. Holds(r, mask, n)
  BY <1>7, <1>11, <1>14, <1>15 DEF Holds
<1>18. ASSUME chunk = n + k PROVE Holds(r, mask \cup {k}, n)
  BY <1>12, <1>16, <1>17, <1>18 DEF Holds
<1> QED
  BY <1>10, <1>16, <1>17, <1>18 DEF r

\* The packet that leaves the buffer was the next one; the others move up.
LEMMA DequeueHolds ==
  ASSUME NEW b \in Rings(Slots), NEW mask, NEW n \in Int, Holds(b, mask, n), 0 \in mask
  PROVE  LET c == pktbuf_dequeue(b, 1) IN
         /\ pktbuf_first(b).chunk = n
         /\ c \in Rings(Slots)
         /\ Holds(c, {i - 1 : i \in mask \ {0}}, n + 1)
<1> DEFINE c == pktbuf_dequeue(b, 1)
           used == pktbuf_used(b)
<1>1. /\ used \in Nat /\ used > 0 /\ used <= Capacity /\ ~pktbuf_empty(b)
      /\ SlotAt(b, 0) = [seq |-> U8(n + 0), chunk |-> n + 0]
      /\ pktbuf_first(b) = SlotAt(b, 0)
  BY RingCounters, IdxSpaceFactor DEF Holds
<1>2. /\ c \in Rings(Slots)
      /\ pktbuf_used(c) = used - 1
      /\ \A i \in Int : SlotAt(c, i) = SlotAt(b, i + 1)
  BY <1>1, DequeueDrops
<1> HIDE DEF c, used
<1>3. ASSUME NEW i \in 0 .. pktbuf_used(c) - 1
      PROVE  SeqAt(c, i) = U8((n + 1) + i)
  <2>1. i \in Int /\ i + 1 \in 0 .. used - 1 /\ n + (i + 1) = (n + 1) + i
    BY <1>1, <1>2
  <2>2. SeqAt(b, i + 1) = U8(n + (i + 1))
    BY <2>1 DEF Holds, used
  <2> QED
    BY <1>2, <2>1, <2>2 DEF SeqAt
<1>4. ASSUME NEW j \in mask \ {0}
      PROVE  /\ j - 1 \in 0 .. pktbuf_used(c) - 1
             /\ SlotAt(c, j - 1) = [seq |-> U8((n + 1) + (j - 1)), chunk |-> (n + 1) + (j - 1)]
  <2>1. j \in 0 .. used - 1 /\ SlotAt(b, j) = [seq |-> U8(n + j), chunk |-> n + j]
    BY DEF Holds, used
  <2>2. j - 1 \in 0 .. pktbuf_used(c) - 1 /\ (j - 1) + 1 = j /\ (n + 1) + (j - 1) = n + j
    BY <1>1, <1>2, <2>1
  <2> QED
    BY <1>2, <2>1, <2>2
<1>5. ASSUME NEW i \in {j - 1 : j \in mask \ {0}}
      PROVE  /\ i \in 0 .. pktbuf_used(c) - 1
             /\ SlotAt(c, i) = [seq |-> U8((n + 1) + i), chunk |-> (n + 1) + i]
  <2>1. PICK j \in mask \ {0} : i = j - 1
    OBVIOUS
  <2> QED
    BY <1>4, <2>1
<1>6. Holds(c, {j - 1 : j \in mask \ {0}}, n + 1)
  BY <1>1, <1>2, <1>3, <1>5, IdxSpaceFactor DEF Holds
<1> QED
  BY <1>1, <1>2, <1>6 DEF c

-----------------------------------------------------------------------------
(***************************************************************************)
(* The inductive invariant                                                 *)
(***************************************************************************)

RetriesBounded ==
  /\ pc = "wait" => retry < MaxRetries
  /\ pc \in {"poll", "drain", "reply"} => retry = 0
  /\ pc = "linger" => retry <= MaxLingerRetry

OutputFits ==
  /\ Len(written) <= NChunks
  /\ last_written = "eof" => Len(written) = NChunks

\* The ring, the mask, the output and expected_seq tell the same.
BufferHolds ==
  /\ Holds(recv_buf, oos_mask, Delivered)
  /\ \A i \in oos_mask : i = 0 \/ i < max_window
  /\ expected_seq = U8(Delivered + InSequence(oos_mask))

\* When a datagram is read no packet in sequence is left in the buffer, except
\* for the first packet of the transfer, with which the loop starts, and for
\* what an output did not take.
BufferWhere ==
  /\ pc = "wait" => oos_mask = {} /\ Delivered = 0 /\ edge = 1
  /\ pc = "poll" => \/ 0 \notin oos_mask \/ OutNonBlocking
                    \/ oos_mask = {0} /\ Delivered = 0 /\ edge = 1
  /\ pc = "reply" => 0 \notin oos_mask \/ OutNonBlocking
  /\ pc = "linger" => 0 \notin oos_mask

PeerInWindow == edge = 1 \/ edge <= Delivered + max_window

IInv ==
  /\ TypeOK /\ RetriesBounded
  /\ OutputIsPrefix /\ OutputFits /\ CompleteAtEnd
  /\ pc \notin Terminal => BufferHolds /\ BufferWhere /\ PeerInWindow

\* The number of packets the transfer is done with.
LEMMA DeliveredType ==
  ASSUME IInv
  PROVE  /\ Len(written) \in Nat
         /\ Delivered \in 0 .. NChunks + 1
         /\ Delivered = IF last_written = "eof" THEN NChunks + 1 ELSE Len(written)
<1>1. Len(written) \in Nat /\ NChunks \in Nat
  BY ReceiverAssumption DEF IInv, TypeOK
<1> QED
  BY <1>1 DEF IInv, OutputFits, Delivered

\* The first packet of the mask is the next one to be delivered, and there is
\* none once the end of the transfer was.
LEMMA FirstIsNext ==
  ASSUME IInv, pc \notin Terminal, 0 \in oos_mask
  PROVE  FirstChunk = Delivered /\ Delivered = Len(written) /\ last_written # "eof"
<1>1. recv_buf \in Rings(Slots) /\ Holds(recv_buf, oos_mask, Delivered)
  BY DEF IInv, TypeOK, Rings, Slots, BufferHolds
<1>2. Delivered \in Int /\ NChunks \in Nat
  BY DeliveredType, ReceiverAssumption
<1>3. FirstChunk = Delivered
  BY <1>1, <1>2, DequeueHolds DEF FirstChunk
<1>4. FirstChunk \in -1 .. NChunks
  <2>1. pktbuf_first(recv_buf) = SlotAt(recv_buf, 0) /\ SlotAt(recv_buf, 0) \in Slots
    BY <1>1, RingCounters, SlotsAreSlots, SlotAtType
  <2> QED
    BY <2>1 DEF FirstChunk, Slots
<1> QED
  BY <1>2, <1>3, <1>4, DeliveredType

\* What goes with a step that leaves the buffer and the output alone.
Quiet ==
  /\ pc \notin Terminal
  /\ UNCHANGED <<recv_buf, oos_mask, expected_seq, nack_seq, written>>
  /\ last_written' = last_written \/ (last_written # "eof" /\ last_written' = "data")
  /\ need_ack' \in BOOLEAN /\ need_nack' \in BOOLEAN
  /\ pfds_count' \in {1, 2}
  /\ pending' \in BOOLEAN
  /\ retry' \in 0 .. MaxRetries + MaxLingerRetry
  /\ pc' \in {"wait", "poll", "drain", "reply", "linger"} \cup Terminal
  /\ edge' = edge \/ (edge' = Delivered + max_window /\ edge < edge')
  /\ out' \subseteq Feedback

\* Such a step keeps the invariant if it goes on where it may.
LEMMA QuietStep ==
  ASSUME IInv, Quiet, RetriesBounded', BufferWhere', CompleteAtEnd'
  PROVE  IInv'
<1>1. Delivered' = Delivered
  BY DEF Quiet, Delivered
<1>2. Delivered \in 0 .. NChunks + 1 /\ max_window \in 0 .. MaxWindow
  BY DeliveredType, ReceiverAssumption DEF Windows
<1>3. edge' \in 1 .. NChunks + 1 + MaxWindow
  BY <1>2, WindowAssumption, ReceiverAssumption DEF Quiet, IInv, TypeOK
<1>4. TypeOK'
  BY <1>3 DEF Quiet, IInv, TypeOK
<1>5. OutputIsPrefix' /\ OutputFits'
  BY DEF Quiet, IInv, OutputIsPrefix, OutputFits
<1>6. BufferHolds'
  BY <1>1 DEF Quiet, IInv, BufferHolds
<1>7. PeerInWindow'
  BY <1>1, <1>2 DEF Quiet, IInv, PeerInWindow, TypeOK
<1> QED
  BY <1>4, <1>5, <1>6, <1>7 DEF IInv

\* An ACK or a NACK has the fields of one.
LEMMA AnswerType ==
  ASSUME IInv, NEW type \in {"ACK", "NACK"}, NEW seq \in SeqNums
  PROVE  Answer(type, seq) \in Feedback
<1>1. InSequence(oos_mask) \in Int /\ max_window \in Int
  BY InSequenceIs, ReceiverAssumption, WindowAssumption DEF IInv, TypeOK, Windows
<1>2. window_size \in Int /\ MaxWindow + 1 \in Nat /\ MaxWindow + 1 > 0
  BY <1>1, WindowAssumption DEF window_size
<1>3. window_size % (MaxWindow + 1) \in 0 .. (MaxWindow + 1) - 1
  BY <1>2, ModRange
<1>4. window_size % (MaxWindow + 1) \in Windows
  BY <1>3, WindowAssumption DEF Windows
<1> QED
  BY <1>4 DEF Answer, Feedback

\* net_send sends what it is given, or ends the program.
LEMMA NetSendType ==
  ASSUME NEW S, NEW packets \in Seq(S), NEW after, NetSend(packets, after)
  PROVE  out' \subseteq S /\ pc' \in {after, "failed"}
<1>1. Len(packets) \in Nat /\ DOMAIN packets = 1 .. Len(packets)
      /\ \A i \in 1 .. Len(packets) : packets[i] \in S
  OBVIOUS
<1>2. CASE out' = {packets[i] : i \in DOMAIN packets} /\ pc' = after
  BY <1>1, <1>2
<1>3. ASSUME NEW failing \in DOMAIN packets,
             out' = {packets[i] : i \in 1 .. failing - 1}, pc' = "failed"
      PROVE  out' \subseteq S
  <2>1. \A i \in 1 .. failing - 1 : i \in 1 .. Len(packets)
    BY <1>1
  <2> QED
    BY <1>1, <1>3, <2>1
<1> QED
  BY <1>2, <1>3 DEF NetSend

-----------------------------------------------------------------------------
(***************************************************************************)
(* Every action keeps the invariant: first those that leave the buffer and *)
(* the output alone                                                        *)
(***************************************************************************)

\* net_wait_and_connect ignores a datagram or fails.
LEMMA KeepWaiting ==
  ASSUME IInv, (\E d \in Arrivals : WaitIgnore(d)) \/ WaitError
  PROVE  IInv'
<1>1. MaxRetries \in Nat /\ MaxLingerRetry \in Nat
  BY ReceiverAssumption
<1>2. Quiet /\ pc = "wait" /\ pc' \in {"wait", "failed"} /\ last_written' = last_written /\ edge' = edge
  BY <1>1 DEF WaitIgnore, WaitError, Quiet, IInv, TypeOK, RetriesBounded, Terminal, reply, output
<1>3. RetriesBounded'
  BY <1>1 DEF WaitIgnore, WaitError, IInv, TypeOK, RetriesBounded
<1>4. BufferWhere' /\ CompleteAtEnd'
  BY <1>2 DEF Quiet, IInv, BufferWhere, CompleteAtEnd, Terminal, Delivered
<1> QED
  BY <1>2, <1>3, <1>4, QuietStep

\* poll() reports the output or an error, or its timer expires.
LEMMA KeepPolling ==
  ASSUME IInv, OutputReady \/ Fail
  PROVE  IInv'
<1>1. Quiet /\ pc' \in {"drain", "failed"} /\ retry' = retry /\ pc = "poll"
  BY DEF OutputReady, Fail, Quiet, IInv, TypeOK, Terminal, reply, output
<1>2. RetriesBounded' /\ BufferWhere' /\ CompleteAtEnd'
  BY <1>1 DEF IInv, RetriesBounded, BufferWhere, CompleteAtEnd, Terminal
<1> QED
  BY <1>1, <1>2, QuietStep

\* The loop of do_empty_rbuf ends, or write() fails.
LEMMA KeepDrainEnd ==
  ASSUME IInv, DrainEnd \/ OutputWouldBlock \/ OutputError
  PROVE  IInv'
<1>1. CASE DrainEnd
  <2>1. Quiet /\ pc' = "reply" /\ retry' = retry /\ pc = "drain" /\ 0 \notin oos_mask'
    BY <1>1 DEF DrainEnd, Quiet, IInv, TypeOK, Terminal, reply, output
  <2>2. RetriesBounded' /\ BufferWhere' /\ CompleteAtEnd'
    BY <2>1 DEF IInv, RetriesBounded, BufferWhere, CompleteAtEnd, Terminal
  <2> QED
    BY <2>1, <2>2, QuietStep
<1>2. CASE OutputWouldBlock
  <2>1. last_written # "eof"
    BY <1>2, FirstIsNext DEF OutputWouldBlock, DrainStops, Terminal
  <2>2. Quiet /\ pc' = "reply" /\ retry' = retry /\ pc = "drain" /\ OutNonBlocking
    BY <1>2, <2>1 DEF OutputWouldBlock, WriteReturns, DrainStops, Quiet, IInv, TypeOK, Terminal, reply
  <2>3. RetriesBounded' /\ BufferWhere' /\ CompleteAtEnd'
    BY <2>2 DEF IInv, RetriesBounded, BufferWhere, CompleteAtEnd
  <2> QED
    BY <2>2, <2>3, QuietStep
<1>3. CASE OutputError
  <2>1. last_written # "eof"
    BY <1>3, FirstIsNext DEF OutputError, DrainStops, Terminal
  <2>2. Quiet /\ pc' = "failed"
    BY <1>3, <2>1 DEF OutputError, DrainStops, Quiet, IInv, TypeOK, Terminal, reply
  <2>3. RetriesBounded' /\ BufferWhere' /\ CompleteAtEnd'
    BY <2>2 DEF RetriesBounded, BufferWhere, CompleteAtEnd
  <2> QED
    BY <2>2, <2>3, QuietStep
<1> QED
  BY <1>1, <1>2, <1>3

\* The end of an iteration.
LEMMA KeepReply ==
  ASSUME IInv, Reply
  PROVE  IInv'
<1> DEFINE packets == (IF need_ack THEN <<Answer("ACK", expected_seq)>> ELSE << >>)
                        \o (IF need_nack THEN <<Answer("NACK", nack_seq)>> ELSE << >>)
           after == IF last_written = "eof" /\ pktbuf_empty(recv_buf) THEN "linger" ELSE "poll"
           limit == Delivered + max_window
<1>1. packets \in Seq(Feedback)
  <2>1. Answer("ACK", expected_seq) \in Feedback /\ Answer("NACK", nack_seq) \in Feedback
    BY AnswerType DEF IInv, TypeOK
  <2> QED
    BY <2>1
<1>2. out' \subseteq Feedback /\ pc' \in {after, "failed"}
  <2>1. NetSend(packets, after)
    BY DEF Reply
  <2> QED
    BY <1>1, <2>1, NetSendType
<1>3. /\ pc = "reply" /\ pc' \in {"poll", "linger", "failed"}
      /\ pc' = "linger" => last_written = "eof"
  BY <1>2 DEF Reply
<1>4. edge' = edge \/ (edge' = limit /\ edge < edge')
  <2>1. edge' = IF (need_ack \/ need_nack) /\ edge < limit THEN limit ELSE edge
    BY DEF Reply
  <2> HIDE DEF limit
  <2> QED
    BY <2>1
<1>5. /\ UNCHANGED <<recv_buf, oos_mask, expected_seq, nack_seq, last_written, written, retry, pending>>
      /\ pfds_count' \in {1, 2} /\ need_ack' = FALSE /\ need_nack' = FALSE
  BY DEF Reply, output
<1>6. Quiet
  BY <1>2, <1>3, <1>4, <1>5 DEF Quiet, IInv, TypeOK, Terminal
<1>7. CompleteAtEnd'
  BY <1>3, <1>5, DeliveredType DEF CompleteAtEnd, IInv, OutputFits, Delivered
<1>8. RetriesBounded' /\ BufferWhere'
  <2>1. pc' = "linger" => 0 \notin oos_mask
    BY <1>3, FirstIsNext DEF Terminal
  <2> QED
    BY <1>3, <1>5, <2>1, ReceiverAssumption DEF BufferWhere, RetriesBounded, IInv, Terminal
<1> QED
  BY <1>6, <1>7, <1>8, QuietStep

\* The last ACKs.
LEMMA KeepLingering ==
  ASSUME IInv, LingerArrival \/ LingerAck \/ LingerEnd \/ LingerFail
  PROVE  IInv'
<1>1. /\ pc = "linger" /\ pc' \in {"linger", "done", "failed"} /\ out' \subseteq Feedback
  <2>1. CASE LingerAck
    <3>1. <<Answer("ACK", expected_seq)>> \in Seq(Feedback)
      <4>1. Answer("ACK", expected_seq) \in Feedback
        BY AnswerType DEF IInv, TypeOK
      <4> QED
        BY <4>1
    <3> QED
      BY <2>1, <3>1, NetSendType DEF LingerAck
  <2>2. CASE LingerArrival \/ LingerEnd \/ LingerFail
    BY <2>2 DEF LingerArrival, LingerEnd, LingerFail
  <2> QED
    BY <2>1, <2>2
<1>2. RetriesBounded' /\ retry' \in 0 .. MaxRetries + MaxLingerRetry
  <2>1. /\ retry \in 0 .. MaxLingerRetry
        /\ MaxRetries \in Nat /\ MaxLingerRetry \in Nat
    BY <1>1, ReceiverAssumption DEF RetriesBounded, IInv, TypeOK
  <2>2. retry' = retry \/ (retry < MaxLingerRetry /\ retry' = retry + 1)
    BY DEF LingerArrival, LingerAck, LingerEnd, LingerFail
  <2>3. retry' \in 0 .. MaxLingerRetry
    BY <2>1, <2>2
  <2> QED
    BY <1>1, <2>1, <2>3 DEF RetriesBounded
<1>3. Quiet /\ last_written' = last_written
  BY <1>1, <1>2
  DEF LingerArrival, LingerAck, LingerEnd, LingerFail, Quiet, IInv, TypeOK, Terminal, reply, output
<1>4. BufferWhere' /\ CompleteAtEnd'
  BY <1>1, <1>3 DEF Quiet, IInv, BufferWhere, CompleteAtEnd, Terminal, Delivered
<1> QED
  BY <1>2, <1>3, <1>4, QuietStep

-----------------------------------------------------------------------------
(***************************************************************************)
(* The actions that change the buffer                                      *)
(***************************************************************************)

\* A packet is written and leaves the buffer.
LEMMA KeepDrain ==
  ASSUME IInv, Drain
  PROVE  IInv'
<1> DEFINE n == Delivered
           shifted == {i - 1 : i \in oos_mask \ {0}}
<1>1. /\ pc = "drain" /\ 0 \in oos_mask /\ n = Len(written) /\ FirstChunk = n
      /\ recv_buf \in Rings(Slots) /\ Holds(recv_buf, oos_mask, n)
      /\ oos_mask \in SUBSET (0 .. MaskBits - 1)
      /\ n \in 0 .. NChunks + 1 /\ written \in Seq(-1 .. NChunks) /\ last_written # "eof"
  BY FirstIsNext, DeliveredType
  DEF Drain, IInv, TypeOK, Rings, Slots, BufferHolds, Terminal
<1>2. /\ recv_buf' = pktbuf_dequeue(recv_buf, 1)
      /\ oos_mask' = shifted
      /\ written' = IF n # NChunks THEN Append(written, n) ELSE written
      /\ last_written' = IF n # NChunks THEN "data" ELSE "eof"
      /\ out' = {} /\ pc' = "drain"
      /\ UNCHANGED <<expected_seq, need_ack, need_nack, nack_seq, pfds_count, retry, pending, edge>>
  BY <1>1 DEF Drain, WriteFirst, IsData, Kind, reply
<1>3. n \in -1 .. NChunks
  <2>1. pktbuf_first(recv_buf) = SlotAt(recv_buf, 0) /\ SlotAt(recv_buf, 0) \in Slots
    BY <1>1, RingCounters, SlotsAreSlots, SlotAtType
  <2> QED
    BY <1>1, <2>1 DEF FirstChunk, Slots
<1> HIDE DEF n
<1>4. /\ written' \in Seq(-1 .. NChunks)
      /\ Len(written') = IF n # NChunks THEN n + 1 ELSE n
      /\ \A i \in DOMAIN written' : written'[i] = i - 1
  <2>1. /\ Len(written) \in Nat /\ DOMAIN written = 1 .. Len(written)
        /\ \A i \in 1 .. Len(written) : written[i] = i - 1
    BY <1>1 DEF IInv, OutputIsPrefix
  <2>2. CASE n # NChunks
    <3>1. /\ written' = Append(written, n) /\ written' \in Seq(-1 .. NChunks)
          /\ Len(written') = Len(written) + 1
          /\ \A i \in 1 .. Len(written) : written'[i] = written[i]
          /\ written'[Len(written) + 1] = n
      BY <1>1, <1>2, <1>3, <2>2, AppendProperties
    <3>2. ASSUME NEW i \in DOMAIN written' PROVE written'[i] = i - 1
      <4>1. i \in 1 .. Len(written) \/ i = Len(written) + 1
        BY <2>1, <3>1
      <4> QED
        BY <1>1, <2>1, <3>1, <4>1
    <3> QED
      BY <1>1, <2>2, <3>1, <3>2
  <2>3. CASE n = NChunks
    BY <1>1, <1>2, <2>1, <2>3
  <2> QED
    BY <2>2, <2>3
<1>5. NChunks \in Nat /\ n \in 0 .. NChunks
  BY <1>1, <1>3, ReceiverAssumption
<1>5a. \/ n < NChunks /\ last_written' = "data" /\ Len(written') = n + 1
       \/ n = NChunks /\ last_written' = "eof" /\ Len(written') = n
  <2>1. CASE n # NChunks
    <3>1. n < NChunks
      BY <1>5, <2>1
    <3> QED
      BY <1>2, <1>4, <2>1, <3>1
  <2>2. CASE n = NChunks
    BY <1>2, <1>4, <2>2
  <2> QED
    BY <2>1, <2>2
<1>6. OutputIsPrefix' /\ OutputFits'
  BY <1>4, <1>5, <1>5a DEF OutputIsPrefix, OutputFits
<1>7. Delivered' = n + 1
  BY <1>5, <1>5a DEF Delivered
<1>8. recv_buf' \in Rings(Slots) /\ Holds(recv_buf', shifted, n + 1)
  <2>1. n \in Int
    BY <1>5
  <2>2. LET c == pktbuf_dequeue(recv_buf, 1)
        IN  c \in Rings(Slots) /\ Holds(c, {i - 1 : i \in oos_mask \ {0}}, n + 1)
    BY <1>1, <2>1, DequeueHolds
  <2> QED
    BY <1>2, <2>2
<1>9. /\ shifted \in SUBSET (0 .. MaskBits - 1)
      /\ \A i \in shifted : i + 1 \in oos_mask
      /\ InSequence(oos_mask) = InSequence(shifted) + 1
  BY <1>1, ShiftedMask
<1> HIDE DEF shifted
<1>10. TypeOK'
  BY <1>2, <1>4, <1>8, <1>9 DEF IInv, TypeOK, Rings, Slots
<1>11. BufferHolds'
  <2>1. \A i \in oos_mask' : i = 0 \/ i < max_window
    <3>1. \A i \in oos_mask : i = 0 \/ i < max_window
      BY <1>1 DEF IInv, BufferHolds, Terminal
    <3>2. max_window \in Int /\ MaskBits \in Int
      BY ReceiverAssumption, WindowAssumption DEF Windows
    <3> QED
      BY <1>2, <1>9, <3>1, <3>2
  <2>2. expected_seq' = U8(Delivered' + InSequence(oos_mask'))
    <3>1. expected_seq = U8(n + InSequence(oos_mask))
      BY <1>1 DEF IInv, BufferHolds, Terminal, n
    <3>2. InSequence(shifted) \in Int
      BY <1>9, InSequenceIs, ReceiverAssumption
    <3>3. n + InSequence(oos_mask) = (n + 1) + InSequence(shifted)
      BY <1>5, <1>9, <3>2
    <3> QED
      BY <1>2, <1>7, <3>1, <3>3
  <2>3. Holds(recv_buf', oos_mask', Delivered')
    BY <1>2, <1>7, <1>8
  <2> QED
    BY <2>1, <2>2, <2>3 DEF BufferHolds
<1>12. BufferWhere' /\ RetriesBounded' /\ CompleteAtEnd'
  BY <1>1, <1>2 DEF IInv, BufferWhere, RetriesBounded, CompleteAtEnd
<1>13. PeerInWindow'
  <2>1. PeerInWindow /\ edge \in Int /\ max_window \in Int
    BY <1>1, ReceiverAssumption, WindowAssumption DEF IInv, TypeOK, Terminal, Windows
  <2> QED
    BY <1>2, <1>5, <1>7, <2>1 DEF PeerInWindow, n
<1> QED
  BY <1>6, <1>10, <1>11, <1>12, <1>13 DEF IInv

\* A datagram that decodes belongs to a packet between the oldest one of the
\* network and the edge of the windows that were told.
LEMMA DatagramIs ==
  ASSUME NEW d \in Arrivals, d # Corrupt
  PROVE  \E c \in 0 .. NChunks :
           /\ Delivered - Lag <= c /\ c < edge
           /\ d.seq = U8(c)
           /\ d.type \in {"DATA", "TRUNCATED"}
           /\ d.chunk \in -1 .. NChunks
           /\ d.type = "DATA" => d.chunk = c
<1>1. NChunks \in Nat
  BY ReceiverAssumption
<1>2. PICK c \in 0 .. NChunks :
        /\ Delivered - Lag <= c /\ c < edge
        /\ d = Data(U8(c), c) \/ d = Truncated(U8(c))
  BY DEF Arrivals
<1> QED
  BY <1>1, <1>2 DEF Data, Truncated

\* Reads change the buffer as follows: everything the invariant says of it
\* follows for the next state.
Stored(mask) ==
  /\ recv_buf' \in Rings(Slots)
  /\ Holds(recv_buf', mask, Delivered)
  /\ oos_mask' = mask
  /\ mask \in SUBSET (0 .. MaskBits - 1)
  /\ \A i \in mask : i = 0 \/ i < max_window
  /\ expected_seq' = U8(Delivered + InSequence(mask))
  /\ need_nack' \in BOOLEAN /\ nack_seq' \in SeqNums

LEMMA ReadStep ==
  ASSUME IInv, pc \notin Terminal, NEW mask, Stored(mask),
         need_ack' \in BOOLEAN, retry' = 0, pc' \in {"poll", "drain"}, out' = {},
         UNCHANGED <<last_written, written, pfds_count, pending, edge>>,
         BufferWhere'
  PROVE  IInv'
<1>1. Delivered' = Delivered
  BY DEF Delivered
<1>2. TypeOK'
  <2>1. 0 \in 0 .. MaxRetries + MaxLingerRetry
    BY ReceiverAssumption
  <2>2. expected_seq' \in SeqNums
    <3>1. Delivered \in Int /\ InSequence(mask) \in Int
      BY DeliveredType, InSequenceIs, ReceiverAssumption DEF Stored
    <3> QED
      BY <3>1, U8Type DEF Stored
  <2> QED
    BY <2>1, <2>2 DEF Stored, IInv, TypeOK, Rings, Slots
<1>3. BufferHolds'
  BY <1>1 DEF Stored, BufferHolds
<1>4. OutputIsPrefix' /\ OutputFits' /\ PeerInWindow'
  BY <1>1 DEF IInv, OutputIsPrefix, OutputFits, PeerInWindow
<1>5. RetriesBounded' /\ CompleteAtEnd'
  BY DEF RetriesBounded, CompleteAtEnd
<1> QED
  BY <1>2, <1>3, <1>4, <1>5 DEF IInv

\* What the invariant says of a program that waits for a datagram without a
\* packet in sequence.
LEMMA NothingToDrain ==
  ASSUME IInv, pc \notin Terminal, 0 \notin oos_mask
  PROVE  /\ recv_buf \in Rings(Slots) /\ Holds(recv_buf, oos_mask, Delivered)
         /\ oos_mask \in SUBSET (0 .. MaskBits - 1)
         /\ \A i \in oos_mask : i = 0 \/ i < max_window
         /\ Delivered \in Nat /\ Delivered + 0 = Delivered
         /\ InSequence(oos_mask) = 0
         /\ expected_seq = U8(Delivered) /\ expected_seq \in SeqNums
         /\ need_nack \in BOOLEAN /\ nack_seq \in SeqNums
<1>1. oos_mask \in SUBSET (0 .. MaskBits - 1)
  BY DEF IInv, TypeOK
<1>2. InSequence(oos_mask) = 0
  BY <1>1, NoneInSequence
<1>3. Delivered \in Nat /\ Delivered + 0 = Delivered
  BY DeliveredType, ReceiverAssumption
<1> QED
  BY <1>1, <1>2, <1>3 DEF IInv, TypeOK, Rings, Slots, BufferHolds

\* What process_incoming_pkt does with a packet k places ahead of the next one,
\* inside the window: it stores it there, or asks for it again.
LEMMA ProcessStores ==
  ASSUME IInv, pc \notin Terminal, 0 \notin oos_mask,
         NEW d, d.chunk \in -1 .. NChunks, d.seq \in SeqNums,
         NEW k \in Nat, k = 0 \/ k < max_window,
         d.seq = U8(Delivered + k),
         d.type = "DATA" => d.chunk = Delivered + k,
         process_incoming_pkt(recv_buf, d)
  PROVE  Stored(oos_mask) \/ Stored(oos_mask \cup {k})
<1> DEFINE n == Delivered
           arrived == ReadInto(recv_buf, d.chunk)
<1>1. /\ recv_buf \in Rings(Slots) /\ Holds(recv_buf, oos_mask, n)
      /\ oos_mask \in SUBSET (0 .. MaskBits - 1)
      /\ \A i \in oos_mask : i = 0 \/ i < max_window
      /\ n \in Nat /\ n + 0 = n
      /\ InSequence(oos_mask) = 0
      /\ expected_seq = U8(n) /\ expected_seq \in SeqNums
      /\ need_nack \in BOOLEAN /\ nack_seq \in SeqNums
  BY NothingToDrain
<1>2. /\ k < Capacity /\ k < SeqSpace /\ k < MaskBits
      /\ 0 < Capacity /\ 0 < SeqSpace /\ 0 < MaskBits /\ MaskBits \in Nat
  BY ReceiverAssumption, WindowAssumption, IdxSpaceFactor, SeqSpaceAssumption DEF Windows
<1> HIDE DEF n
<1>3. /\ arrived = Put(recv_buf, U8(n + 0), d.chunk)
      /\ arrived \in Rings(Slots) /\ Holds(arrived, oos_mask, n)
      /\ ~pktbuf_empty(arrived)
      /\ d.chunk = n => Holds(arrived, oos_mask \cup {0}, n)
  <2>1. arrived = Put(recv_buf, U8(n + 0), d.chunk)
    BY <1>1 DEF ReadInto, Put
  <2> HIDE DEF arrived
  <2>2. /\ arrived \in Rings(Slots) /\ Holds(arrived, oos_mask, n)
        /\ 0 \in 0 .. pktbuf_used(arrived) - 1
        /\ d.chunk = n + 0 => Holds(arrived, oos_mask \cup {0}, n)
    BY <1>1, <1>2, <2>1, PutHolds
  <2>3. ~pktbuf_empty(arrived)
    BY <2>2, RingCounters, IdxSpaceFactor
  <2> QED
    BY <1>1, <2>1, <2>2, <2>3
<1> HIDE DEF arrived
<1>4. CASE d.type = "TRUNCATED" /\ ProcessTruncated(recv_buf, d)
  <2>1. /\ recv_buf' = arrived /\ oos_mask' = oos_mask /\ expected_seq' = expected_seq
        /\ need_nack' = TRUE /\ nack_seq' = d.seq
    BY <1>4 DEF ProcessTruncated, arrived
  <2>2. expected_seq' = U8(n + InSequence(oos_mask))
    BY <1>1, <2>1
  <2>3. Stored(oos_mask)
    BY <1>1, <1>3, <2>1, <2>2 DEF Stored, n
  <2> QED
    BY <2>3
<1>5. CASE d.type = "DATA" /\ ProcessInOrder(recv_buf, d)
  <2>1. Distance(recv_buf) = 0 /\ Bit(0) = 0
    BY <1>2, ModSmall DEF Distance, Bit
  <2>2. /\ d.seq = expected_seq /\ recv_buf' = arrived
        /\ oos_mask' = oos_mask \cup {0}
        /\ expected_seq' = U8(expected_seq + InSequence(oos_mask \cup {0}))
        /\ UNCHANGED <<need_nack, nack_seq>>
    BY <1>5, <2>1 DEF ProcessInOrder, arrived
  <2>3. k = 0
    <3>1. U8(n + k) = U8(n + 0)
      BY <1>1, <2>2 DEF n
    <3>2. /\ n + k \in Int /\ n + 0 \in Int
          /\ (n + k) - (n + 0) < SeqSpace /\ (n + 0) - (n + k) < SeqSpace
          /\ SeqSpace \in Nat /\ SeqSpace > 0
      BY <1>1, <1>2, SeqSpaceAssumption
    <3>3. n + k = n + 0
      BY <3>1, <3>2, ModInjective DEF U8
    <3> QED
      BY <1>1, <3>3
  <2>4. oos_mask \cup {0} \in SUBSET (0 .. MaskBits - 1)
    BY <1>1, <1>2
  <2>5. expected_seq' = U8(n + InSequence(oos_mask \cup {0}))
    <3>1. InSequence(oos_mask \cup {0}) \in Int
      BY <1>2, <2>4, InSequenceIs
    <3> QED
      BY <1>1, <2>2, <3>1, U8Add
  <2>6. Holds(recv_buf', oos_mask \cup {0}, n)
    BY <1>1, <1>3, <1>5, <2>2, <2>3 DEF n
  <2>7. Stored(oos_mask \cup {0})
    BY <1>1, <1>3, <2>2, <2>4, <2>5, <2>6 DEF Stored, n
  <2> QED
    BY <2>3, <2>7
<1>6. CASE d.type = "DATA" /\ ProcessOutOfOrder(recv_buf, d)
  <2>1. /\ recv_buf' = Put(arrived, U8(n + k), d.chunk)
        /\ oos_mask' = oos_mask \cup {Bit(Distance(recv_buf) + SeqDiff(d.seq, expected_seq))}
        /\ UNCHANGED <<expected_seq, need_nack, nack_seq>>
    BY <1>6 DEF ProcessOutOfOrder, arrived, Put, n
  <2>2. k # 0
    <3>1. d.seq # expected_seq
      BY <1>6 DEF ProcessOutOfOrder
    <3> QED
      BY <1>1, <3>1 DEF n
  <2>3. Bit(Distance(recv_buf) + SeqDiff(d.seq, expected_seq)) = k
    <3>1. Distance(recv_buf) = 0
      BY DEF Distance
    <3>2. SeqDiff(d.seq, expected_seq) = k
      <4>1. n + k \in Int /\ n \in Int /\ (n + k) - n = k /\ k \in SeqNums
        BY <1>1, <1>2, SeqSpaceAssumption DEF SeqNums
      <4>2. U8(n + k) \in Int /\ SeqDiff(U8(n + k), U8(n)) = U8(U8(n + k) - n)
        <5>1. U8(n + k) \in Int
          BY <4>1, U8Type, SeqSpaceAssumption DEF SeqNums
        <5> QED
          BY <4>1, <5>1, SeqDiffReduce
      <4>3. U8(U8(n + k) - n) = SeqDiff(U8(n + k), n) /\ SeqDiff(U8(n + k), n) = U8((n + k) - n)
        BY <4>1, SeqDiffReduce DEF SeqDiff
      <4> QED
        BY <1>1, <4>1, <4>2, <4>3, U8Small DEF n
    <3>3. 0 + k = k /\ k \in 0 .. MaskBits - 1
      BY <1>2
    <3> QED
      BY <1>2, <3>1, <3>2, <3>3, ModSmall DEF Bit
  <2>4. recv_buf' \in Rings(Slots) /\ Holds(recv_buf', oos_mask \cup {k}, n)
    <3>1. d.chunk = n + k
      BY <1>6 DEF n
    <3> QED
      BY <1>1, <1>2, <1>3, <2>1, <3>1, PutHolds
  <2>5. /\ oos_mask \cup {k} \in SUBSET (0 .. MaskBits - 1)
        /\ 0 \notin oos_mask \cup {k}
        /\ \A i \in oos_mask \cup {k} : i = 0 \/ i < max_window
    BY <1>1, <1>2, <2>2
  <2>6. expected_seq' = U8(n + InSequence(oos_mask \cup {k}))
    <3>1. InSequence(oos_mask \cup {k}) = 0
      BY <2>5, NoneInSequence
    <3> QED
      BY <1>1, <2>1, <3>1
  <2>7. Stored(oos_mask \cup {k})
    BY <1>1, <2>1, <2>3, <2>4, <2>5, <2>6 DEF Stored, n
  <2> QED
    BY <2>7
<1> QED
  BY <1>4, <1>5, <1>6 DEF process_incoming_pkt

\* The packets of the mask can be counted; a window of 0 is always full.
LEMMA RoomInWindow ==
  ASSUME IInv
  PROVE  /\ IsFiniteSet(oos_mask) /\ Cardinality(oos_mask) \in Nat
         /\ max_window \in Nat
         /\ ~rbuf_full => max_window > 0
<1>1. IsFiniteSet(0 .. MaskBits - 1)
  BY FS_Interval, ReceiverAssumption
<1>2. IsFiniteSet(oos_mask)
  BY <1>1, FS_Subset DEF IInv, TypeOK
<1>3. Cardinality(oos_mask) \in Nat /\ max_window \in Nat
  BY <1>2, FS_CardinalityType, ReceiverAssumption, WindowAssumption DEF Windows
<1> QED
  BY <1>2, <1>3 DEF rbuf_full

\* A window of one packet is full with it.
LEMMA FullWithOne ==
  ASSUME IInv, BlocksOrWindowIsOne, OutNonBlocking, pc \notin Terminal, ~rbuf_full
  PROVE  0 \notin oos_mask
<1> SUFFICES ASSUME 0 \in oos_mask PROVE FALSE
  OBVIOUS
<1>1. /\ oos_mask \in SUBSET (0 .. MaskBits - 1)
      /\ \A i \in oos_mask : i = 0 \/ i < max_window
      /\ max_window \in Nat /\ max_window <= 1 /\ MaskBits \in Nat
  BY RoomInWindow, ReceiverAssumption DEF IInv, TypeOK, BufferHolds, BlocksOrWindowIsOne
<1>2. oos_mask = {0}
  <2>1. ASSUME NEW i \in oos_mask PROVE i = 0
    <3>1. i \in 0 .. MaskBits - 1 /\ (i = 0 \/ i < max_window)
      BY <1>1
    <3> QED
      BY <1>1, <3>1
  <2> QED
    BY <2>1
<1>3. Cardinality(oos_mask) = 1
  BY <1>2, FS_Singleton
<1> QED
  BY <1>1, <1>3 DEF rbuf_full

\* The first packet of the transfer connects the receiver.
LEMMA KeepConnect ==
  ASSUME IInv, NEW d \in Arrivals, Connect(d)
  PROVE  IInv'
<1>1. /\ pc = "wait" /\ pc' = "poll" /\ d # Corrupt /\ d.seq = 0
      /\ oos_mask = {} /\ Delivered = 0 /\ edge = 1
      /\ need_ack' = TRUE /\ retry' = 0 /\ out' = {}
      /\ UNCHANGED <<last_written, written, pfds_count, pending, edge>>
      /\ process_incoming_pkt(recv_buf, d)
  BY DEF Connect, IInv, BufferWhere, Terminal, output
<1>2. PICK c \in 0 .. NChunks :
        /\ c < edge /\ d.seq = U8(c)
        /\ d.chunk \in -1 .. NChunks
        /\ d.type = "DATA" => d.chunk = c
  BY <1>1, DatagramIs
<1>3. /\ c = 0 /\ 0 + 0 = 0 /\ U8(0) = 0 /\ 0 \in SeqNums
  <2>1. 0 \in SeqNums
    BY SeqSpaceAssumption DEF SeqNums
  <2> QED
    BY <1>1, <1>2, <2>1, U8Small, ReceiverAssumption
<1>4. PICK mask \in {oos_mask, oos_mask \cup {0}} : Stored(mask)
  <2>1. pc \notin Terminal /\ 0 \notin oos_mask
    BY <1>1 DEF Terminal
  <2>2. /\ d.seq \in SeqNums /\ d.seq = U8(Delivered + 0)
        /\ d.type = "DATA" => d.chunk = Delivered + 0
        /\ 0 \in Nat
    BY <1>1, <1>2, <1>3
  <2>3. Stored(oos_mask) \/ Stored(oos_mask \cup {0})
    BY <1>1, <1>2, <2>1, <2>2, ProcessStores
  <2> QED
    BY <2>3
<1>5. BufferWhere'
  <2>1. Delivered' = 0 /\ edge' = 1 /\ (oos_mask' = {} \/ oos_mask' = {0})
    BY <1>1, <1>4 DEF Stored, Delivered
  <2> QED
    BY <1>1, <2>1 DEF BufferWhere
<1> QED
  BY <1>1, <1>4, <1>5, ReadStep DEF Terminal

\* A datagram that the window check accepts belongs to a packet of the window,
\* and comes when no packet in sequence is left in the buffer: an older packet
\* is too far behind, and the first packet again is not inside the window.
LEMMA AcceptedIs ==
  ASSUME IInv, BlocksOrWindowIsOne, OldPacketsAreTold, pc = "poll", ~rbuf_full,
         NEW d \in Arrivals, InWindow(d, expected_seq, window_size)
  PROVE  /\ 0 \notin oos_mask
         /\ d.chunk \in -1 .. NChunks /\ d.seq \in SeqNums
         /\ \E k \in Nat : /\ k < max_window
                           /\ d.seq = U8(Delivered + k)
                           /\ d.type = "DATA" => d.chunk = Delivered + k
<1> DEFINE n == Delivered
<1>1. /\ d # Corrupt /\ SeqDiff(d.seq, expected_seq) <= window_size
  BY DEF InWindow, Corrupt
<1>2. PICK c \in 0 .. NChunks :
        /\ n - Lag <= c /\ c < edge
        /\ d.seq = U8(c)
        /\ d.chunk \in -1 .. NChunks
        /\ d.type = "DATA" => d.chunk = c
  BY <1>1, DatagramIs
<1>3. /\ n \in Nat /\ c \in Nat /\ c \in Int /\ max_window \in Nat /\ max_window > 0
      /\ Lag \in Nat /\ SeqSpace \in Nat /\ max_window < SeqSpace /\ edge \in Int
  BY DeliveredType, RoomInWindow, ReceiverAssumption, WindowAssumption, SeqSpaceAssumption
  DEF IInv, TypeOK, Windows
<1>4a. 0 \notin oos_mask \/ (oos_mask = {0} /\ n = 0 /\ edge = 1)
  <2>1. OutNonBlocking => 0 \notin oos_mask
    BY FullWithOne DEF Terminal
  <2> QED
    BY <2>1 DEF IInv, BufferWhere, Terminal
<1>4. /\ edge = 1 \/ edge <= n + max_window
      /\ 0 \notin oos_mask \/ (oos_mask = {0} /\ n = 0 /\ edge = 1)
      /\ expected_seq = U8(n + InSequence(oos_mask))
      /\ oos_mask \in SUBSET (0 .. MaskBits - 1)
  BY <1>4a DEF IInv, TypeOK, BufferHolds, PeerInWindow, Terminal
<1> HIDE DEF n
<1>5. ASSUME NEW a \in Int, NEW b \in Int
      PROVE  SeqDiff(U8(a), U8(b)) = U8(a - b)
  <2>1. U8(a) \in Int
    BY U8Type, SeqSpaceAssumption DEF SeqNums
  <2>2. SeqDiff(U8(a), U8(b)) = U8(U8(a) - b)
    BY <2>1, SeqDiffReduce
  <2>3. U8(U8(a) - b) = U8(a - b)
    BY SeqDiffReduce DEF SeqDiff
  <2> QED
    BY <2>2, <2>3
<1>6. ASSUME NEW i \in Int, -SeqSpace < i, i < 0
      PROVE  U8(i) = SeqSpace + i
  <2>1. (SeqSpace * 1 + i) % SeqSpace = i % SeqSpace
    <3>1. SeqSpace > 0 /\ 1 \in Int
      BY SeqSpaceAssumption
    <3> QED
      BY <1>3, <3>1, ModShift, Zenon
  <2>2. SeqSpace * 1 + i = SeqSpace + i /\ SeqSpace + i \in 0 .. SeqSpace - 1
    BY <1>3, <1>6
  <2>3. (SeqSpace + i) % SeqSpace = SeqSpace + i
    BY <1>3, <2>2, ModSmall
  <2> QED
    BY <2>1, <2>2, <2>3 DEF U8
<1>7. 0 \notin oos_mask
  <2> SUFFICES ASSUME oos_mask = {0}, n = 0, edge = 1 PROVE FALSE
    BY <1>4
  <2>1. InSequence(oos_mask) = 1
    <3>1. 1 \in Nat /\ 0 .. 1 - 1 \subseteq oos_mask /\ 1 \notin oos_mask
      OBVIOUS
    <3> QED
      BY <1>4, <3>1, InSequenceUnique
  <2>2. c = 0 /\ d.seq = U8(0) /\ expected_seq = U8(1) /\ window_size = max_window - 1
    BY <1>2, <1>3, <1>4, <2>1 DEF window_size
  <2>3. SeqDiff(U8(0), U8(1)) = U8(0 - 1) /\ 0 - 1 = -1
    BY <1>5
  <2>4. -SeqSpace < -1
    BY SeqSpaceAssumption
  <2>5. U8(-1) = SeqSpace + (-1)
    BY <1>6, <2>4
  <2> QED
    BY <1>1, <1>3, <2>2, <2>3, <2>5
<1>8. /\ InSequence(oos_mask) = 0 /\ expected_seq = U8(n) /\ window_size = max_window
  <2>1. InSequence(oos_mask) = 0
    BY <1>4, <1>7, NoneInSequence
  <2> QED
    BY <1>3, <1>4, <2>1 DEF window_size
<1>9. U8(c - n) <= max_window
  BY <1>1, <1>2, <1>3, <1>5, <1>8
<1>10. c >= n
  <2> SUFFICES ASSUME c < n PROVE FALSE
    BY <1>3
  <2>1. c - n \in Int /\ -SeqSpace < c - n /\ c - n < 0
    BY <1>2, <1>3 DEF OldPacketsAreTold
  <2>2. U8(c - n) = SeqSpace + (c - n)
    BY <1>6, <2>1
  <2> QED
    BY <1>2, <1>3, <1>9, <2>2 DEF OldPacketsAreTold
<1>11. c - n \in Nat /\ c - n < max_window /\ n + (c - n) = c
  BY <1>2, <1>3, <1>4, <1>10
<1>12. d.seq \in SeqNums
  BY <1>2, <1>3, U8Type
<1> QED
  BY <1>2, <1>7, <1>11, <1>12 DEF n

\* A datagram is accepted.
LEMMA KeepAccept ==
  ASSUME IInv, BlocksOrWindowIsOne, OldPacketsAreTold, NEW d \in Arrivals, Accept(d)
  PROVE  IInv'
<1>1. /\ pc = "poll" /\ pc' = "drain" /\ out' = {} /\ retry' = 0
      /\ need_ack' = (need_ack \/ ~need_nack')
      /\ UNCHANGED <<last_written, written, pfds_count, pending, edge>>
      /\ process_incoming_pkt(recv_buf, d)
  BY DEF Accept, SocketRead, IInv, RetriesBounded, output
<1>2. /\ 0 \notin oos_mask /\ d.chunk \in -1 .. NChunks /\ d.seq \in SeqNums
      /\ \E k \in Nat : /\ k < max_window
                        /\ d.seq = U8(Delivered + k)
                        /\ d.type = "DATA" => d.chunk = Delivered + k
  BY <1>1, AcceptedIs DEF Accept
<1>3. \E mask : Stored(mask)
  BY <1>1, <1>2, ProcessStores DEF Terminal
<1>4. need_ack' \in BOOLEAN
  BY <1>1
<1>5. BufferWhere'
  BY <1>1 DEF BufferWhere
<1> QED
  BY <1>1, <1>3, <1>4, <1>5, ReadStep DEF Terminal

\* A datagram is dropped, after it was read into a free slot.
LEMMA KeepDrop ==
  ASSUME IInv, BlocksOrWindowIsOne, NEW d \in Arrivals, Drop(d)
  PROVE  IInv'
<1> DEFINE chunk == IF d = Corrupt THEN -1 ELSE d.chunk
           n == Delivered
           k == InSequence(oos_mask)
<1>1. /\ pc = "poll" /\ pc' = "drain" /\ out' = {} /\ retry' = 0 /\ ~rbuf_full
      /\ need_ack' = (need_ack \/ ~need_nack')
      /\ UNCHANGED <<last_written, written, pfds_count, pending, edge>>
      /\ UNCHANGED <<oos_mask, expected_seq, need_nack, nack_seq>>
      /\ recv_buf' = ReadInto(recv_buf, chunk)
  BY DEF Drop, SocketRead, IInv, RetriesBounded, output
<1>2. chunk \in -1 .. NChunks
  BY DatagramIs, ReceiverAssumption
<1> HIDE DEF chunk
<1>3. /\ recv_buf \in Rings(Slots) /\ Holds(recv_buf, oos_mask, n)
      /\ oos_mask \in SUBSET (0 .. MaskBits - 1)
      /\ \A i \in oos_mask : i = 0 \/ i < max_window
      /\ 0 \notin oos_mask \/ oos_mask = {0}
      /\ expected_seq = U8(n + k)
      /\ need_nack \in BOOLEAN /\ nack_seq \in SeqNums /\ n \in Int
  BY <1>1, DeliveredType, ReceiverAssumption, FullWithOne
  DEF IInv, TypeOK, Rings, Slots, BufferHolds, BufferWhere, Terminal
<1>4. k \notin oos_mask /\ (k = 0 \/ (k = 1 /\ 0 \in oos_mask))
  <2>1. CASE 0 \notin oos_mask
    BY <1>3, <2>1, NoneInSequence
  <2>2. CASE oos_mask = {0}
    <3>1. 1 \in Nat /\ 0 .. 1 - 1 \subseteq oos_mask /\ 1 \notin oos_mask
      BY <2>2
    <3>2. k = 1
      BY <1>3, <3>1, InSequenceUnique
    <3> QED
      BY <2>2, <3>2
  <2> QED
    BY <1>3, <2>1, <2>2
<1> HIDE DEF k
<1>5. k \in Nat /\ k < Capacity /\ k < SeqSpace /\ (pktbuf_empty(recv_buf) => k = 0)
  <2>1. 1 < Capacity /\ 1 < SeqSpace /\ Capacity \in Nat /\ SeqSpace \in Nat
    BY ReceiverAssumption, WindowAssumption, IdxSpaceFactor, SeqSpaceAssumption
  <2>2. 0 \in oos_mask => ~pktbuf_empty(recv_buf)
    <3>1. 0 \in oos_mask => 0 \in 0 .. pktbuf_used(recv_buf) - 1
      BY <1>3 DEF Holds
    <3>2. pktbuf_empty(recv_buf) => pktbuf_used(recv_buf) = 0
      BY <1>3, RingCounters
    <3> QED
      BY <3>1, <3>2
  <2>3. k \in Nat /\ k < Capacity /\ k < SeqSpace
    BY <1>4, <2>1
  <2> QED
    BY <1>4, <2>2, <2>3
<1>6. recv_buf' = Put(recv_buf, U8(n + k), chunk)
  BY <1>1, <1>3 DEF ReadInto, Put
<1>7. recv_buf' \in Rings(Slots) /\ Holds(recv_buf', oos_mask, n)
  BY <1>2, <1>3, <1>4, <1>5, <1>6, PutHolds
<1>8. Stored(oos_mask)
  BY <1>1, <1>3, <1>7 DEF Stored, n, k
<1>9. BufferWhere' /\ need_ack' \in BOOLEAN
  BY <1>1 DEF BufferWhere
<1> QED
  BY <1>1, <1>8, <1>9, ReadStep DEF Terminal

\* A datagram is discarded, or a lookup for it ends the process.
LEMMA KeepDiscard ==
  ASSUME IInv, NEW d \in Arrivals, Discard(d) \/ AssertFails(d)
  PROVE  IInv'
<1>1. Quiet /\ pc' \in {"drain", "failed"} /\ retry' = retry /\ pc = "poll"
  BY DEF Discard, AssertFails, SocketRead, Quiet, IInv, TypeOK, Terminal, reply, output
<1>2. RetriesBounded' /\ BufferWhere' /\ CompleteAtEnd'
  BY <1>1 DEF IInv, RetriesBounded, BufferWhere, CompleteAtEnd, Terminal
<1> QED
  BY <1>1, <1>2, QuietStep

-----------------------------------------------------------------------------
(***************************************************************************)
(* The invariant holds                                                     *)
(***************************************************************************)

\* receive() starts with the slot of packet 0, and nothing in it.
LEMMA InitInvariant ==
  ASSUME Init
  PROVE  IInv
<1> DEFINE new == pktbuf_new(Blank)
<1>1. /\ 0 \in SeqNums /\ NChunks \in Nat /\ MaxRetries \in Nat /\ MaxRetries > 0
      /\ MaxLingerRetry \in Nat /\ MaskBits \in Nat /\ MaxWindow \in Nat
  BY ReceiverAssumption, SeqSpaceAssumption, WindowAssumption DEF SeqNums
<1>2. Blank \in Slots /\ new \in Rings(Slots) /\ pktbuf_empty(new)
  BY <1>1, IdxSpaceFactor DEF Blank, Slots, Rings, pktbuf_new, pktbuf_empty
<1>3. pktbuf_used(new) = 0
  BY <1>2, RingCounters
<1> HIDE DEF new
<1>4. /\ recv_buf \in Rings(Slots) /\ pktbuf_used(recv_buf) = 1
      /\ SlotAt(recv_buf, 0) = Blank
  <2>1. recv_buf = pktbuf_enqueue(new, Blank) /\ pktbuf_used(new) < Capacity
    BY <1>3, IdxSpaceFactor DEF Init, new
  <2>2. LET c == pktbuf_enqueue(new, Blank)
        IN  /\ c \in Rings(Slots)
            /\ pktbuf_used(c) = pktbuf_used(new) + 1
            /\ SlotAt(c, pktbuf_used(new)) = Blank
    BY <1>2, <2>1, EnqueueAppends
  <2> QED
    BY <1>3, <2>1, <2>2
<1>5. Holds(recv_buf, {}, 0)
  <2>1. \A i \in 0 .. 1 - 1 : i = 0 /\ 0 + i = 0
    OBVIOUS
  <2>2. SeqAt(recv_buf, 0) = U8(0)
    BY <1>1, <1>4, U8Small DEF SeqAt, Blank
  <2> QED
    BY <1>4, <2>1, <2>2, IdxSpaceFactor DEF Holds
<1>6. /\ oos_mask = {} /\ expected_seq = 0 /\ nack_seq = 0 /\ retry = 0 /\ edge = 1
      /\ need_ack = FALSE /\ need_nack = FALSE /\ pending = FALSE
      /\ last_written = "none" /\ written = << >> /\ out = {}
      /\ pfds_count = 2 /\ pc = "wait"
  BY DEF Init
<1>7. Len(written) = 0 /\ Delivered = 0 /\ InSequence(oos_mask) = 0
  <2>1. InSequence({}) = 0
    BY NoneInSequence
  <2> QED
    BY <1>6, <2>1 DEF Delivered
<1>8. TypeOK
  <2>1. << >> \in Seq(-1 .. NChunks)
    OBVIOUS
  <2>2. 1 \in 1 .. NChunks + 1 + MaxWindow /\ 0 \in 0 .. MaxRetries + MaxLingerRetry
    BY <1>1
  <2>3. recv_buf \in [first : 0 .. IdxSpace - 1, last : 0 .. IdxSpace - 1,
                      head : [SlotIds -> [seq : SeqNums, chunk : -1 .. NChunks]]]
    BY <1>4 DEF Rings, Slots
  <2> QED
    BY <1>1, <1>6, <2>1, <2>2, <2>3 DEF TypeOK
<1>9. BufferHolds
  BY <1>1, <1>5, <1>6, <1>7, U8Small DEF BufferHolds
<1>10. OutputIsPrefix /\ OutputFits /\ CompleteAtEnd
  BY <1>1, <1>6, <1>7 DEF OutputIsPrefix, OutputFits, CompleteAtEnd
<1>11. BufferWhere /\ PeerInWindow /\ RetriesBounded
  BY <1>1, <1>6, <1>7 DEF BufferWhere, PeerInWindow, RetriesBounded
<1> QED
  BY <1>8, <1>9, <1>10, <1>11 DEF IInv

\* A step that changes nothing.
LEMMA KeepStutter ==
  ASSUME IInv, UNCHANGED vars
  PROVE  IInv'
<1>1. Delivered' = Delivered
  BY DEF vars, output, Delivered
<1>2. TypeOK' /\ OutputIsPrefix' /\ RetriesBounded'
  BY DEF vars, reply, output, IInv, TypeOK, OutputIsPrefix, RetriesBounded
<1>3. OutputFits' /\ CompleteAtEnd'
  BY <1>1 DEF vars, output, IInv, OutputFits, CompleteAtEnd
<1>4. (pc \notin Terminal => BufferHolds /\ BufferWhere /\ PeerInWindow)'
  BY <1>1 DEF vars, IInv, BufferHolds, BufferWhere, PeerInWindow
<1> QED
  BY <1>2, <1>3, <1>4 DEF IInv

\* Every step keeps the invariant.
LEMMA NextInvariant ==
  ASSUME BlocksOrWindowIsOne, OldPacketsAreTold, IInv, [Next]_vars
  PROVE  IInv'
<1>1. CASE UNCHANGED vars \/ Terminated
  BY <1>1, KeepStutter DEF Terminated
<1>2. ASSUME NEW d \in Arrivals,
             Connect(d) \/ WaitIgnore(d) \/ Accept(d) \/ Drop(d) \/ Discard(d)
               \/ AssertFails(d)
      PROVE  IInv'
  BY <1>2, KeepConnect, KeepWaiting, KeepAccept, KeepDrop, KeepDiscard
<1>3. CASE WaitError \/ OutputReady \/ Fail
  BY <1>3, KeepWaiting, KeepPolling
<1>4. CASE Drain \/ DrainEnd \/ OutputWouldBlock \/ OutputError
  BY <1>4, KeepDrain, KeepDrainEnd
<1>5. CASE Reply \/ LingerArrival \/ LingerAck \/ LingerEnd \/ LingerFail
  BY <1>5, KeepReply, KeepLingering
<1> QED
  BY <1>1, <1>2, <1>3, <1>4, <1>5 DEF Next

\* The end of an iteration sends an ACK and a NACK, each if it is due.
LEMMA ReplyAnswers ==
  ASSUME Reply
  PROVE  \A d \in out' : \/ need_ack /\ d = Answer("ACK", expected_seq)
                         \/ need_nack /\ d = Answer("NACK", nack_seq)
<1> DEFINE ack == Answer("ACK", expected_seq)
           nack == Answer("NACK", nack_seq)
           acks == {d \in {ack} : need_ack}
           nacks == {d \in {nack} : need_nack}
           packets == (IF need_ack THEN <<ack>> ELSE << >>)
                        \o (IF need_nack THEN <<nack>> ELSE << >>)
           after == IF last_written = "eof" /\ pktbuf_empty(recv_buf) THEN "linger" ELSE "poll"
<1>1. NetSend(packets, after)
  BY DEF Reply
<1> HIDE DEF ack, nack, after
<1>2. packets \in Seq(acks \cup nacks)
  <2>1. (IF need_ack THEN <<ack>> ELSE << >>) \in Seq(acks \cup nacks)
    <3>1. need_ack => <<ack>> \in Seq(acks \cup nacks)
      OBVIOUS
    <3>2. << >> \in Seq(acks \cup nacks)
      OBVIOUS
    <3> QED
      BY <3>1, <3>2
  <2>2. (IF need_nack THEN <<nack>> ELSE << >>) \in Seq(acks \cup nacks)
    <3>1. need_nack => <<nack>> \in Seq(acks \cup nacks)
      OBVIOUS
    <3>2. << >> \in Seq(acks \cup nacks)
      OBVIOUS
    <3> QED
      BY <3>1, <3>2
  <2> QED
    BY <2>1, <2>2, ConcatProperties
<1> HIDE DEF packets
<1>3. out' \subseteq acks \cup nacks
  BY <1>1, <1>2, NetSendType
<1> QED
  BY <1>3 DEF ack, nack

\* The last ACK is sent or not.
LEMMA LingerAnswers ==
  ASSUME LingerAck
  PROVE  \A d \in out' : d = Answer("ACK", expected_seq)
<1> DEFINE ack == Answer("ACK", expected_seq)
<1>1. NetSend(<<ack>>, "linger")
  BY DEF LingerAck
<1> HIDE DEF ack
<1>2. <<ack>> \in Seq({ack})
  OBVIOUS
<1>3. out' \subseteq {ack}
  BY <1>1, <1>2, NetSendType
<1> QED
  BY <1>3 DEF ack

-----------------------------------------------------------------------------
(***************************************************************************)
(* Theorems                                                                *)
(***************************************************************************)

\* IInv is an invariant of receive(), its wait for the first packet included.
THEOREM ReceiverInvariant ==
  ASSUME BlocksOrWindowIsOne, OldPacketsAreTold
  PROVE  Spec => []IInv
<1>1. Init => IInv
  BY InitInvariant
<1>2. IInv /\ [Next]_vars => IInv'
  BY NextInvariant
<1> QED
  BY <1>1, <1>2, PTL DEF Spec

\* The variables of receive() and the slots of its ring keep their types; the
\* windows it announces never let the peer pass the end by more than a window.
THEOREM ReceiverTypeOK ==
  ASSUME BlocksOrWindowIsOne, OldPacketsAreTold
  PROVE  Spec => []TypeOK
<1>1. IInv => TypeOK
  BY DEF IInv
<1> QED
  BY <1>1, ReceiverInvariant, PTL

\* expected_seq is the number of the first packet the receiver does not have,
\* however its mask was shifted and its ring was moved.
THEOREM ReceiverExpectedIsNext ==
  ASSUME BlocksOrWindowIsOne, OldPacketsAreTold
  PROVE  Spec => []ExpectedIsNext
<1>1. IInv => ExpectedIsNext
  BY DEF IInv, BufferHolds, ExpectedIsNext
<1> QED
  BY <1>1, ReceiverInvariant, PTL

\* The packets of the mask are in the slots of the ring that belong to them:
\* process_incoming_pkt stores each one where do_empty_rbuf will look for it.
THEOREM ReceiverMaskDescribesBuffer ==
  ASSUME BlocksOrWindowIsOne, OldPacketsAreTold
  PROVE  Spec => []MaskDescribesBuffer
<1>1. ASSUME IInv, pc \notin Terminal
      PROVE  /\ pktbuf_used(recv_buf) <= Capacity
             /\ \A i \in oos_mask :
                  /\ i < pktbuf_used(recv_buf)
                  /\ recv_buf.head[mask_index(recv_buf.first + i)] =
                       [seq |-> U8(Delivered + i), chunk |-> Delivered + i]
  <2>1. Holds(recv_buf, oos_mask, Delivered) /\ recv_buf \in Rings(Slots)
    BY <1>1 DEF IInv, TypeOK, Rings, Slots, BufferHolds
  <2>2. pktbuf_used(recv_buf) \in Int
    BY <2>1, RingCounters, IdxSpaceFactor
  <2> QED
    BY <2>1, <2>2 DEF Holds, SlotAt
<1>2. IInv => MaskDescribesBuffer
  BY <1>1 DEF MaskDescribesBuffer
<1> QED
  BY <1>2, ReceiverInvariant, PTL

\* What do_empty_rbuf writes is the input from its start, without a gap and
\* without a packet twice, whatever the network lost, damaged, truncated,
\* repeated or put out of order.
THEOREM ReceiverOutputIsPrefix ==
  ASSUME BlocksOrWindowIsOne, OldPacketsAreTold
  PROVE  Spec => []OutputIsPrefix
<1>1. IInv => OutputIsPrefix
  BY DEF IInv
<1> QED
  BY <1>1, ReceiverInvariant, PTL

\* The buffer that rbuf_full reports is never full of packets that wait for one
\* that would be discarded: the window check leaves the place of the next one.
THEOREM ReceiverFullCanBeEmptied ==
  ASSUME BlocksOrWindowIsOne, OldPacketsAreTold
  PROVE  Spec => []FullCanBeEmptied
<1>1. ASSUME IInv, pc = "poll", rbuf_full, max_window > 0
      PROVE  can_empty_rbuf
  <2>1. /\ recv_buf \in Rings(Slots) /\ Holds(recv_buf, oos_mask, Delivered)
        /\ \A i \in oos_mask : i = 0 \/ i < max_window
        /\ oos_mask \in SUBSET (0 .. MaskBits - 1) /\ MaskBits \in Nat
        /\ max_window \in Nat
    BY <1>1, ReceiverAssumption, RoomInWindow
    DEF IInv, TypeOK, Rings, Slots, BufferHolds, Terminal
  <2>2. 0 \in oos_mask
    <3> SUFFICES ASSUME 0 \notin oos_mask PROVE FALSE
      OBVIOUS
    <3>1. oos_mask \subseteq 1 .. max_window - 1
      BY <2>1
    <3>2. /\ IsFiniteSet(1 .. max_window - 1)
          /\ Cardinality(1 .. max_window - 1) = max_window - 1
      <4>1. 1 \in Int /\ max_window - 1 \in Int /\ ~(1 > max_window - 1 + 1)
        BY <1>1, <2>1
      <4>2. Cardinality(1 .. max_window - 1) =
              IF 1 > max_window - 1 THEN 0 ELSE max_window - 1 - 1 + 1
        BY <4>1, FS_Interval
      <4>3. IsFiniteSet(1 .. max_window - 1)
        BY <4>1, FS_Interval
      <4>4. max_window \in Nat /\ max_window >= 1
        BY <1>1, <2>1
      <4>5. (IF 1 > max_window - 1 THEN 0 ELSE max_window - 1 - 1 + 1) = max_window - 1
        BY <4>4
      <4> QED
        BY <4>2, <4>3, <4>5
    <3>3. Cardinality(oos_mask) <= max_window - 1
      <4>1. Cardinality(oos_mask) <= Cardinality(1 .. max_window - 1)
        BY <3>1, <3>2, FS_Subset
      <4> QED
        BY <3>2, <4>1, Zenon
    <3> QED
      BY <1>1, <2>1, <3>3, RoomInWindow DEF rbuf_full
  <2>3. ~pktbuf_empty(recv_buf)
    <3>1. 0 \in 0 .. pktbuf_used(recv_buf) - 1
      BY <2>1, <2>2 DEF Holds
    <3>2. pktbuf_empty(recv_buf) => pktbuf_used(recv_buf) = 0
      BY <2>1, RingCounters
    <3> QED
      BY <3>1, <3>2
  <2> QED
    BY <2>2, <2>3 DEF can_empty_rbuf
<1>2. IInv => FullCanBeEmptied
  BY <1>1 DEF FullCanBeEmptied
<1> QED
  BY <1>2, ReceiverInvariant, PTL

\* receive() sends its last ACKs, and ends well, only when all the packets of
\* the input and the one that ends it were delivered.
THEOREM ReceiverCompleteAtEnd ==
  ASSUME BlocksOrWindowIsOne, OldPacketsAreTold
  PROVE  Spec => []CompleteAtEnd
<1>1. IInv => CompleteAtEnd
  BY DEF IInv
<1> QED
  BY <1>1, ReceiverInvariant, PTL

\* An ACK, also a repeated one and the last ones, has the number after the last
\* packet the receiver has in sequence.
THEOREM ReceiverAcksOnlyReceived ==
  ASSUME BlocksOrWindowIsOne, OldPacketsAreTold
  PROVE  Spec => AcksOnlyReceived
<1> DEFINE Acks == \A d \in out' : d.type = "ACK" => d.seq = U8(Delivered + InSequence(oos_mask))
<1>1. ASSUME IInv, pc \notin Terminal
      PROVE  expected_seq = U8(Delivered + InSequence(oos_mask))
  BY <1>1 DEF IInv, BufferHolds
<1>2. ASSUME IInv, Reply PROVE Acks
  <2>1. pc \notin Terminal
    BY <1>2 DEF Reply, Terminal
  <2> QED
    BY <1>1, <1>2, <2>1, ReplyAnswers DEF Answer
<1>3. ASSUME IInv, LingerAck PROVE Acks
  <2>1. pc \notin Terminal
    BY <1>3 DEF LingerAck, Terminal
  <2> QED
    BY <1>1, <1>3, <2>1, LingerAnswers DEF Answer
<1>4. ASSUME out' = {} PROVE Acks
  BY <1>4
<1> HIDE DEF Acks
<1>5. IInv /\ [Next]_vars => [Acks]_vars
  BY <1>2, <1>3, <1>4
  DEF Next, Connect, WaitIgnore, WaitError, Accept, Drop, Discard, AssertFails, SocketRead,
      OutputReady, Fail, Drain, DrainEnd, OutputWouldBlock, OutputError, DrainStops, LingerArrival,
      LingerEnd, LingerFail, Terminated
<1>6. AcksOnlyReceived <=> [][Acks]_vars
  BY DEF AcksOnlyReceived, Acks
<1> QED
  BY <1>5, <1>6, ReceiverInvariant, PTL DEF Spec

-----------------------------------------------------------------------------
(***************************************************************************)
(* What the answers tell the peer, for an output that blocks               *)
(***************************************************************************)

\* What is true of an answer from when it is sent: it announces the whole
\* window, an ACK is for packets that are delivered, a NACK names a packet the
\* peer was allowed to send, and edge is not behind the window it opens.
Told(d) ==
  /\ d.window = max_window /\ max_window <= edge
  /\ d.type = "ACK" => \E n \in 0 .. Delivered : d.seq = U8(n) /\ n + max_window <= edge
  /\ d.type = "NACK" => \E c \in 0 .. NChunks : d.seq = U8(c) /\ c < edge

\* The window has not moved since it was told, or an answer is due.
Answers ==
  LET due == need_ack \/ need_nack
      told == Delivered + max_window <= edge
  IN  /\ pc = "poll" => (0 \in oos_mask => need_ack) /\ (due \/ told)
      /\ pc = "drain" => due \/ (0 \notin oos_mask /\ told)
      /\ pc = "reply" => due \/ told
      /\ pc = "linger" => told

NackIsNamed == need_nack => \E c \in 0 .. NChunks : nack_seq = U8(c) /\ c < edge

TellInv == Answers /\ NackIsNamed /\ \A d \in out : Told(d)

\* One more chunk is delivered by a step of do_empty_rbuf, in order.
LEMMA DrainDelivers ==
  ASSUME IInv, Drain
  PROVE  /\ Delivered' = Delivered + 1
         /\ \/ /\ Len(written) < NChunks
               /\ written' = Append(written, Len(written))
               /\ last_written # "eof" /\ last_written' = "data"
            \/ /\ Len(written) = NChunks
               /\ written' = written
               /\ last_written # "eof" /\ last_written' = "eof"
<1>1. /\ FirstChunk = Len(written) /\ last_written # "eof"
      /\ Delivered = Len(written) /\ Len(written) \in Nat /\ Len(written) <= NChunks
      /\ NChunks \in Nat /\ written \in Seq(-1 .. NChunks)
  BY FirstIsNext, DeliveredType, ReceiverAssumption
  DEF Drain, Terminal, IInv, OutputFits, TypeOK
<1>2. CASE Len(written) # NChunks
  <2>1. written' = Append(written, Len(written)) /\ last_written' = "data"
    BY <1>1, <1>2 DEF Drain, WriteFirst, IsData, Kind
  <2>2. Len(written') = Len(written) + 1
    BY <1>1, <2>1
  <2> QED
    BY <1>1, <1>2, <2>1, <2>2 DEF Delivered
<1>3. CASE Len(written) = NChunks
  <2>1. written' = written /\ last_written' = "eof"
    BY <1>1, <1>3 DEF Drain, WriteFirst, IsData, Kind
  <2> QED
    BY <1>1, <1>3, <2>1 DEF Delivered
<1> QED
  BY <1>2, <1>3

\* No other step delivers.
LEMMA OnlyDrainDelivers ==
  ASSUME IInv, Next, ~Drain
  PROVE  written' = written /\ (last_written' = "eof" <=> last_written = "eof")
<1>1. CASE OutputWouldBlock \/ OutputError
  <2>1. /\ pc \notin Terminal /\ 0 \in oos_mask
        /\ last_written' = "data" /\ written' = written
    BY <1>1 DEF OutputWouldBlock, OutputError, DrainStops, Terminal
  <2> QED
    BY <2>1, FirstIsNext
<1>2. CASE ~OutputWouldBlock /\ ~OutputError
  BY <1>2 DEF Next, Connect, WaitIgnore, WaitError, Accept, Drop, Discard, AssertFails,
              SocketRead, OutputReady, Fail, DrainEnd, Reply, LingerArrival, LingerAck,
              LingerEnd, LingerFail, Terminated, output, vars
<1> QED
  BY <1>1, <1>2

\* receive() ends once, and with success only if the transfer was complete.
LEMMA EndIsComplete ==
  ASSUME IInv, Next
  PROVE  /\ pc \in Terminal => pc' = pc
         /\ pc \notin Terminal /\ pc' = "done" => last_written = "eof"
<1>1. ASSUME pc \in Terminal PROVE pc' = pc
  BY <1>1 DEF Next, Connect, WaitIgnore, WaitError, Accept, Drop, Discard, AssertFails,
              SocketRead, OutputReady, Fail, Drain, DrainEnd, OutputWouldBlock, OutputError, DrainStops,
              Reply, LingerArrival, LingerAck, LingerEnd, LingerFail, Terminated, Terminal, vars
<1>2. ASSUME pc \notin Terminal, pc' = "done" PROVE LingerEnd
  BY <1>2 DEF Next, Connect, WaitIgnore, WaitError, Accept, Drop, Discard, AssertFails,
              SocketRead, OutputReady, Fail, Drain, DrainEnd, OutputWouldBlock, OutputError, DrainStops,
              Reply, LingerArrival, LingerAck, LingerFail, NetSend, Terminated, Terminal, vars
<1>3. ASSUME LingerEnd PROVE last_written = "eof"
  <2>1. Delivered = NChunks + 1 /\ Len(written) = NChunks
    BY <1>3 DEF LingerEnd, IInv, CompleteAtEnd
  <2>2. NChunks \in Nat
    BY ReceiverAssumption
  <2> QED
    BY <2>1, <2>2 DEF Delivered
<1> QED
  BY <1>1, <1>2, <1>3

\* What was told stays true as chunks are delivered and the edge moves on.
LEMMA ToldLasts ==
  ASSUME NEW d, Told(d), Delivered \in Int, Delivered' \in Int, edge \in Int, edge' \in Int,
         Delivered <= Delivered', edge <= edge'
  PROVE  Told(d)'
<1>1. /\ d.window = max_window /\ max_window <= edge
      /\ NChunks \in Nat /\ max_window \in Int
  BY ReceiverAssumption, WindowAssumption DEF Told, Windows
<1>2. d.type = "ACK" => \E n \in 0 .. Delivered' : d.seq = U8(n) /\ n + max_window <= edge'
  BY <1>1 DEF Told
<1>3. d.type = "NACK" => \E c \in 0 .. NChunks : d.seq = U8(c) /\ c < edge'
  BY <1>1 DEF Told
<1> QED
  BY <1>1, <1>2, <1>3 DEF Told

\* A step that answers nothing keeps TellInv.
LEMMA SilentTells ==
  ASSUME IInv, TellInv, IInv', Answers', Delivered <= Delivered', edge' = edge, out' = {},
         need_nack' => \/ need_nack /\ nack_seq' = nack_seq
                       \/ \E c \in 0 .. NChunks : nack_seq' = U8(c) /\ c < edge
  PROVE  TellInv'
BY DEF TellInv, NackIsNamed

\* A datagram that is read makes an answer due, and a NACK names its packet.
LEMMA ReadTells ==
  ASSUME IInv, TellInv, IInv', ~OutNonBlocking, NEW d \in Arrivals,
         Connect(d) \/ Accept(d) \/ Drop(d) \/ Discard(d)
  PROVE  TellInv' /\ Delivered' = Delivered /\ edge' = edge
<1>1. /\ out' = {} /\ pc' \in {"poll", "drain"}
      /\ UNCHANGED <<last_written, written, edge>>
  BY DEF Connect, Accept, Drop, Discard, SocketRead, output
<1>2. Delivered' = Delivered /\ Delivered \in Int
  BY <1>1, DeliveredType DEF Delivered
<1>3. (need_ack' \/ need_nack') /\ (pc' = "poll" => need_ack')
  BY DEF Connect, Accept, Drop, Discard, SocketRead, IInv, TypeOK
<1>4. Answers'
  BY <1>1, <1>3 DEF Answers
<1>5. \/ need_nack' = need_nack /\ nack_seq' = nack_seq
      \/ \E c \in 0 .. NChunks : nack_seq' = U8(c) /\ c < edge
  <2>1. CASE Drop(d) \/ Discard(d)
    BY <2>1 DEF Drop, Discard
  <2>2. CASE Connect(d) \/ Accept(d)
    <3>1. d # Corrupt /\ process_incoming_pkt(recv_buf, d)
      BY <2>2 DEF Connect, Accept, InWindow, Corrupt
    <3>2. PICK c \in 0 .. NChunks : c < edge /\ d.seq = U8(c)
      BY <3>1, DatagramIs
    <3>3. nack_seq' = d.seq \/ (need_nack' = need_nack /\ nack_seq' = nack_seq)
      BY <3>1 DEF process_incoming_pkt, ProcessTruncated, ProcessInOrder, ProcessOutOfOrder
    <3> QED
      BY <3>2, <3>3
  <2> QED
    BY <2>1, <2>2
<1> QED
  BY <1>1, <1>2, <1>4, <1>5, SilentTells

\* A step that leaves the answers and the buffer alone, and sends nothing.
LEMMA IdleTells ==
  ASSUME IInv, TellInv, IInv', ~OutNonBlocking,
         \/ \E d \in Arrivals : WaitIgnore(d) \/ AssertFails(d)
         \/ WaitError \/ OutputReady \/ Fail \/ DrainEnd \/ OutputError
         \/ LingerArrival \/ LingerEnd \/ LingerFail
  PROVE  TellInv' /\ Delivered' = Delivered /\ edge' = edge
<1>1. out' = {} /\ UNCHANGED <<oos_mask, need_ack, need_nack, nack_seq, edge>>
  BY DEF WaitIgnore, AssertFails, WaitError, OutputReady, Fail, DrainEnd, OutputError,
         DrainStops, LingerArrival, LingerEnd, LingerFail, reply
<1>2. Delivered' = Delivered
  <2>1. CASE OutputError
    <3>1. last_written # "eof" /\ last_written' = "data" /\ written' = written
      BY <2>1, FirstIsNext DEF OutputError, DrainStops, Terminal
    <3> QED
      BY <3>1 DEF Delivered
  <2>2. CASE ~OutputError
    BY <2>2 DEF Delivered, WaitIgnore, AssertFails, WaitError, OutputReady, Fail,
                DrainEnd, LingerArrival, LingerEnd, LingerFail, output
  <2> QED
    BY <2>1, <2>2
<1>3. \/ pc' \in {"wait", "failed", "done"}
      \/ pc = "poll" /\ pc' = "drain"
      \/ pc = "drain" /\ 0 \notin oos_mask /\ pc' = "reply"
      \/ pc = "linger" /\ pc' = "linger"
  BY DEF WaitIgnore, AssertFails, WaitError, OutputReady, Fail, DrainEnd, OutputError,
         DrainStops, LingerArrival, LingerEnd, LingerFail
<1>4. Answers'
  BY <1>1, <1>2, <1>3 DEF TellInv, Answers
<1>5. Delivered \in Int
  BY DeliveredType
<1> QED
  BY <1>1, <1>2, <1>4, <1>5, SilentTells

LEMMA DrainTells ==
  ASSUME IInv, TellInv, IInv', Drain
  PROVE  TellInv' /\ Delivered' = Delivered + 1 /\ edge' = edge
<1>1. /\ out' = {} /\ pc = "drain" /\ pc' = "drain" /\ 0 \in oos_mask
      /\ UNCHANGED <<need_ack, need_nack, nack_seq, edge>>
  BY DEF Drain, reply
<1>2. Delivered' = Delivered + 1 /\ Delivered \in Int
  BY DrainDelivers, DeliveredType
<1>3. Answers'
  BY <1>1 DEF TellInv, Answers
<1> QED
  BY <1>1, <1>2, <1>3, SilentTells

\* An ACK has the number of the next packet to be delivered, if no packet in
\* sequence is left in the buffer, and every answer the whole window.
LEMMA AnswerIs ==
  ASSUME IInv, pc \notin Terminal, 0 \notin oos_mask, NEW type, NEW seq
  PROVE  /\ Answer(type, seq) = [type |-> type, seq |-> seq, window |-> max_window]
         /\ expected_seq = U8(Delivered)
<1>1. InSequence(oos_mask) = 0 /\ expected_seq = U8(Delivered)
  BY NothingToDrain
<1>2. max_window \in 0 .. MaxWindow /\ MaxWindow \in Nat
  BY ReceiverAssumption, WindowAssumption DEF Windows
<1>3. window_size = max_window
  BY <1>1, <1>2 DEF window_size
<1>4. max_window % (MaxWindow + 1) = max_window
  BY <1>2, ModSmall
<1> QED
  BY <1>1, <1>3, <1>4 DEF Answer

LEMMA ReplyTells ==
  ASSUME IInv, TellInv, IInv', ~OutNonBlocking, Reply
  PROVE  TellInv' /\ Delivered' = Delivered /\ edge <= edge'
<1> DEFINE limit == Delivered + max_window
<1>1. /\ pc = "reply" /\ pc \notin Terminal /\ 0 \notin oos_mask
      /\ edge \in Int /\ Delivered \in Nat /\ max_window \in Nat /\ NChunks \in Nat
  BY DeliveredType, ReceiverAssumption, WindowAssumption
  DEF Reply, IInv, BufferWhere, TypeOK, Terminal, Windows
<1>2. /\ edge' = IF (need_ack \/ need_nack) /\ edge < limit THEN limit ELSE edge
      /\ need_ack' = FALSE /\ need_nack' = FALSE
      /\ UNCHANGED <<oos_mask, last_written, written>>
  BY DEF Reply, output
<1>3. Delivered' = Delivered
  BY <1>2 DEF Delivered
<1>4. edge <= edge' /\ limit <= edge'
  BY <1>1, <1>2 DEF TellInv, Answers
<1>4a. edge' \in Int /\ Delivered + max_window <= edge' /\ max_window <= edge'
  BY <1>1, <1>2, <1>4
<1>5. pc' \in {"poll", "linger", "failed"}
  BY DEF Reply, NetSend
<1>6. Answers'
  BY <1>1, <1>2, <1>3, <1>4, <1>5 DEF Answers
<1>7. ASSUME NEW d \in out' PROVE Told(d)'
  <2>1. CASE need_ack /\ d = Answer("ACK", expected_seq)
    <3>1. d = [type |-> "ACK", seq |-> U8(Delivered), window |-> max_window]
      BY <1>1, <2>1, AnswerIs
    <3>2. Delivered' \in 0 .. Delivered' /\ Delivered' + max_window <= edge' /\ max_window <= edge'
      BY <1>1, <1>3, <1>4a
    <3> QED
      BY <1>3, <3>1, <3>2 DEF Told
  <2>2. CASE need_nack /\ d = Answer("NACK", nack_seq)
    <3>1. d = [type |-> "NACK", seq |-> nack_seq, window |-> max_window]
      BY <1>1, <2>2, AnswerIs
    <3>2. PICK c \in 0 .. NChunks : nack_seq = U8(c) /\ c < edge
      BY <2>2 DEF TellInv, NackIsNamed
    <3>3. c < edge' /\ max_window <= edge'
      BY <1>1, <1>4, <1>4a, <3>2
    <3> QED
      BY <3>1, <3>2, <3>3 DEF Told
  <2> QED
    BY <1>7, <2>1, <2>2, ReplyAnswers
<1> QED
  BY <1>2, <1>3, <1>4, <1>6, <1>7 DEF TellInv, NackIsNamed

LEMMA LingerTells ==
  ASSUME IInv, TellInv, IInv', LingerAck
  PROVE  TellInv' /\ Delivered' = Delivered /\ edge' = edge
<1>1. /\ pc = "linger" /\ pc \notin Terminal /\ 0 \notin oos_mask
      /\ edge \in Int /\ Delivered \in Nat /\ max_window \in Nat
  BY DeliveredType, ReceiverAssumption, WindowAssumption
  DEF LingerAck, IInv, BufferWhere, TypeOK, Terminal, Windows
<1>2. UNCHANGED <<oos_mask, need_ack, need_nack, nack_seq, last_written, written, edge>>
  BY DEF LingerAck, output, reply
<1>3. Delivered' = Delivered
  BY <1>2 DEF Delivered
<1>4. pc' \in {"linger", "failed"}
  BY DEF LingerAck, NetSend
<1>5. Delivered + max_window <= edge
  BY <1>1 DEF TellInv, Answers
<1>6. Answers'
  BY <1>2, <1>3, <1>4, <1>5 DEF Answers
<1>7. ASSUME NEW d \in out' PROVE Told(d)'
  <2>1. d = [type |-> "ACK", seq |-> U8(Delivered), window |-> max_window]
    BY <1>1, LingerAnswers, AnswerIs
  <2>2. Delivered' \in 0 .. Delivered' /\ Delivered' + max_window <= edge' /\ max_window <= edge'
    BY <1>1, <1>2, <1>3, <1>5
  <2> QED
    BY <1>3, <2>1, <2>2 DEF Told
<1> QED
  BY <1>2, <1>3, <1>6, <1>7 DEF TellInv, NackIsNamed

\* Every step keeps TellInv; nothing that was delivered or told is taken back.
LEMMA NextTells ==
  ASSUME IInv, TellInv, IInv', ~OutNonBlocking, [Next]_vars
  PROVE  TellInv' /\ Delivered <= Delivered' /\ edge <= edge'
<1>1. Delivered \in Int /\ edge \in Int
  BY DeliveredType DEF IInv, TypeOK
<1>2. CASE UNCHANGED vars \/ Terminated
  <2>1. UNCHANGED <<pc, out, oos_mask, need_ack, need_nack, nack_seq, last_written, written, edge>>
    BY <1>2 DEF Terminated, vars, reply, output
  <2>2. Delivered' = Delivered
    BY <2>1 DEF Delivered
  <2>3. Answers' /\ NackIsNamed'
    BY <2>1, <2>2 DEF TellInv, Answers, NackIsNamed
  <2>4. \A d \in out' : Told(d)'
    BY <1>1, <2>1, <2>2, ToldLasts DEF TellInv
  <2> QED
    BY <1>1, <2>1, <2>2, <2>3, <2>4 DEF TellInv
<1>3. ASSUME NEW d \in Arrivals, Connect(d) \/ Accept(d) \/ Drop(d) \/ Discard(d)
      PROVE  TellInv' /\ Delivered <= Delivered' /\ edge <= edge'
  BY <1>1, <1>3, ReadTells
<1>4. CASE \/ \E d \in Arrivals : WaitIgnore(d) \/ AssertFails(d)
           \/ WaitError \/ OutputReady \/ Fail \/ DrainEnd \/ OutputError
           \/ LingerArrival \/ LingerEnd \/ LingerFail
  BY <1>1, <1>4, IdleTells
<1>5. CASE Drain
  BY <1>1, <1>5, DrainTells
<1>6. CASE Reply
  BY <1>1, <1>6, ReplyTells
<1>7. CASE LingerAck
  BY <1>1, <1>7, LingerTells
<1>8. ~OutputWouldBlock
  BY DEF OutputWouldBlock, WriteReturns
<1> QED
  BY <1>2, <1>3, <1>4, <1>5, <1>6, <1>7, <1>8 DEF Next

\* Every answer tells the peer the truth, and edge counts what it was told: an
\* ACK is for packets that are in the output, a NACK for a packet the peer was
\* allowed to send, and a window is announced as a whole because no packet in
\* sequence stays in the buffer.
THEOREM ReceiverTells ==
  ASSUME ~OutNonBlocking, OldPacketsAreTold
  PROVE  Spec => [](\A d \in out : Told(d))
<1>1. BlocksOrWindowIsOne
  BY DEF BlocksOrWindowIsOne
<1>2. Init => TellInv
  BY DEF Init, TellInv, Answers, NackIsNamed
<1>3. IInv /\ IInv' /\ TellInv /\ [Next]_vars => TellInv'
  BY NextTells
<1>4. TellInv => \A d \in out : Told(d)
  BY DEF TellInv
<1>5. Spec => []IInv
  BY <1>1, ReceiverInvariant
<1> QED
  BY <1>2, <1>3, <1>4, <1>5, PTL DEF Spec

\* The peer was never told more than the window that starts with the chunk that
\* is delivered next.
NotBeyond == edge <= Delivered + max_window

LEMMA NextNotBeyond ==
  ASSUME IInv, TellInv, IInv', ~OutNonBlocking, NotBeyond, [Next]_vars
  PROVE  NotBeyond'
<1>1. /\ Delivered \in Int /\ Delivered <= Delivered'
      /\ edge \in Int /\ max_window \in Int
  <2>1. Delivered <= Delivered'
    BY NextTells
  <2>2. Delivered \in Int
    BY DeliveredType
  <2>3. edge \in Int /\ max_window \in Int
    <3>1. NChunks \in Nat /\ MaxWindow \in Nat /\ max_window \in 0 .. MaxWindow
      BY ReceiverAssumption, WindowAssumption DEF Windows
    <3>2. edge \in 1 .. NChunks + 1 + MaxWindow
      BY DEF IInv, TypeOK
    <3> QED
      BY <3>1, <3>2
  <2> QED
    BY <2>1, <2>2, <2>3
<1>1a. Delivered' \in Int
  <2>1. Len(written') \in Nat
    BY DEF IInv, TypeOK
  <2> QED
    BY <2>1 DEF Delivered
<1>2. edge' = edge \/ edge' = Delivered + max_window
  BY DEF Next, Connect, WaitIgnore, WaitError, Accept, Drop, Discard, AssertFails, SocketRead,
         OutputReady, Fail, Drain, DrainEnd, OutputWouldBlock, OutputError, DrainStops, Reply,
         LingerArrival, LingerAck, LingerEnd, LingerFail, Terminated, vars
<1> QED
  BY <1>1, <1>1a, <1>2 DEF NotBeyond

\* The window of an ACK ends where the edge is.
LEMMA AckReachesEdge ==
  ASSUME IInv, TellInv, ~OutNonBlocking, NotBeyond, Reply \/ LingerAck,
         NEW d \in out', d.type = "ACK"
  PROVE  U8(d.seq + d.window) = U8(edge')
<1>1. /\ pc \in {"reply", "linger"} /\ pc \notin Terminal /\ 0 \notin oos_mask
      /\ edge \in Int /\ Delivered \in Int /\ max_window \in Int
  BY DeliveredType, ReceiverAssumption, WindowAssumption
  DEF Reply, LingerAck, IInv, BufferWhere, TypeOK, Terminal, Windows
<1>2. d = Answer("ACK", expected_seq)
  BY ReplyAnswers, LingerAnswers DEF Answer
<1>3. d = [type |-> "ACK", seq |-> U8(Delivered), window |-> max_window]
  BY <1>1, <1>2, AnswerIs
<1>4. edge' = Delivered + max_window
  <2>1. CASE Reply
    <3>1. need_ack \/ need_nack
      BY <2>1, ReplyAnswers
    <3>2. edge' = IF edge < Delivered + max_window THEN Delivered + max_window ELSE edge
      BY <2>1, <3>1 DEF Reply
    <3> QED
      BY <1>1, <3>2 DEF NotBeyond
  <2>2. CASE LingerAck
    <3>1. edge' = edge /\ Delivered + max_window <= edge
      BY <2>2 DEF LingerAck, TellInv, Answers
    <3> QED
      BY <1>1, <3>1 DEF NotBeyond
  <2> QED
    BY <2>1, <2>2
<1> QED
  BY <1>1, <1>3, <1>4, U8Add

\* No ACK takes back what an earlier one let the peer send, as long as the
\* output blocks, so that no packet in sequence stays in the buffer, and the
\* window is not empty: the peer sends its first packet in any case.
THEOREM ReceiverWindowIsNotTakenBack ==
  ASSUME ~OutNonBlocking, OldPacketsAreTold, 0 < max_window
  PROVE  Spec => WindowIsNotTakenBack
<1> DEFINE Acks == \A d \in out' : d.type = "ACK" => U8(d.seq + d.window) = U8(edge')
<1>1. BlocksOrWindowIsOne
  BY DEF BlocksOrWindowIsOne
<1>2. Init => TellInv /\ NotBeyond
  BY ReceiverAssumption, WindowAssumption
  DEF Init, TellInv, Answers, NackIsNamed, NotBeyond, Delivered, Windows
<1>3. IInv /\ IInv' /\ TellInv /\ NotBeyond /\ [Next]_vars => TellInv' /\ NotBeyond'
  BY NextTells, NextNotBeyond
<1>4. ASSUME out' = {} PROVE Acks
  BY <1>4
<1>5. ASSUME IInv, TellInv, NotBeyond, Reply \/ LingerAck PROVE Acks
  BY <1>5, AckReachesEdge
<1> HIDE DEF Acks
<1>6. IInv /\ TellInv /\ NotBeyond /\ [Next]_vars => [Acks]_vars
  BY <1>4, <1>5
  DEF Next, Connect, WaitIgnore, WaitError, Accept, Drop, Discard, AssertFails, SocketRead,
      OutputReady, Fail, Drain, DrainEnd, OutputWouldBlock, OutputError, DrainStops,
      LingerArrival, LingerEnd, LingerFail, Terminated
<1>7. Spec => []IInv
  BY <1>1, ReceiverInvariant
<1>8. WindowIsNotTakenBack <=> [][Acks]_vars
  BY DEF WindowIsNotTakenBack, Acks
<1> QED
  BY <1>2, <1>3, <1>6, <1>7, <1>8, PTL DEF Spec

\* What the composition of the programs does to the receiver's variables while
\* the sender makes a step.
LEMMA Cleared ==
  ASSUME IInv, TellInv, out' = {},
         UNCHANGED <<recv_buf, oos_mask, expected_seq, reply, output, pfds_count, retry,
                     pending, pc, edge>>
  PROVE  IInv' /\ TellInv' /\ Delivered' = Delivered /\ edge' = edge
<1>1. Delivered' = Delivered
  BY DEF output, Delivered
<1>2. TypeOK' /\ OutputIsPrefix' /\ RetriesBounded'
  BY DEF reply, output, IInv, TypeOK, OutputIsPrefix, RetriesBounded
<1>3. OutputFits' /\ CompleteAtEnd'
  BY <1>1 DEF output, IInv, OutputFits, CompleteAtEnd
<1>4. (pc \notin Terminal => BufferHolds /\ BufferWhere /\ PeerInWindow)'
  BY <1>1 DEF IInv, BufferHolds, BufferWhere, PeerInWindow
<1>5. TellInv'
  BY <1>1 DEF reply, TellInv, Answers, NackIsNamed
<1> QED
  BY <1>1, <1>2, <1>3, <1>4, <1>5 DEF IInv

=============================================================================
