-------------------------- MODULE SenderRefinement --------------------------
(***************************************************************************)
(* What transmit() only guarantees for some values of its constants.       *)
(* It implements SlidingWindow, and never leaves an open window unused, as *)
(* long as the ring is smaller than the sequence space: with a larger one  *)
(* the sequence numbers do not tell how many packets are in the ring.  The *)
(* fast retransmission finds a packet if the input is a regular file; and  *)
(* with a peer that tells the truth, and an input whose numbers do not     *)
(* repeat, nothing is sent past the windows that were told.                *)
(***************************************************************************)
EXTENDS SenderProofs

(***************************************************************************)
(* The slots that are not in use                                           *)
(***************************************************************************)

\* The ring holds the last Capacity chunks that were read, those that are
\* acknowledged included, or nothing yet.  process_nack takes a slot by its
\* index in the array, whether or not it is in use, and the loop that misses
\* its end reserves slots that hold old packets: what they put on the wire
\* depends on what such slots hold.
RingIsHistory ==
  Running =>
    \A p \in nread - Capacity .. nread - 1 :
      send_buf.head[mask_index(p)] = IF p >= 0 THEN Slot(p) ELSE Blank

\* The last Capacity positions have the slots of the ring.
LEMMA SlotIsRecent ==
  ASSUME NEW n \in Int, NEW j \in Int
  PROVE  \E p \in n - Capacity .. n - 1 : mask_index(p) = mask_index(j)
<1> DEFINE r == mask_index(j - n)
           p == (n - Capacity) + r
<1>1. Capacity \in Nat /\ Capacity > 0 /\ j - n \in Int /\ n - Capacity \in Int
  BY IdxSpaceFactor
<1>2. r \in 0 .. Capacity - 1
  BY <1>1, ModRange DEF mask_index
<1>3. p \in n - Capacity .. n - 1
  BY <1>1, <1>2
<1>4. (((j - n) % Capacity) + (n - Capacity)) % Capacity = ((j - n) + (n - Capacity)) % Capacity
  BY <1>1, ModAdd, Zenon
<1>5. (j - n) + (n - Capacity) = Capacity * (-1) + j
  BY <1>1
<1>6. (Capacity * (-1) + j) % Capacity = j % Capacity
  <2>1. -1 \in Int
    OBVIOUS
  <2> QED
    BY <1>1, <2>1, ModShift, Zenon
<1>7. r + (n - Capacity) = p
  BY <1>1, <1>2
<1>8. mask_index(p) = mask_index(j)
  BY <1>4, <1>5, <1>6, <1>7 DEF mask_index
<1> QED
  BY <1>3, <1>8

\* The ring starts without packets.
LEMMA InitHistory ==
  ASSUME Init
  PROVE  RingIsHistory
<1>1. nread = 0 /\ send_buf.head = [i \in SlotIds |-> Blank]
  BY DEF Init, pktbuf_new
<1>2. ASSUME NEW p \in 0 - Capacity .. 0 - 1
      PROVE  p < 0 /\ mask_index(p) \in SlotIds
  BY IdxSpaceFactor, MaskType
<1> QED
  BY <1>1, <1>2 DEF RingIsHistory

\* A step that leaves the slots and the input alone.
LEMMA SameHistory ==
  ASSUME RingIsHistory, Running, send_buf'.head = send_buf.head, nread' = nread
  PROVE  RingIsHistory'
BY DEF RingIsHistory

\* handle_input_read overwrites the oldest packet of the ring.
LEMMA InputHistory ==
  ASSUME IInv, RingIsHistory, NEW result \in ReadResults, HandleInputRead(result)
  PROVE  RingIsHistory'
<1>1. /\ Running /\ nread' = nread + 1
      /\ send_buf' = pktbuf_enqueue(send_buf, [seq |-> last_chunk_read', chunk |-> nread])
      /\ last_chunk_read' = U8(last_chunk_read + 1)
  BY DEF HandleInputRead, IInv, ReadsWithRoom, Running, Terminal
<1>2. /\ nread \in Nat /\ send_buf.last = U32(nread) /\ last_chunk_read = U8(nread - 1)
      /\ Capacity \in Nat /\ Capacity > 0
      /\ send_buf.head \in [SlotIds -> Slots]
  BY <1>1, Counters, IdxSpaceFactor DEF IInv, TypeOK, Slots
<1>3. last_chunk_read' = U8(nread)
  <2>1. U8(U8(nread - 1) + 1) = U8((nread - 1) + 1) /\ (nread - 1) + 1 = nread
    BY <1>2, U8Add
  <2> QED
    BY <1>1, <1>2, <2>1
<1>4. send_buf'.head = [send_buf.head EXCEPT ![mask_index(nread)] = Slot(nread)]
  <2>1. mask_index(send_buf.last) = mask_index(nread)
    BY <1>2, MaskOfU32
  <2> QED
    BY <1>1, <1>3, <2>1 DEF pktbuf_enqueue, Slot, IInv, TypeOK
<1>5. ASSUME NEW p \in (nread + 1) - Capacity .. (nread + 1) - 1
      PROVE  send_buf'.head[mask_index(p)] = IF p >= 0 THEN Slot(p) ELSE Blank
  <2>1. p \in Int /\ mask_index(p) \in SlotIds /\ mask_index(nread) \in SlotIds
    BY <1>2, MaskType
  <2>2. CASE p = nread
    BY <1>2, <1>4, <2>1, <2>2
  <2>3. CASE p # nread
    <3>1. p \in nread - Capacity .. nread - 1 /\ p < nread /\ nread < p + Capacity
      BY <1>2, <2>3
    <3>2. mask_index(p) # mask_index(nread)
      BY <1>2, <2>1, <3>1, SlotsDiffer
    <3> QED
      BY <1>1, <1>2, <1>4, <2>1, <3>1, <3>2 DEF RingIsHistory
  <2> QED
    BY <2>2, <2>3
<1> QED
  BY <1>1, <1>5 DEF RingIsHistory

\* Every step of the sender keeps the history in the ring, if it goes on.
LEMMA NextHistory ==
  ASSUME IInv, RingIsHistory, [Next]_vars
  PROVE  RingIsHistory'
<1>1. CASE pc' \in Terminal
  BY <1>1 DEF RingIsHistory, Running
<1>2. CASE HandleSocketRead
  <2>1. /\ Running /\ nread' = nread /\ send_buf'.head = send_buf.head
    <3>1. CASE SocketError
      BY <3>1 DEF SocketError, Running, Terminal, input
    <3>2. ASSUME NEW d \in Arrivals,
                 SocketDrop(d) \/ process_nack(d) \/ process_ack(d) \/ process_dup_ack(d)
          PROVE  Running /\ nread' = nread /\ send_buf'.head = send_buf.head
      BY <3>2
      DEF SocketDrop, process_nack, process_ack, process_dup_ack, SocketAccept, Running,
          Terminal, input, pktbuf_dequeue, IInv, TypeOK
    <3> QED
      BY <1>2, <3>1, <3>2 DEF HandleSocketRead
  <2> QED
    BY <2>1, SameHistory
<1>3. ASSUME NEW result \in ReadResults, HandleInputRead(result)
      PROVE  RingIsHistory'
  BY <1>3, InputHistory
<1>4. CASE DoSend
  <2>1. Running /\ nread' = nread /\ send_buf' = send_buf
    BY <1>4, SendKeepsRing DEF DoSend, Running, Terminal, input
  <2> QED
    BY <2>1, SameHistory
<1>5. CASE IdleTimeout \/ Retransmit
  <2>1. Running /\ nread' = nread /\ send_buf' = send_buf
    BY <1>5, RetransmitKeepsRing
    DEF IdleTimeout, Retransmit, Retry, TimerExpires, Running, Terminal, input
  <2> QED
    BY <2>1, SameHistory
<1>6. CASE Abort \/ PollError
  BY <1>1, <1>6 DEF Abort, PollError, Terminal
<1>7. CASE Overrun
  <2>1. pc' \in {IF Capacity < SeqSpace THEN "exited" ELSE "looping", "failed"}
    BY <1>7 DEF Overrun, NetSend, Attempt
  <2> QED
    BY <1>1, <2>1 DEF Terminal
<1>8. CASE Terminated \/ UNCHANGED vars
  BY <1>8 DEF Terminated, vars, input, RingIsHistory, Running
<1> QED
  BY <1>2, <1>3, <1>4, <1>5, <1>6, <1>7, <1>8 DEF Next, Timeout

-----------------------------------------------------------------------------
(***************************************************************************)
(* What the sequence numbers count                                         *)
(***************************************************************************)

\* The distance of two reduced counters is theirs, in a ring smaller than the
\* sequence space.
LEMMA DistanceOfCounters ==
  ASSUME NEW n \in Int, NEW a \in Int, n - a \in 0 .. Capacity, Capacity < SeqSpace
  PROVE  SeqDiff(U8(n - 1) + 1, U8(a)) = n - a
<1>1. U8(n - 1) \in Int /\ U8(n - 1) + 1 \in Int /\ 1 - a \in Int /\ n - 1 \in Int
  BY U8Type, SeqSpaceAssumption DEF SeqNums
<1>2. SeqDiff(U8(n - 1) + 1, U8(a)) = U8((U8(n - 1) + 1) - a)
  BY <1>1, SeqDiffReduce
<1>3. U8(U8(n - 1) + (1 - a)) = U8((n - 1) + (1 - a))
  BY <1>1, U8Add
<1>4. (U8(n - 1) + 1) - a = U8(n - 1) + (1 - a) /\ (n - 1) + (1 - a) = n - a
  BY <1>1
<1>5. n - a \in SeqNums
  BY IdxSpaceFactor, SeqSpaceAssumption DEF SeqNums
<1> QED
  BY <1>2, <1>3, <1>4, <1>5, U8Small

\* The counters of the abstract window, for a running sender.
LEMMA AbstractCounters ==
  ASSUME IInv, Running, Capacity < SeqSpace
  PROVE  /\ Unacked = Used /\ nread - Unacked = Acked
         /\ nread \in Nat /\ Acked \in Nat /\ Used \in Nat /\ InFlight \in Nat
         /\ InFlight <= Used /\ Used <= Capacity /\ nread = Acked + Used
         /\ last_ack = U8(Acked) /\ last_chunk_read = U8(nread - 1)
<1>1. /\ nread \in Nat /\ Used \in 0 .. Capacity /\ Acked \in Nat
      /\ last_ack = U8(Acked) /\ last_chunk_read = U8(nread - 1)
      /\ InFlight \in 0 .. Used /\ Capacity \in Nat
  BY Counters, IdxSpaceFactor DEF IInv
<1>2. nread - Acked = Used
  BY <1>1 DEF Acked
<1>3. SeqDiff(U8(nread - 1) + 1, U8(Acked)) = nread - Acked
  <2>1. nread \in Int /\ Acked \in Int /\ nread - Acked \in 0 .. Capacity
    BY <1>1, <1>2
  <2> QED
    BY <2>1, DistanceOfCounters
<1>4. Unacked = Used
  BY <1>1, <1>2, <1>3 DEF Unacked
<1> QED
  BY <1>1, <1>2, <1>4 DEF Acked

\* pktbuf_slotfor_seq finds the slot of a chunk of the window.
LEMMA SlotOfChunk ==
  ASSUME IInv, Running, Capacity < SeqSpace, NEW j \in 0 .. Used - 1
  PROVE  SlotOf(send_buf, U8(Acked + j)) = Slot(Acked + j)
<1> DEFINE seq == U8(Acked + j)
<1>1. /\ Acked \in Nat /\ Used \in Nat /\ Used <= Capacity /\ nread = Acked + Used
      /\ last_ack = U8(Acked) /\ send_buf.first = U32(Acked) /\ j \in Int
  BY AbstractCounters, Counters DEF IInv
<1>2. j \in SeqNums /\ Capacity \in Nat
  BY <1>1, IdxSpaceFactor, SeqSpaceAssumption DEF SeqNums
<1>3. SeqDiff(seq, last_ack) = j
  <2>1. seq \in Int /\ Acked + j \in Int
    BY <1>1, U8Type, SeqSpaceAssumption DEF SeqNums
  <2>2. SeqDiff(seq, U8(Acked)) = U8(seq - Acked)
    BY <1>1, <2>1, SeqDiffReduce
  <2>3. SeqDiff(U8(Acked + j), Acked) = U8((Acked + j) - Acked) /\ (Acked + j) - Acked = j
    BY <1>1, <2>1, SeqDiffReduce
  <2> QED
    BY <1>1, <1>2, <2>2, <2>3, U8Small DEF SeqDiff
<1>4. seq \in SeqNums
  BY <1>1, U8Type
<1> HIDE DEF seq
<1>5. SlotReserved(send_buf, seq) = send_buf
  BY <1>1, <1>3, <1>4, NothingReserved DEF IInv
<1>6. SlotIndex(send_buf, seq) = mask_index(Acked + j)
  <2>1. SlotBase(send_buf, seq) = send_buf
    BY <1>1, EmptyIsUnused DEF SlotBase, IInv
  <2>2. SlotOffset(send_buf, seq) = j
    BY <1>1, <1>3, <2>1, FirstPacket DEF SlotOffset, IInv
  <2>3. mask_index(U32(Acked)) = mask_index(Acked)
    BY <1>1, MaskOfU32
  <2>4. mask_index(mask_index(Acked) + j) = mask_index(Acked + j)
    <3>1. ((Acked % Capacity) + j) % Capacity = (Acked + j) % Capacity
      <4>1. Acked \in Int /\ j \in Int /\ Capacity \in Nat /\ Capacity > 0
        BY <1>1, IdxSpaceFactor
      <4> QED
        BY <4>1, ModAdd, Zenon
    <3> QED
      BY <3>1 DEF mask_index
  <2> QED
    BY <1>1, <2>1, <2>2, <2>3, <2>4 DEF SlotIndex, first_item
<1>7. send_buf.head[mask_index(Acked + j)] = Slot(Acked + j)
  <2>1. Acked + j \in nread - Used .. nread - 1
    BY <1>1
  <2> QED
    BY <2>1 DEF IInv, BufferIsWindow, Used, Slot
<1> QED
  BY <1>5, <1>6, <1>7 DEF SlotOf, seq

\* The slot of a chunk is sent as the packet of that chunk.
LEMMA FrameOfSlot ==
  ASSUME NEW chunk \in Nat
  PROVE  Frame(Slot(chunk)) = Data(U8(chunk), chunk)
BY DEF Frame, Slot

\* A slot that got the number of another chunk is not sent as a packet.
LEMMA FrameOfOther ==
  ASSUME NEW slot, NEW p \in Int, NEW q \in Int,
         slot.chunk = p \/ slot.chunk = -1, slot.seq = U8(q),
         p # q, p - q < SeqSpace, q - p < SeqSpace
  PROVE  Frame(slot) = Corrupt
<1>1. SeqSpace \in Nat /\ SeqSpace > 0
  BY SeqSpaceAssumption
<1>2. U8(p) # U8(q)
  BY <1>1, ModInjective DEF U8
<1> QED
  BY <1>2 DEF Frame

\* What the handlers put on the wire are packets of what they hand to net_send.
LEMMA NetSendWire ==
  ASSUME NEW packets, NEW after, Len(packets) \in Nat, NetSend(packets, after)
  PROVE  \A d \in out' : \E i \in 1 .. Len(packets) : d = packets[i]
<1>1. PICK attempted \in 0 .. Len(packets) : Attempt(packets, attempted, after)
  BY DEF NetSend
<1>2. CASE attempted = Len(packets) /\ out' = {packets[i] : i \in 1 .. attempted}
  BY <1>2
<1>3. CASE attempted \in 1 .. Len(packets) /\ out' = {packets[i] : i \in 1 .. attempted - 1}
  <2>1. \A i \in 1 .. attempted - 1 : i \in 1 .. Len(packets)
    BY <1>3
  <2> QED
    BY <1>3, <2>1
<1> QED
  BY <1>1, <1>2, <1>3 DEF Attempt

\* What is on the wire is a packet that is not acknowledged, or does not decode.
OnWire(d) == d = Corrupt \/ d.chunk \in Acked .. nread - 1

-----------------------------------------------------------------------------
(***************************************************************************)
(* Every step of the sender is one of the window                           *)
(***************************************************************************)

\* A step that leaves the window alone resends what it puts on the wire.
LEMMA ResendStep ==
  ASSUME IInv, Running, Capacity < SeqSpace, UNCHANGED <<window, nread>>,
         \A d \in out' : OnWire(d)
  PROVE  Promise!Resend
<1>1. nread - Unacked = Acked
  BY AbstractCounters
<1>2. UNCHANGED <<Unacked, InFlight, last_win, nread>>
  BY DEF window, Unacked, InFlight
<1>3. {d.chunk : d \in out' \ {Corrupt}} \subseteq Acked .. nread - 1
  BY DEF OnWire
<1> QED
  BY <1>1, <1>2, <1>3 DEF Promise!Resend

\* Feedback that acknowledges nothing.
LEMMA FeedbackStep ==
  ASSUME IInv, Running, Capacity < SeqSpace, last_win' \in Windows,
         UNCHANGED <<last_ack, last_sent, last_chunk_read, nread>>,
         \A d \in out' : OnWire(d)
  PROVE  Promise!Feedback
<1>1. nread - Unacked = Acked /\ Acked \in Nat /\ InFlight \in Nat
  BY AbstractCounters
<1>2. UNCHANGED <<Unacked, InFlight, nread>>
  BY DEF Unacked, InFlight
<1>3. {d.chunk : d \in out' \ {Corrupt}} \subseteq Acked .. nread - 1
  BY DEF OnWire
<1>4. Acked \in Acked .. Acked + InFlight
  BY <1>1
<1> QED
  BY <1>1, <1>2, <1>3, <1>4 DEF Promise!Feedback, Windows

\* A slot with the number of a packet in flight, wherever it is in the array,
\* holds that packet.
LEMMA ArrayFrame ==
  ASSUME IInv, RingIsHistory, Running, Capacity < SeqSpace,
         NEW i \in Int, NEW k \in 0 .. Used, pktbuf_at(send_buf, i).seq = U8(Acked + k)
  PROVE  LET f == Frame(pktbuf_at(send_buf, i))
         IN  f = Corrupt \/ (f.chunk = Acked + k /\ f.chunk < nread)
<1>1. /\ nread \in Nat /\ Acked \in Nat /\ Used \in Nat /\ k \in Int
      /\ Used <= Capacity /\ nread = Acked + Used /\ Capacity \in Nat
      /\ SeqSpace \in Nat /\ SeqSpace > 0
  BY AbstractCounters, IdxSpaceFactor, SeqSpaceAssumption
<1>2. PICK p \in nread - Capacity .. nread - 1 : mask_index(p) = mask_index(i)
  <2>1. nread \in Int
    BY <1>1
  <2> QED
    BY <2>1, SlotIsRecent
<1>3. pktbuf_at(send_buf, i) = IF p >= 0 THEN Slot(p) ELSE Blank
  BY <1>2 DEF RingIsHistory, pktbuf_at
<1>4. CASE p < 0
  BY <1>3, <1>4 DEF Blank, Frame
<1>5. CASE p >= 0
  <2>1. p \in Nat /\ U8(p) = U8(Acked + k)
    BY <1>1, <1>2, <1>3, <1>5 DEF Slot
  <2>2. p - (Acked + k) < SeqSpace /\ (Acked + k) - p < SeqSpace /\ Acked + k \in Int
    BY <1>1, <1>2
  <2>3. p = Acked + k
    BY <1>1, <2>1, <2>2, ModInjective DEF U8
  <2>4. Frame(pktbuf_at(send_buf, i)).chunk = p
    BY <1>3, <1>5, <2>1, FrameOfSlot DEF Data
  <2> QED
    BY <1>1, <1>2, <2>3, <2>4
<1> QED
  BY <1>1, <1>2, <1>4, <1>5

\* process_nack resends the packet of the window it names, or what does not
\* decode.
LEMMA NackResends ==
  ASSUME IInv, RingIsHistory, Capacity < SeqSpace, NEW d \in Arrivals, process_nack(d)
  PROVE  \E k \in 0 .. InFlight :
           /\ d.seq = U8(Acked + k)
           /\ \A f \in out' : f = Corrupt \/ (f.chunk = Acked + k /\ f.chunk < nread)
<1>1. d.seq \in SeqNums /\ SeqDiff(d.seq, last_ack) <= InFlight /\ Running
  BY AcceptedType DEF process_nack
<1>2. /\ Acked \in Nat /\ InFlight \in Nat /\ InFlight <= Used /\ Used \in Nat
      /\ last_ack = U8(Acked) /\ last_ack \in SeqNums
  BY <1>1, AbstractCounters DEF IInv, TypeOK
<1> DEFINE k == SeqDiff(d.seq, last_ack)
<1>3. k \in 0 .. InFlight /\ d.seq = U8(Acked + k)
  <2>1. d.seq - last_ack \in Int
    BY <1>1, <1>2, SeqSpaceAssumption DEF SeqNums
  <2>2. k \in Nat
    BY <2>1, U8Type, SeqSpaceAssumption DEF SeqDiff, SeqNums
  <2>3. d.seq = U8(last_ack + k)
    BY <1>1, <1>2, SeqDiffReaches
  <2>4. U8(U8(Acked) + k) = U8(Acked + k)
    BY <1>2, <2>2, U8Add
  <2> QED
    BY <1>1, <1>2, <2>2, <2>3, <2>4
<1> HIDE DEF k
<1>4. k \in 0 .. Used
  BY <1>2, <1>3
<1> DEFINE Named(f) == f = Corrupt \/ (f.chunk = Acked + k /\ f.chunk < nread)
<1>5. PICK after \in AfterSocket :
        \/ \E i \in 0 .. pktbuf_used(send_buf) - 1 :
             /\ FirstAt(i, d.seq)
             /\ NetSend(<<Frame(pktbuf_at(send_buf, i))>>, after)
        \/ NetSend(<< >>, after)
  BY DEF process_nack
<1>6. \A f \in out' : Named(f)
  <2>1. CASE NetSend(<< >>, after)
    BY <2>1, NetSendNone
  <2>2. ASSUME NEW i \in 0 .. pktbuf_used(send_buf) - 1,
               FirstAt(i, d.seq), NetSend(<<Frame(pktbuf_at(send_buf, i))>>, after)
        PROVE  \A f \in out' : Named(f)
    <3> DEFINE packet == Frame(pktbuf_at(send_buf, i))
    <3>1. Named(packet)
      BY <1>1, <1>3, <1>4, <2>2, ArrayFrame DEF FirstAt
    <3> HIDE DEF packet, Named
    <3>2. Len(<<packet>>) = 1 /\ \A n \in 1 .. 1 : <<packet>>[n] = packet
      OBVIOUS
    <3>3. NetSend(<<packet>>, after)
      BY <2>2 DEF packet
    <3> QED
      BY <3>1, <3>2, <3>3, NetSendWire
  <2> QED
    BY <1>5, <2>1, <2>2
<1> QED
  BY <1>3, <1>6

LEMMA NackImplements ==
  ASSUME IInv, RingIsHistory, Capacity < SeqSpace, NEW d \in Arrivals, process_nack(d)
  PROVE  Promise!Feedback
<1>1. /\ Running /\ last_win' \in Windows
      /\ UNCHANGED <<last_ack, last_sent, last_chunk_read, nread>>
  BY AcceptedType DEF process_nack, input
<1>2. PICK k \in 0 .. InFlight : \A f \in out' : f = Corrupt \/ (f.chunk = Acked + k /\ f.chunk < nread)
  BY NackResends
<1>3. \A f \in out' : OnWire(f)
  BY <1>1, <1>2, AbstractCounters DEF OnWire
<1> QED
  BY <1>1, <1>3, FeedbackStep

\* process_dup_ack resends the first packet of the window, if anything.
LEMMA DupAckResends ==
  ASSUME IInv, Capacity < SeqSpace, NEW d \in Arrivals, process_dup_ack(d)
  PROVE  \A f \in out' : f.chunk = Acked /\ f.chunk < nread
<1>1. Running
  BY AcceptedType DEF process_dup_ack
<1>2. PICK after \in AfterSocket :
        \/ NetSend(<< >>, after)
        \/ ~pktbuf_empty(send_buf) /\ NetSend(<<Frame(pktbuf_first(send_buf))>>, after)
        \/ out' = {}
  BY DEF process_dup_ack
<1>3. CASE NetSend(<< >>, after)
  BY <1>3, NetSendNone
<1>4. CASE ~pktbuf_empty(send_buf) /\ NetSend(<<Frame(pktbuf_first(send_buf))>>, after)
  <2> DEFINE packet == Frame(pktbuf_first(send_buf))
  <2>1. Used > 0 /\ Acked \in Nat /\ Acked < nread
    BY <1>1, <1>4, EmptyIsUnused, AbstractCounters DEF IInv
  <2>2. packet.chunk = Acked
    BY <1>1, <2>1, FirstPacket, FrameOfSlot DEF IInv, Data
  <2> HIDE DEF packet
  <2>3. Len(<<packet>>) = 1 /\ \A n \in 1 .. 1 : <<packet>>[n] = packet
    OBVIOUS
  <2>4. NetSend(<<packet>>, after)
    BY <1>4 DEF packet
  <2> QED
    BY <2>1, <2>2, <2>3, <2>4, NetSendWire
<1> QED
  BY <1>2, <1>3, <1>4

LEMMA DupAckImplements ==
  ASSUME IInv, Capacity < SeqSpace, NEW d \in Arrivals, process_dup_ack(d)
  PROVE  Promise!Feedback
<1>1. /\ Running /\ last_win' \in Windows
      /\ UNCHANGED <<last_ack, last_sent, last_chunk_read, nread>>
  BY AcceptedType DEF process_dup_ack, input
<1>2. \A f \in out' : OnWire(f)
  BY <1>1, DupAckResends, AbstractCounters DEF OnWire
<1> QED
  BY <1>1, <1>2, FeedbackStep

\* process_ack advances the window by what it acknowledges, and by nothing
\* that was not sent.
LEMMA AckImplements ==
  ASSUME IInv, Capacity < SeqSpace, NEW d \in Arrivals, process_ack(d)
  PROVE  Promise!Feedback
<1> DEFINE n == SeqDiff(d.seq, last_ack)
<1>1. /\ d.seq \in SeqNums /\ n <= InFlight
      /\ Running /\ last_win' \in Windows
      /\ last_ack' = d.seq /\ out' = {}
      /\ UNCHANGED <<last_sent, last_chunk_read, nread>>
  BY AcceptedType DEF process_ack, input
<1>2. /\ nread \in Nat /\ Acked \in Nat /\ Used \in Nat /\ InFlight \in Nat
      /\ InFlight <= Used /\ Used <= Capacity /\ nread = Acked + Used /\ Capacity \in Nat
      /\ last_ack = U8(Acked) /\ last_chunk_read = U8(nread - 1)
      /\ nread - Unacked = Acked
      /\ last_ack \in Int /\ last_sent \in Int /\ last_ack \in SeqNums
  BY <1>1, AbstractCounters, IdxSpaceFactor, SeqSpaceAssumption DEF IInv, TypeOK, SeqNums
<1>3. n \in Nat
  <2>1. d.seq - last_ack \in Int
    BY <1>1, <1>2, SeqSpaceAssumption DEF SeqNums
  <2> QED
    BY <2>1, U8Type, SeqSpaceAssumption DEF SeqDiff, SeqNums
<1>4. d.seq = U8(last_ack + n) /\ d.seq = U8(Acked + n)
  <2>1. d.seq = U8(last_ack + n)
    BY <1>1, <1>2, SeqDiffReaches
  <2>2. U8(U8(Acked) + n) = U8(Acked + n)
    BY <1>2, <1>3, U8Add
  <2> QED
    BY <1>2, <2>1, <2>2
<1> HIDE DEF n
<1>5. Unacked' = Used - n
  <2>1. /\ nread \in Int /\ Acked + n \in Int /\ nread - (Acked + n) = Used - n
        /\ Used - n \in 0 .. Capacity
    BY <1>1, <1>2, <1>3
  <2>2. SeqDiff(U8(nread - 1) + 1, U8(Acked + n)) = nread - (Acked + n)
    BY <2>1, DistanceOfCounters
  <2>3. Unacked' = SeqDiff(U8(nread - 1) + 1, U8(Acked + n))
    BY <1>1, <1>2, <1>4 DEF Unacked
  <2> QED
    BY <2>1, <2>2, <2>3
<1>6. InFlight' = InFlight - n
  <2>1. last_sent + 1 \in Int /\ last_ack + n \in Int /\ -n \in Int
        /\ (last_sent + 1) - last_ack \in Int
        /\ (last_sent + 1) - (last_ack + n) = ((last_sent + 1) - last_ack) + (-n)
    BY <1>2, <1>3
  <2>2. SeqDiff(last_sent + 1, U8(last_ack + n)) = U8((last_sent + 1) - (last_ack + n))
    BY <2>1, SeqDiffReduce
  <2>3. U8(U8((last_sent + 1) - last_ack) + (-n)) = U8(((last_sent + 1) - last_ack) + (-n))
    BY <2>1, U8Add
  <2>4. InFlight = U8((last_sent + 1) - last_ack)
    BY DEF InFlight, SeqDiff
  <2>5. InFlight + (-n) = InFlight - n /\ InFlight - n \in SeqNums
    BY <1>1, <1>2, <1>3, SeqSpaceAssumption DEF SeqNums
  <2>6. InFlight' = SeqDiff(last_sent + 1, U8(last_ack + n))
    BY <1>1, <1>4 DEF InFlight
  <2> QED
    BY <2>1, <2>2, <2>3, <2>4, <2>5, <2>6, U8Small
<1>7. /\ nread' - Unacked' = Acked + n
      /\ Acked + n \in Acked .. Acked + InFlight
      /\ nread' - Unacked' + InFlight' = Acked + InFlight
  BY <1>1, <1>2, <1>3, <1>5, <1>6
<1> QED
  BY <1>1, <1>2, <1>7 DEF Promise!Feedback, Windows

\* handle_input_read queues a chunk, in a ring that is not full.
LEMMA InputImplements ==
  ASSUME IInv, Capacity < SeqSpace, NEW result \in ReadResults, HandleInputRead(result)
  PROVE  Promise!Queue
<1>1. /\ Running /\ ~pktbuf_full(send_buf)
      /\ last_chunk_read' = U8(last_chunk_read + 1)
      /\ nread' = nread + 1 /\ out' = {}
      /\ UNCHANGED <<last_ack, last_win, last_sent>>
  BY DEF HandleInputRead, IInv, ReadsWithRoom, Running, Terminal
<1>2. /\ nread \in Nat /\ Acked \in Nat /\ Used \in Nat /\ InFlight \in Nat
      /\ Used <= Capacity /\ nread = Acked + Used /\ Capacity \in Nat
      /\ last_ack = U8(Acked) /\ last_chunk_read = U8(nread - 1)
      /\ nread - Unacked = Acked
  BY <1>1, AbstractCounters, IdxSpaceFactor
<1>3. Used < Capacity
  BY <1>1, <1>2 DEF pktbuf_full, Used
<1>4. last_chunk_read' = U8((nread + 1) - 1)
  <2>1. U8(U8(nread - 1) + 1) = U8((nread - 1) + 1) /\ (nread - 1) + 1 = (nread + 1) - 1
    BY <1>2, U8Add
  <2> QED
    BY <1>1, <1>2, <2>1
<1>5. Unacked' = Used + 1
  <2>1. nread + 1 \in Int /\ Acked \in Int /\ (nread + 1) - Acked = Used + 1
        /\ (nread + 1) - Acked \in 0 .. Capacity
    BY <1>2, <1>3
  <2>2. SeqDiff(U8((nread + 1) - 1) + 1, U8(Acked)) = (nread + 1) - Acked
    BY <2>1, DistanceOfCounters
  <2> QED
    BY <1>1, <1>2, <1>4, <2>1, <2>2 DEF Unacked
<1>6. InFlight' = InFlight
  BY <1>1 DEF InFlight
<1>7. nread' - Unacked' = Acked /\ nread - (nread - Unacked) < Capacity
  BY <1>1, <1>2, <1>3, <1>5
<1> QED
  BY <1>1, <1>2, <1>6, <1>7 DEF Promise!Queue

\* The i-th packet do_send_sbuf sends is the i-th of those that wait.
LEMMA SentFrames ==
  ASSUME IInv, Running, Capacity < SeqSpace, NEW i \in 1 .. Sendable
  PROVE  LET chunk == Acked + InFlight + (i - 1)
         IN  Frame(SlotOf(send_buf, U8(last_sent + i))) = Data(U8(chunk), chunk)
<1> DEFINE j == InFlight + (i - 1)
<1>1. /\ Acked \in Nat /\ InFlight \in Nat /\ Used \in Nat /\ i \in Int /\ i >= 1
      /\ InFlight + i <= Used /\ last_ack = U8(Acked) /\ last_sent \in Int
  BY AbstractCounters, SendableFits, SeqSpaceAssumption DEF IInv, TypeOK, SeqNums
<1>2. j \in 0 .. Used - 1 /\ Acked + j \in Nat /\ Acked + j = Acked + InFlight + (i - 1)
  BY <1>1
<1>3. U8(last_sent + i) = U8(Acked + j)
  <2>1. /\ last_sent + 1 \in Int /\ (last_sent + 1) - Acked \in Int
        /\ Acked + (i - 1) \in Int
        /\ ((last_sent + 1) - Acked) + (Acked + (i - 1)) = last_sent + i
        /\ InFlight + (Acked + (i - 1)) = Acked + j
    BY <1>1
  <2>2. InFlight = U8((last_sent + 1) - Acked)
    <3>1. SeqDiff(last_sent + 1, U8(Acked)) = U8((last_sent + 1) - Acked)
      BY <1>1, <2>1, SeqDiffReduce
    <3> QED
      BY <1>1, <3>1 DEF InFlight
  <2>3. U8(U8((last_sent + 1) - Acked) + (Acked + (i - 1))) =
          U8(((last_sent + 1) - Acked) + (Acked + (i - 1)))
    BY <2>1, U8Add
  <2> QED
    BY <2>1, <2>2, <2>3
<1> HIDE DEF j
<1>4. SlotOf(send_buf, U8(Acked + j)) = Slot(Acked + j)
  BY <1>2, SlotOfChunk
<1>5. Frame(Slot(Acked + j)) = Data(U8(Acked + j), Acked + j)
  BY <1>2, FrameOfSlot
<1> QED
  BY <1>2, <1>3, <1>4, <1>5

\* The chunks of packets sent in order.
LEMMA ChunksInOrder ==
  ASSUME NEW n \in Int, NEW k \in Int, NEW packets,
         \A i \in 1 .. k : packets[i] = Data(U8(n + (i - 1)), n + (i - 1)),
         out' = {packets[i] : i \in 1 .. k}
  PROVE  {d.chunk : d \in out' \ {Corrupt}} = n .. n + k - 1
<1>1. ASSUME NEW d \in out' \ {Corrupt} PROVE d.chunk \in n .. n + k - 1
  <2>1. PICK i \in 1 .. k : d = Data(U8(n + (i - 1)), n + (i - 1))
    OBVIOUS
  <2>2. n + (i - 1) \in n .. n + k - 1
    OBVIOUS
  <2> QED
    BY <2>1, <2>2 DEF Data
<1>2. ASSUME NEW c \in n .. n + k - 1 PROVE c \in {d.chunk : d \in out' \ {Corrupt}}
  <2> DEFINE i == c - n + 1
  <2>1. i \in 1 .. k /\ n + (i - 1) = c
    OBVIOUS
  <2> HIDE DEF i
  <2>2. packets[i] \in out' /\ packets[i] = Data(U8(c), c)
    BY <2>1
  <2>3. packets[i] \in out' \ {Corrupt} /\ packets[i].chunk = c
    BY <2>2 DEF Data, Corrupt
  <2> QED
    BY <2>3
<1> QED
  BY <1>1, <1>2

\* do_send_sbuf sends the packets that wait, in order and inside the window.
LEMMA SendImplements ==
  ASSUME IInv, Capacity < SeqSpace, DoSend
  PROVE  Promise!Send
<1> DEFINE packets == [i \in 1 .. Sendable |-> Frame(SlotOf(send_buf, U8(last_sent + i)))]
           after == IF last_in_read = "eof" /\ pktbuf_empty(send_buf') THEN "done" ELSE "poll"
           first == Acked + InFlight
<1>1. Running /\ UNCHANGED <<last_ack, last_win, last_chunk_read, nread>>
  BY DEF DoSend, Running, Terminal, input
<1>2. PICK attempted \in 0 .. Sendable :
        /\ last_sent' = U8(last_sent + attempted)
        /\ Attempt(packets, attempted, after)
  BY DEF DoSend
<1>3. /\ nread \in Nat /\ Acked \in Nat /\ Used \in Nat /\ InFlight \in Nat
      /\ InFlight <= Used /\ Used <= Capacity /\ nread = Acked + Used /\ Capacity \in Nat
      /\ nread - Unacked = Acked
      /\ Sendable \in Nat /\ InFlight + Sendable <= Used
      /\ Sendable > 0 => InFlight + Sendable <= last_win
      /\ last_win \in Int
  BY <1>1, AbstractCounters, SendableFits, IdxSpaceFactor, WindowAssumption
  DEF IInv, TypeOK, Windows
<1>4. attempted \in Nat /\ attempted <= Sendable
  BY <1>2, <1>3
<1>5. InFlight' = InFlight + attempted
  <2>1. InFlight' = U8(InFlight + attempted)
    BY <1>1, <1>2, SendMovesWindow
  <2>2. InFlight + attempted \in SeqNums
    BY <1>3, <1>4, SeqSpaceAssumption DEF SeqNums
  <2> QED
    BY <2>1, <2>2, U8Small
<1>6. Unacked' = Unacked
  BY <1>1 DEF Unacked
<1>7. Len(packets) = Sendable
  BY <1>3
<1>8. \A i \in 1 .. Sendable : packets[i] = Data(U8(first + (i - 1)), first + (i - 1))
  <2>1. ASSUME NEW i \in 1 .. Sendable
        PROVE  packets[i] = Data(U8(first + (i - 1)), first + (i - 1))
    <3>1. packets[i] = Frame(SlotOf(send_buf, U8(last_sent + i)))
      OBVIOUS
    <3> QED
      BY <1>1, <3>1, SentFrames
  <2> QED
    BY <2>1
<1>9. first \in Int
  BY <1>3
<1> HIDE DEF packets, after, first
<1>10. {d.chunk : d \in out' \ {Corrupt}} \in {first .. first + attempted - 1, first .. first + attempted - 2}
  <2>1. CASE out' = {packets[i] : i \in 1 .. attempted}
    <3>1. \A i \in 1 .. attempted : packets[i] = Data(U8(first + (i - 1)), first + (i - 1))
      BY <1>3, <1>4, <1>8
    <3>2. attempted \in Int
      BY <1>4
    <3>3. {d.chunk : d \in out' \ {Corrupt}} = first .. first + attempted - 1
      BY <1>9, <2>1, <3>1, <3>2, ChunksInOrder
    <3> QED
      BY <3>3
  <2>2. CASE out' = {packets[i] : i \in 1 .. attempted - 1}
    <3>1. \A i \in 1 .. attempted - 1 : packets[i] = Data(U8(first + (i - 1)), first + (i - 1))
      BY <1>3, <1>4, <1>8
    <3>2. attempted - 1 \in Int /\ first + (attempted - 1) - 1 = first + attempted - 2
      BY <1>4, <1>9
    <3>3. {d.chunk : d \in out' \ {Corrupt}} = first .. first + (attempted - 1) - 1
      BY <1>9, <2>2, <3>1, <3>2, ChunksInOrder
    <3> QED
      BY <3>2, <3>3
  <2> QED
    BY <1>2, <1>7, <2>1, <2>2 DEF Attempt
<1>11. /\ nread - Unacked + InFlight = first
       /\ nread' - Unacked' + InFlight' = first + attempted
  BY <1>1, <1>3, <1>5, <1>6, <1>9 DEF first
<1>12. /\ first + attempted \in first .. nread
       /\ first + attempted > first => first + attempted <= (nread - Unacked) + last_win
  BY <1>3, <1>4, <1>9 DEF first
<1>13. /\ nread' - Unacked' = nread - Unacked
       /\ nread' = nread
       /\ last_win' = last_win
  BY <1>1, <1>6
<1> DEFINE now == nread - Unacked + InFlight
           then == nread' - Unacked' + InFlight'
           chunks == {d.chunk : d \in out' \ {Corrupt}}
<1>14. chunks \in {now .. then - 1, now .. then - 2}
  <2>1. /\ (first + attempted) - 1 = first + attempted - 1
        /\ (first + attempted) - 2 = first + attempted - 2
    BY <1>4, <1>9
  <2> QED
    BY <1>10, <1>11, <2>1
<1>15. then \in now .. nread /\ (then > now => then <= (nread - Unacked) + last_win)
  BY <1>11, <1>12
<1> QED
  BY <1>13, <1>14, <1>15 DEF Promise!Send

\* The timer resends the packets in flight, which are not acknowledged.
LEMMA RetransmitResends ==
  ASSUME IInv, Capacity < SeqSpace, Retransmit
  PROVE  \A d \in out' : d.chunk \in Acked .. Acked + InFlight - 1
<1> DEFINE packets == [i \in 1 .. InFlight |-> Frame(SlotOf(send_buf, U8(last_ack + i - 1)))]
<1>1. Running
  BY DEF Retransmit, Retry, TimerExpires, Running, Terminal
<1>2. /\ Acked \in Nat /\ Used \in Nat /\ InFlight \in Nat
      /\ InFlight <= Used /\ last_ack = U8(Acked)
  BY <1>1, AbstractCounters
<1>3. ASSUME NEW i \in 1 .. InFlight
      PROVE  Frame(SlotOf(send_buf, U8(last_ack + i - 1))).chunk \in Acked .. Acked + InFlight - 1
  <2>1. /\ i \in Int /\ i - 1 \in 0 .. Used - 1 /\ i - 1 \in Int
        /\ Acked + (i - 1) \in Nat /\ Acked + (i - 1) \in Acked .. Acked + InFlight - 1
    BY <1>2
  <2>2. U8(U8(Acked) + (i - 1)) = U8(Acked + (i - 1))
    BY <1>2, <2>1, U8Add
  <2>3. U8(Acked) \in Int
    BY <1>2, U8Type, SeqSpaceAssumption DEF SeqNums
  <2>4. last_ack + i - 1 = U8(Acked) + (i - 1)
    BY <1>2, <2>1, <2>3
  <2>5. SlotOf(send_buf, U8(Acked + (i - 1))) = Slot(Acked + (i - 1))
    BY <1>1, <2>1, SlotOfChunk
  <2>6. Frame(Slot(Acked + (i - 1))).chunk = Acked + (i - 1)
    BY <2>1, FrameOfSlot DEF Data
  <2> QED
    BY <2>1, <2>2, <2>4, <2>5, <2>6
<1>4. NetSend(packets, "poll")
  BY DEF Retransmit
<1>5. Len(packets) = InFlight
  BY <1>2
<1>6. \A i \in 1 .. InFlight : packets[i].chunk \in Acked .. Acked + InFlight - 1
  BY <1>3
<1> HIDE DEF packets
<1> QED
  BY <1>2, <1>4, <1>5, <1>6, NetSendWire

LEMMA RetransmitImplements ==
  ASSUME IInv, Capacity < SeqSpace, Retransmit
  PROVE  Promise!Resend
<1>1. Running /\ UNCHANGED <<window, nread>>
  BY DEF Retransmit, Retry, TimerExpires, Running, Terminal, input
<1>2. \A d \in out' : OnWire(d)
  BY <1>1, RetransmitResends, AbstractCounters DEF OnWire
<1> QED
  BY <1>1, <1>2, ResendStep

\* The loop that misses its end goes round the ring: it resends the packets
\* that are not acknowledged, then old packets with the numbers of new ones,
\* that no receiver decodes, and then the same slots again.
LEMMA OverrunImplements ==
  ASSUME IInv, RingIsHistory, Capacity < SeqSpace, Overrun
  PROVE  Promise!Resend
<1> DEFINE used == pktbuf_used(send_buf)
           Place(i) == mask_index(send_buf.first + ((i - 1) % Capacity))
           packets == [i \in 1 .. 2 * Capacity + 1 |->
                         Frame(IF i <= used
                               THEN send_buf.head[Place(i)]
                               ELSE send_buf'.head[Place(i)])]
           n == Capacity + 1 - used
<1>1. Running /\ ~pktbuf_empty(send_buf) /\ UNCHANGED <<window, nread>>
  BY DEF Overrun, Retry, TimerExpires, Running, Terminal, input
<1>2. /\ Acked \in Nat /\ Used \in Nat /\ nread \in Nat /\ Used > 0
      /\ Used <= Capacity /\ nread = Acked + Used /\ last_ack = U8(Acked)
      /\ Capacity \in Nat /\ Capacity > 0
      /\ send_buf.first = U32(Acked) /\ send_buf.last = U32(nread)
      /\ used = Used
      /\ send_buf.head \in [SlotIds -> Slots]
  BY <1>1, AbstractCounters, Counters, EmptyIsUnused, IdxSpaceFactor
  DEF IInv, TypeOK, Slots, Used
<1>3. /\ send_buf' = Reserve(send_buf, n)
      /\ NetSend(packets, "exited")
  <2>1. ~(Capacity < used)
    BY <1>2
  <2> QED
    BY <2>1 DEF Overrun
<1> HIDE DEF used
<1>4. ASSUME NEW i \in 1 .. 2 * Capacity + 1
      PROVE  Place(i) = mask_index(Acked + (i - 1)) /\ i - 1 \in Int /\ Acked + (i - 1) \in Int
  <2> DEFINE m == (i - 1) % Capacity
  <2>1. i - 1 \in Int /\ Acked + (i - 1) \in Int /\ m \in Int
    BY <1>2, ModRange
  <2>2. U32(Acked) \in Int /\ U32(Acked) + (i - 1) \in Int
    BY <1>2, <2>1, U32Type
  <2>3. (m + U32(Acked)) % Capacity = ((i - 1) + U32(Acked)) % Capacity
    BY <1>2, <2>1, <2>2, ModAdd
  <2> HIDE DEF m
  <2>4. m + U32(Acked) = U32(Acked) + m /\ (i - 1) + U32(Acked) = U32(Acked) + (i - 1)
    BY <2>1, <2>2
  <2>5. mask_index(U32(Acked) + m) = mask_index(U32(Acked) + (i - 1))
    BY <2>3, <2>4 DEF mask_index
  <2>6. mask_index(U32(Acked) + (i - 1)) = mask_index(Acked + (i - 1))
    BY <1>2, <2>1, MaskOfSum
  <2>7. Place(i) = mask_index(U32(Acked) + m)
    BY <1>2 DEF m
  <2> QED
    BY <2>1, <2>5, <2>6, <2>7
<1> HIDE DEF Place
<1>5. ASSUME NEW i \in 1 .. Capacity + 1, i <= used
      PROVE  OnWire(Frame(send_buf.head[Place(i)]))
  <2>1. Acked + (i - 1) \in nread - Used .. nread - 1 /\ Acked + (i - 1) \in Nat
        /\ Acked + (i - 1) \in Acked .. nread - 1 /\ i \in 1 .. 2 * Capacity + 1
    BY <1>2, <1>5
  <2>2. send_buf.head[Place(i)] = Slot(Acked + (i - 1))
    BY <1>1, <1>4, <2>1 DEF IInv, BufferIsWindow, Used, Slot
  <2>3. Frame(Slot(Acked + (i - 1))).chunk = Acked + (i - 1)
    BY <2>1, FrameOfSlot DEF Data
  <2> QED
    BY <2>1, <2>2, <2>3 DEF OnWire
<1>6. ASSUME NEW i \in 1 .. Capacity + 1, ~(i <= used)
      PROVE  OnWire(Frame(send_buf'.head[Place(i)]))
  <2> DEFINE q == Acked + (i - 1)
             p == q - Capacity
             slot == send_buf'.head[Place(i)]
             Pos(k) == mask_index(k - send_buf.last)
             nextSeq == pktbuf_first(send_buf).seq + used
             offset == i - 1 - Used
  <2>1. /\ q \in Int /\ p \in Int /\ q = p + Capacity
        /\ p \in nread - Capacity .. nread - 1
        /\ q - nread = offset /\ offset \in 0 .. Capacity - 1 /\ offset < n
        /\ offset \in Int /\ i \in 1 .. 2 * Capacity + 1
    BY <1>2, <1>6
  <2>2. Place(i) = mask_index(q) /\ Place(i) \in SlotIds
    BY <1>4, <2>1, MaskType
  <2>3. Pos(Place(i)) = offset
    <3>1. mask_index(mask_index(q) - U32(nread)) = mask_index(q - nread)
      <4>1. nread \in Int
        BY <1>2
      <4> HIDE DEF q
      <4> QED
        BY <2>1, <4>1, MaskOfDistance
    <3>2. mask_index(offset) = offset
      <4> HIDE DEF offset
      <4> QED
        BY <2>1, PlaceFromLast
    <3> QED
      BY <1>2, <2>1, <2>2, <3>1, <3>2
  <2>4. mask_index(p) = Place(i)
    <3>1. (Capacity * 1 + p) % Capacity = p % Capacity
      <4>1. 1 \in Int
        OBVIOUS
      <4> HIDE DEF p
      <4> QED
        BY <1>2, <2>1, <4>1, ModShift, Zenon
    <3>2. Capacity * 1 + p = q
      BY <1>2, <2>1
    <3> QED
      BY <2>2, <3>1, <3>2 DEF mask_index
  <2>5. send_buf.head[Place(i)] = IF p >= 0 THEN Slot(p) ELSE Blank
    BY <1>1, <2>1, <2>4 DEF RingIsHistory
  <2>6. slot = [send_buf.head[Place(i)] EXCEPT !.seq = U8(nextSeq + offset)]
    <3>1. send_buf'.head = [k \in SlotIds |->
                              IF Pos(k) < n
                              THEN [send_buf.head[k] EXCEPT !.seq = U8(nextSeq + Pos(k))]
                              ELSE send_buf.head[k]]
      BY <1>3 DEF Reserve, IInv, TypeOK, used
    <3> HIDE DEF Pos, nextSeq, offset, n
    <3> QED
      BY <2>1, <2>2, <2>3, <3>1
  <2>7. nextSeq + offset = U8(Acked) + (i - 1)
    <3>1. pktbuf_first(send_buf).seq = U8(Acked)
      BY <1>1, <1>2, FirstPacket DEF IInv
    <3>2. U8(Acked) \in Int
      BY <1>2, U8Type, SeqSpaceAssumption DEF SeqNums
    <3> QED
      BY <1>2, <1>4, <3>1, <3>2
  <2>8. U8(nextSeq + offset) = U8(q)
    BY <1>2, <1>4, <2>7, U8Add
  <2> HIDE DEF p, q, slot, nextSeq, offset
  <2>9. (slot.chunk = p \/ slot.chunk = -1) /\ slot.seq = U8(q)
    BY <2>5, <2>6, <2>8 DEF Slot, Blank
  <2>10. p # q /\ p - q < SeqSpace /\ q - p < SeqSpace
    BY <1>2, <2>1, SeqSpaceAssumption
  <2>11. Frame(slot) = Corrupt
    BY <2>1, <2>9, <2>10, FrameOfOther
  <2> QED
    BY <2>11 DEF OnWire, slot
<1>7. ASSUME NEW i \in 2 .. Capacity + 1, i <= used
      PROVE  send_buf'.head[Place(i)] = send_buf.head[Place(i)]
  <2> DEFINE q == Acked + (i - 1)
             Pos(k) == mask_index(k - send_buf.last)
             nextSeq == pktbuf_first(send_buf).seq + used
             offset == Capacity + (i - 1) - Used
  <2>1. /\ q \in Int /\ nread \in Int /\ q - nread \in Int
        /\ Capacity * 1 + (q - nread) = offset
        /\ offset \in 0 .. Capacity - 1 /\ ~(offset < n)
    BY <1>2, <1>7
  <2>2. Place(i) = mask_index(q) /\ Place(i) \in SlotIds
    BY <1>2, <1>4, <1>7, <2>1, MaskType
  <2> HIDE DEF q
  <2>3. mask_index(mask_index(q) - U32(nread)) = mask_index(q - nread)
    BY <2>1, MaskOfDistance
  <2>4. (Capacity * 1 + (q - nread)) % Capacity = (q - nread) % Capacity
    <3>1. 1 \in Int
      OBVIOUS
    <3>2. q - nread \in Int /\ Capacity \in Nat /\ Capacity > 0
      BY <1>2, <2>1
    <3> QED
      BY <3>1, <3>2, ModShift, Zenon
  <2> HIDE DEF offset
  <2>5. offset % Capacity = offset
    BY <1>2, <2>1, ModSmall
  <2>6. Pos(Place(i)) = offset
    <3>1. mask_index(q - nread) = offset
      BY <2>1, <2>4, <2>5 DEF mask_index
    <3> QED
      BY <1>2, <2>2, <2>3, <3>1
  <2>7. send_buf'.head = [k \in SlotIds |->
                            IF Pos(k) < n
                            THEN [send_buf.head[k] EXCEPT !.seq = U8(nextSeq + Pos(k))]
                            ELSE send_buf.head[k]]
    BY <1>3 DEF Reserve, IInv, TypeOK, used
  <2> HIDE DEF Pos, nextSeq, n
  <2> QED
    BY <2>1, <2>2, <2>6, <2>7
<1>8. ASSUME NEW i \in 1 .. 2 * Capacity + 1
      PROVE  OnWire(packets[i])
  <2>1. CASE i <= used
    BY <1>2, <1>5, <2>1
  <2>2. CASE ~(i <= used) /\ i <= Capacity + 1
    BY <1>2, <1>6, <2>2
  <2>3. CASE Capacity + 1 < i
    <3> DEFINE j == i - Capacity
    <3>1. /\ j \in 2 .. Capacity + 1 /\ j \in 1 .. 2 * Capacity + 1 /\ j \in 1 .. Capacity + 1
          /\ ~(i <= used) /\ Capacity * 1 + (Acked + (j - 1)) = Acked + (i - 1)
      BY <1>2, <2>3
    <3> HIDE DEF j
    <3>2. Acked + (j - 1) \in Int
      BY <1>4, <3>1
    <3>3. (Capacity * 1 + (Acked + (j - 1))) % Capacity = (Acked + (j - 1)) % Capacity
      <4>1. 1 \in Int
        OBVIOUS
      <4> QED
        BY <1>2, <3>2, <4>1, ModShift, Zenon
    <3>4. Place(i) = mask_index(Acked + (i - 1)) /\ Place(j) = mask_index(Acked + (j - 1))
      BY <1>4, <3>1
    <3>5. Place(i) = Place(j)
      BY <3>1, <3>3, <3>4 DEF mask_index
    <3>6. OnWire(Frame(send_buf'.head[Place(j)]))
      BY <1>5, <1>6, <1>7, <3>1
    <3>7. packets[i] = Frame(send_buf'.head[Place(i)])
      BY <3>1
    <3> QED
      BY <3>5, <3>6, <3>7
  <2> QED
    BY <1>2, <2>1, <2>2, <2>3
<1>9. Len(packets) = 2 * Capacity + 1
  BY <1>2
<1> HIDE DEF packets
<1>10. \A d \in out' : OnWire(d)
  <2>1. \A i \in 1 .. 2 * Capacity + 1 : OnWire(packets[i])
    BY <1>8
  <2>2. Len(packets) \in Nat /\ Len(packets) = 2 * Capacity + 1
    BY <1>2, <1>9
  <2>3. \A d \in out' : \E i \in 1 .. Len(packets) : d = packets[i]
    BY <1>3, <2>2, NetSendWire
  <2> QED
    BY <2>1, <2>2, <2>3
<1> QED
  BY <1>1, <1>10, ResendStep

\* A step that sends nothing and leaves the window alone.
LEMMA SilentImplements ==
  ASSUME IInv, Running, Capacity < SeqSpace, UNCHANGED <<window, nread>>, out' = {}
  PROVE  Promise!Resend
BY ResendStep

\* Every step of transmit() is a step of the window, or none.
LEMMA NextImplements ==
  ASSUME IInv, RingIsHistory, Capacity < SeqSpace, [Next]_vars
  PROVE  [Promise!Next]_(Promise!vars)
<1>1. CASE HandleSocketRead
  <2>1. CASE SocketError
    <3>1. Running /\ UNCHANGED <<window, nread>> /\ out' = {}
      BY <2>1 DEF SocketError, Running, Terminal, input
    <3> QED
      BY <3>1, SilentImplements DEF Promise!Next
  <2>2. ASSUME NEW d \in Arrivals, SocketDrop(d)
        PROVE  Promise!Next
    <3>1. Running /\ UNCHANGED <<window, nread>> /\ out' = {}
      BY <2>2 DEF SocketDrop, Running, Terminal, input
    <3> QED
      BY <3>1, SilentImplements DEF Promise!Next
  <2>3. ASSUME NEW d \in Arrivals, process_nack(d)
        PROVE  Promise!Next
    BY <2>3, NackImplements DEF Promise!Next
  <2>4. ASSUME NEW d \in Arrivals, process_ack(d)
        PROVE  Promise!Next
    BY <2>4, AckImplements DEF Promise!Next
  <2>5. ASSUME NEW d \in Arrivals, process_dup_ack(d)
        PROVE  Promise!Next
    BY <2>5, DupAckImplements DEF Promise!Next
  <2> QED
    BY <1>1, <2>1, <2>2, <2>3, <2>4, <2>5 DEF HandleSocketRead
<1>2. ASSUME NEW result \in ReadResults, HandleInputRead(result)
      PROVE  Promise!Next
  BY <1>2, InputImplements DEF Promise!Next
<1>3. CASE DoSend
  BY <1>3, SendImplements DEF Promise!Next
<1>4. CASE IdleTimeout \/ Abort \/ PollError
  <2>1. Running /\ UNCHANGED <<window, nread>> /\ out' = {}
    BY <1>4 DEF IdleTimeout, Abort, PollError, TimerExpires, Running, Terminal, input
  <2> QED
    BY <2>1, SilentImplements DEF Promise!Next
<1>5. CASE Retransmit
  BY <1>5, RetransmitImplements DEF Promise!Next
<1>6. CASE Overrun
  BY <1>6, OverrunImplements DEF Promise!Next
<1>7. CASE Terminated \/ UNCHANGED vars
  <2>1. UNCHANGED <<window, nread, out>>
    BY <1>7 DEF Terminated, vars, input
  <2>2. UNCHANGED <<nread, Unacked, InFlight, last_win, out>>
    BY <2>1 DEF window, Unacked, InFlight
  <2> QED
    BY <2>2 DEF Promise!vars
<1> QED
  BY <1>1, <1>2, <1>3, <1>4, <1>5, <1>6, <1>7 DEF Next, Timeout

\* Nothing is read and nothing is sent before the loop of transmit() starts.
LEMMA InitImplements ==
  ASSUME Init
  PROVE  Promise!Init
<1>1. /\ last_ack = 0 /\ last_win = 1 /\ nread = 0 /\ out = {}
      /\ last_sent = U8(-1) /\ last_chunk_read = U8(-1)
  BY DEF Init, window, input
<1>2. U8(-1) = SeqSpace - 1
  BY SeqSpaceAssumption DEF U8
<1>3. U8((SeqSpace - 1) + 1) = 0
  BY SeqSpaceAssumption DEF U8
<1>4. SeqSpace - 1 + 1 - 0 = SeqSpace - 1 + 1
  BY SeqSpaceAssumption
<1>5. Unacked = 0 /\ InFlight = 0
  BY <1>1, <1>2, <1>3, SeqSpaceAssumption DEF Unacked, InFlight, SeqDiff
<1> QED
  BY <1>1, <1>5 DEF Promise!Init

-----------------------------------------------------------------------------
(***************************************************************************)
(* Theorems                                                                *)
(***************************************************************************)

\* The ring is a history of the input: no handler writes a slot of it but
\* handle_input_read, which replaces the oldest one.  What process_nack finds
\* at an index of the array that is not in use is a packet that was
\* acknowledged less than a ring ago.
THEOREM SenderRingIsHistory == Spec => []RingIsHistory
<1>1. Init => RingIsHistory
  BY InitHistory
<1>2. IInv /\ RingIsHistory /\ [Next]_vars => RingIsHistory'
  BY NextHistory
<1> QED
  BY <1>1, <1>2, SenderInvariant, PTL DEF Spec

\* transmit() is a sliding window for every peer and every network, however
\* often the numbers wrap: do_send_sbuf sends nothing outside the window the
\* peer advertised, nothing is taken for acknowledged that was not sent, and
\* what a NACK, a duplicate ACK or the timer puts on the wire, inside the window
\* or past it, is not acknowledged.
THEOREM SenderImplementsSlidingWindow ==
  ASSUME Capacity < SeqSpace
  PROVE  Spec => ImplementsSlidingWindow
<1>1. Init => Promise!Init
  BY InitImplements
<1>2. IInv /\ RingIsHistory /\ [Next]_vars => [Promise!Next]_(Promise!vars)
  BY NextImplements
<1> QED
  BY <1>1, <1>2, SenderInvariant, SenderRingIsHistory, PTL
  DEF Spec, ImplementsSlidingWindow, Promise!Spec

-----------------------------------------------------------------------------
(***************************************************************************)
(* NoStall                                                                 *)
(***************************************************************************)

\* net_send leads where its caller goes on, or to the end.
LEMMA NetSendGoesOn ==
  ASSUME NEW packets, NEW after, NetSend(packets, after)
  PROVE  pc' \in {after, "failed"}
BY DEF NetSend, Attempt

\* The handlers of the socket are not the end of an iteration.
LEMMA SocketGoesOn ==
  ASSUME IInv, HandleSocketRead
  PROVE  pc' \notin {"poll", "done"}
<1>1. ASSUME NEW after \in AfterSocket
      PROVE  after \notin {"poll", "done"}
  BY AfterSocketType DEF IInv
<1>2. CASE SocketError
  BY <1>2 DEF SocketError
<1>3. ASSUME NEW d \in Arrivals, SocketDrop(d) \/ process_ack(d)
      PROVE  pc' \notin {"poll", "done"}
  BY <1>1, <1>3 DEF SocketDrop, process_ack
<1>4. ASSUME NEW d \in Arrivals, process_nack(d)
      PROVE  pc' \notin {"poll", "done"}
  <2>1. PICK after \in AfterSocket : \E packets : NetSend(packets, after)
    BY <1>4 DEF process_nack
  <2> QED
    BY <1>1, <2>1, NetSendGoesOn
<1>5. ASSUME NEW d \in Arrivals, process_dup_ack(d)
      PROVE  pc' \notin {"poll", "done"}
  <2>1. PICK after \in AfterSocket : (\E packets : NetSend(packets, after)) \/ pc' = "crashed"
    BY <1>5 DEF process_dup_ack
  <2> QED
    BY <1>1, <2>1, NetSendGoesOn
<1> QED
  BY <1>2, <1>3, <1>4, <1>5 DEF HandleSocketRead

\* In a ring smaller than the sequence space, do_send_sbuf counts exactly the
\* packets that wait.
LEMMA UnsentExact ==
  ASSUME IInv, Running, Capacity < SeqSpace
  PROVE  SeqDiff(last_chunk_read, last_sent) = Used - InFlight
<1>1. Used \in 0 .. Capacity /\ InFlight \in 0 .. Used /\ Capacity \in Nat
  BY Counters, IdxSpaceFactor DEF IInv
<1>2. Used - InFlight \in SeqNums
  BY <1>1, SeqSpaceAssumption DEF SeqNums
<1> QED
  BY <1>2, Unsent, U8Small

\* do_send_sbuf leaves no packet behind that the window lets go.
LEMMA SendDoesNotStall ==
  ASSUME IInv, DoSend, Capacity < SeqSpace, pc' = "poll"
  PROVE  NoStall'
<1>1. Running
  BY DEF DoSend, Running, Terminal
<1>2. /\ Used \in 0 .. Capacity /\ Used \in Nat /\ InFlight \in 0 .. Used /\ InFlight \in Nat
      /\ Capacity \in Nat /\ last_win \in Nat /\ Sendable \in Nat
      /\ InFlight + Sendable <= Used
  BY <1>1, Counters, SendableFits, IdxSpaceFactor, WindowAssumption DEF IInv, TypeOK, Windows
<1>3. /\ last_sent' = U8(last_sent + Sendable)
      /\ UNCHANGED <<last_ack, last_win>>
  <2> DEFINE packets == [i \in 1 .. Sendable |-> Frame(SlotOf(send_buf, U8(last_sent + i)))]
  <2>1. PICK attempted \in 0 .. Sendable :
          /\ last_sent' = U8(last_sent + attempted)
          /\ attempted = Len(packets) \/ pc' = "failed"
    BY DEF DoSend, Attempt
  <2>2. Len(packets) = Sendable
    BY <1>2
  <2> QED
    BY <2>1, <2>2 DEF DoSend
<1>4. InFlight' = InFlight + Sendable
  <2>1. Sendable \in 0 .. Sendable
    BY <1>2
  <2>2. InFlight' = U8(InFlight + Sendable)
    BY <1>1, <1>3, <2>1, SendMovesWindow
  <2>3. InFlight + Sendable \in SeqNums
    BY <1>2, SeqSpaceAssumption DEF SeqNums
  <2> QED
    BY <2>2, <2>3, U8Small
<1>5. pktbuf_used(send_buf') = Used
  BY SendKeepsRing DEF Used
<1>6. Sendable = IF Used - InFlight < (IF InFlight < last_win THEN last_win - InFlight ELSE 0)
                 THEN Used - InFlight
                 ELSE (IF InFlight < last_win THEN last_win - InFlight ELSE 0)
  <2>1. CASE pktbuf_empty(send_buf)
    <3>1. Used = 0 /\ InFlight = 0
      BY <1>1, <1>2, <2>1, EmptyIsUnused DEF IInv
    <3> QED
      BY <1>2, <2>1, <3>1 DEF Sendable
  <2>2. CASE ~pktbuf_empty(send_buf)
    BY <1>1, <2>2, UnsentExact DEF Sendable
  <2> QED
    BY <2>1, <2>2
<1>7. InFlight' = Used \/ InFlight' >= last_win'
  BY <1>2, <1>3, <1>4, <1>6
<1> QED
  BY <1>5, <1>7 DEF NoStall

\* Every step keeps NoStall.
LEMMA NextDoesNotStall ==
  ASSUME IInv, NoStall, [Next]_vars, Capacity < SeqSpace
  PROVE  NoStall'
<1>1. CASE pc' # "poll"
  BY <1>1 DEF NoStall
<1>2. CASE HandleSocketRead
  BY <1>1, <1>2, SocketGoesOn
<1>3. ASSUME NEW result \in ReadResults, HandleInputRead(result)
      PROVE  NoStall'
  BY <1>3 DEF HandleInputRead, NoStall
<1>4. CASE DoSend
  BY <1>1, <1>4, SendDoesNotStall
<1>5. CASE IdleTimeout
  BY <1>5 DEF IdleTimeout, TimerExpires, NoStall, InFlight, window
<1>6. CASE Retransmit
  <2>1. pc = "poll" /\ UNCHANGED <<send_buf, last_ack, last_win, last_sent>>
    BY <1>6, RetransmitKeepsRing DEF Retransmit, Retry, TimerExpires, window
  <2> QED
    BY <2>1 DEF NoStall, InFlight
<1>7. CASE Overrun
  <2>1. pc' \in {"exited", "looping", "failed"}
    BY <1>7, NetSendGoesOn DEF Overrun
  <2> QED
    BY <1>1, <2>1
<1>8. CASE Abort \/ PollError
  BY <1>8 DEF Abort, PollError, NoStall
<1>9. CASE Terminated \/ UNCHANGED vars
  BY <1>9 DEF Terminated, NoStall, InFlight, vars, window
<1> QED
  BY <1>2, <1>3, <1>4, <1>5, <1>6, <1>7, <1>8, <1>9 DEF Next, Timeout

LEMMA InitDoesNotStall ==
  ASSUME Init
  PROVE  NoStall
<1>1. IInv /\ Running
  BY InitInvariant DEF Init, Running, Terminal
<1>2. Used = 0
  BY <1>1, EmptyIsUnused DEF Init, pktbuf_new, pktbuf_empty, IInv
<1>3. InFlight = 0
  BY <1>1, <1>2, Counters DEF IInv
<1> QED
  BY <1>2, <1>3 DEF NoStall, Used

\* An iteration of transmit() never leaves a packet behind that the window
\* lets go, in a ring smaller than the sequence space: option -b of the sender
\* accepts larger ones.
THEOREM SenderNoStall ==
  ASSUME Capacity < SeqSpace
  PROVE  Spec => []NoStall
<1>1. Init => NoStall
  BY InitDoesNotStall
<1>2. IInv /\ NoStall /\ [Next]_vars => NoStall'
  BY NextDoesNotStall
<1> QED
  BY <1>1, <1>2, SenderInvariant, PTL DEF Spec

-----------------------------------------------------------------------------
(***************************************************************************)
(* FastRetransmitFindsPacket                                               *)
(***************************************************************************)

\* A regular file is read in every iteration that starts with an empty ring:
\* the duplicate ACKs never add up to more than one before a chunk is queued.
EmptyRing ==
  Running /\ pktbuf_empty(send_buf) =>
    /\ pc = "poll" => dup_ack = 0 /\ pfds_count = 2
    /\ pc = "input" => dup_ack <= 1
    /\ pc = "send" => dup_ack = 0

FastInv == FastRetransmitFindsPacket /\ EmptyRing

\* A ring is not empty once a chunk was enqueued.
LEMMA EnqueuedIsNotEmpty ==
  ASSUME IInv, NEW result \in ReadResults, HandleInputRead(result)
  PROVE  ~pktbuf_empty(send_buf')
<1>1. /\ Running /\ nread \in Nat /\ Acked \in Nat /\ Used \in 0 .. Capacity /\ Used < Capacity
      /\ send_buf.first = U32(Acked) /\ send_buf.last = U32(nread)
  <2>1. Running /\ ~pktbuf_full(send_buf)
    BY DEF HandleInputRead, IInv, ReadsWithRoom, Running, Terminal
  <2> QED
    BY <2>1, Counters, IdxSpaceFactor DEF IInv, pktbuf_full, Used
<1>2. U32(U32(nread) + 1) = U32(nread + 1)
  BY <1>1, U32Add
<1>3. send_buf'.first = U32(Acked) /\ send_buf'.last = U32(nread + 1)
  BY <1>1, <1>2 DEF HandleInputRead, pktbuf_enqueue, IInv, TypeOK
<1>4. U32(U32(nread + 1) - U32(Acked)) = (nread + 1) - Acked
  BY <1>1, UsedOfCounters, IdxSpaceFactor DEF Acked
<1>5. (nread + 1) - Acked = Used + 1 /\ Used + 1 > 0
  BY <1>1, IdxSpaceFactor DEF Acked
<1>6. U32(Acked) - U32(Acked) = 0 /\ U32(0) = 0
  BY <1>1, U32Type, IdxSpaceFactor, ModSmall DEF U32
<1> QED
  BY <1>1, <1>3, <1>4, <1>5, <1>6 DEF pktbuf_empty

\* The input follows the socket whenever a regular file was polled.
LEMMA RegularAfterSocket ==
  ASSUME RegularInput, pfds_count = 2, NEW after \in AfterSocket
  PROVE  after = "input"
BY DEF AfterSocket

\* Every step keeps FastInv, if one duplicate ACK is not enough.
LEMMA NextFastInv ==
  ASSUME IInv, FastInv, [Next]_vars, RegularInput, MaxDupAck > 1
  PROVE  FastInv'
<1> USE DEF FastInv, FastRetransmitFindsPacket, EmptyRing
<1>1. CASE pc' \in Terminal \ {"crashed"}
  BY <1>1 DEF Terminal, Running
<1>2. ASSUME NEW d \in Arrivals, SocketDrop(d) PROVE FastInv'
  <2>1. /\ pc = "poll" /\ Running /\ pc' \in AfterSocket
        /\ UNCHANGED <<send_buf, dup_ack>>
    BY <1>2 DEF SocketDrop, Running, Terminal
  <2> QED
    BY <2>1, AfterSocketType, RegularAfterSocket DEF IInv, TypeOK
<1>3. ASSUME NEW d \in Arrivals, process_ack(d) PROVE FastInv'
  <2>1. pc' \in AfterSocket /\ dup_ack' = 0
    BY <1>3 DEF process_ack
  <2> QED
    BY <2>1, AfterSocketType DEF IInv
<1>4. ASSUME NEW d \in Arrivals, process_nack(d) PROVE FastInv'
  <2>1. /\ pc = "poll" /\ Running
        /\ UNCHANGED <<send_buf, dup_ack>>
    BY <1>4 DEF process_nack, SocketAccept, Running, Terminal
  <2>2. PICK after \in AfterSocket : \E packets : NetSend(packets, after)
    BY <1>4 DEF process_nack
  <2>3. pc' \in {after, "failed"}
    BY <2>2, NetSendGoesOn
  <2> QED
    BY <1>1, <2>1, <2>3, AfterSocketType, RegularAfterSocket DEF IInv, TypeOK, Terminal
<1>5. ASSUME NEW d \in Arrivals, process_dup_ack(d) PROVE FastInv'
  <2>1. /\ pc = "poll" /\ Running
        /\ UNCHANGED send_buf
    BY <1>5 DEF process_dup_ack, SocketAccept, Running, Terminal
  <2>2. CASE pktbuf_empty(send_buf)
    <3>1. dup_ack = 0 /\ pfds_count = 2
      BY <2>1, <2>2
    <3>2. PICK after \in AfterSocket :
            /\ dup_ack' = dup_ack + 1
            /\ NetSend(<< >>, after)
      BY <1>5, <2>2, <3>1, SenderAssumption DEF process_dup_ack
    <3>3. pc' = "input"
      BY <3>1, <3>2, NetSendNone, RegularAfterSocket
    <3> QED
      BY <3>1, <3>2, <3>3
  <2>3. CASE ~pktbuf_empty(send_buf)
    <3>1. PICK after \in AfterSocket : \E packets : NetSend(packets, after)
      BY <1>5, <2>3 DEF process_dup_ack
    <3>2. pc' \in {after, "failed"}
      BY <3>1, NetSendGoesOn
    <3> QED
      BY <2>1, <2>3, <3>2, AfterSocketType DEF IInv
  <2> QED
    BY <2>2, <2>3
<1>6. ASSUME NEW result \in ReadResults, HandleInputRead(result) PROVE FastInv'
  <2>1. pc' \in {"send", "failed"}
    BY <1>6 DEF HandleInputRead
  <2> QED
    BY <1>6, <2>1, EnqueuedIsNotEmpty
<1>7. CASE DoSend
  <2>1. /\ pc = "send" /\ Running /\ UNCHANGED <<send_buf, dup_ack>>
        /\ pfds_count' = IF last_in_read # "eof" /\ ~pktbuf_full(send_buf') THEN 2 ELSE 1
    BY <1>7, SendKeepsRing DEF DoSend, Running, Terminal
  <2>2. pc' \in {IF last_in_read = "eof" /\ pktbuf_empty(send_buf') THEN "done" ELSE "poll",
                 "failed"}
    BY <1>7 DEF DoSend, Attempt
  <2>3. CASE pktbuf_empty(send_buf)
    <3>1. ~pktbuf_full(send_buf)
      BY <2>1, <2>3, EmptyIsUnused, IdxSpaceFactor DEF IInv, pktbuf_full, Used
    <3> QED
      BY <1>1, <2>1, <2>2, <2>3, <3>1 DEF Terminal
  <2>4. CASE ~pktbuf_empty(send_buf)
    BY <2>1, <2>2, <2>4
  <2> QED
    BY <2>3, <2>4
<1>8. CASE IdleTimeout
  BY <1>8 DEF IdleTimeout, TimerExpires, Running
<1>9. CASE Retransmit
  <2>1. ~pktbuf_empty(send_buf) /\ UNCHANGED send_buf /\ pc' \in {"poll", "failed"}
    BY <1>9, RetransmitKeepsRing, NetSendGoesOn DEF Retransmit, Retry
  <2> QED
    BY <2>1
<1>10. CASE Overrun
  <2>1. pc' \in {"exited", "looping", "failed"}
    BY <1>10, NetSendGoesOn DEF Overrun
  <2> QED
    BY <1>1, <2>1 DEF Terminal
<1>11. CASE Abort \/ PollError \/ SocketError
  BY <1>1, <1>11 DEF Abort, PollError, SocketError, Terminal
<1>12. CASE Terminated \/ UNCHANGED vars
  BY <1>12 DEF Terminated, vars, Running
<1> QED
  BY <1>2, <1>3, <1>4, <1>5, <1>6, <1>7, <1>8, <1>9, <1>10, <1>11, <1>12
  DEF Next, Timeout, HandleSocketRead

\* process_dup_ack never looks for a packet in an empty ring, if the input is
\* a regular file: the standard input, which -f replaces, need not be one.
THEOREM SenderFastRetransmit ==
  ASSUME RegularInput, MaxDupAck > 1
  PROVE  Spec => []FastRetransmitFindsPacket
<1>1. Init => FastInv
  BY DEF Init, FastInv, FastRetransmitFindsPacket, EmptyRing
<1>2. IInv /\ FastInv /\ [Next]_vars => FastInv'
  BY NextFastInv
<1>3. FastInv => FastRetransmitFindsPacket
  BY DEF FastInv
<1> QED
  BY <1>1, <1>2, <1>3, SenderInvariant, PTL DEF Spec

-----------------------------------------------------------------------------
(***************************************************************************)
(* A transfer whose sequence numbers do not repeat: what a peer that does  *)
(* not open its window further than chunk e can rely on                    *)
(***************************************************************************)

NumbersDoNotRepeat == NChunks + 1 < SeqSpace

\* The chunks that are acknowledged, as the variables of transmit() tell.
Known == nread - Unacked

\* The window and what is in it end before chunk e, and so do the next windows,
\* of w packets, once something was acknowledged; at most m chunks were.
Within(e, m, w) ==
  Running =>
    /\ 0 < last_win /\ Known + last_win <= e
    /\ Known + InFlight <= e
    /\ Known <= m
    /\ Known = 0 \/ Known + w <= e

\* An answer of a peer that announces windows of w packets, has m of the chunks
\* and never opens its window further than e.
Honest(d, e, m, w) ==
  /\ d.window = w /\ w <= e
  /\ d.type = "ACK" => \E n \in 0 .. m : d.seq = U8(n) /\ n + w <= e
  /\ d.type = "NACK" => \E c \in 0 .. NChunks : d.seq = U8(c) /\ c < e

\* What such a peer can be sent.
SendsBelow(e) ==
  \A f \in out' : f = Corrupt \/ \E c \in 0 .. NChunks : c < e /\ f = Data(U8(c), c)

\* Numbers that do not repeat tell their chunks.
LEMMA SameNumber ==
  ASSUME NumbersDoNotRepeat, NEW a \in 0 .. NChunks + 1, NEW b \in 0 .. NChunks + 1,
         U8(a) = U8(b)
  PROVE  a = b
<1>1. a \in SeqNums /\ b \in SeqNums
  BY SenderAssumption, SeqSpaceAssumption DEF NumbersDoNotRepeat, SeqNums
<1> QED
  BY <1>1, U8Small

\* What decodes is the packet of a chunk, under its number.
LEMMA FrameShape ==
  ASSUME NEW slot
  PROVE  Frame(slot) = Corrupt \/ Frame(slot) = Data(U8(Frame(slot).chunk), Frame(slot).chunk)
BY DEF Frame, Data

LEMMA NetSendShape ==
  ASSUME NEW packets, NEW after, Len(packets) \in Nat, NetSend(packets, after),
         \A i \in 1 .. Len(packets) : \E slot : packets[i] = Frame(slot)
  PROVE  \A f \in out' : f = Corrupt \/ f = Data(U8(f.chunk), f.chunk)
BY NetSendWire, FrameShape

\* What is sent is so, whatever sends it.
LEMMA SentShape ==
  ASSUME IInv,
         \/ \E d \in Arrivals :
              SocketDrop(d) \/ process_nack(d) \/ process_ack(d) \/ process_dup_ack(d)
         \/ SocketError \/ PollError \/ IdleTimeout \/ Abort \/ Retransmit \/ DoSend
         \/ \E result \in ReadResults : HandleInputRead(result)
  PROVE  \A f \in out' : f = Corrupt \/ f = Data(U8(f.chunk), f.chunk)
<1> DEFINE Shaped == \A f \in out' : f = Corrupt \/ f = Data(U8(f.chunk), f.chunk)
<1>1. ASSUME out' = {} PROVE Shaped
  BY <1>1
<1>2. ASSUME NEW slot, NEW after, NetSend(<<Frame(slot)>>, after) PROVE Shaped
  <2> DEFINE packet == Frame(slot)
  <2>1. \A i \in 1 .. 1 : \E x : <<packet>>[i] = Frame(x)
    OBVIOUS
  <2> HIDE DEF packet
  <2>2. Len(<<packet>>) = 1
    OBVIOUS
  <2> QED
    BY <1>2, <2>1, <2>2, NetSendShape DEF packet
<1>3. ASSUME NEW after, NetSend(<< >>, after) PROVE Shaped
  BY <1>3, NetSendNone
<1>4. ASSUME NEW d \in Arrivals, process_nack(d) PROVE Shaped
  <2> HIDE DEF Shaped
  <2> QED
    BY <1>2, <1>3, <1>4 DEF process_nack
<1>5. ASSUME NEW d \in Arrivals, process_dup_ack(d) PROVE Shaped
  <2> HIDE DEF Shaped
  <2> QED
    BY <1>1, <1>2, <1>3, <1>5 DEF process_dup_ack
<1>6. ASSUME Retransmit PROVE Shaped
  <2> DEFINE packets == [i \in 1 .. InFlight |-> Frame(SlotOf(send_buf, U8(last_ack + i - 1)))]
  <2>1. NetSend(packets, "poll")
    BY <1>6 DEF Retransmit
  <2>2. InFlight \in Nat
    BY <1>6, Counters, IdxSpaceFactor
    DEF IInv, Retransmit, Retry, TimerExpires, Running, Terminal
  <2>3. Len(packets) = InFlight /\ \A i \in 1 .. InFlight : \E slot : packets[i] = Frame(slot)
    BY <2>2
  <2> HIDE DEF packets
  <2> QED
    BY <2>1, <2>2, <2>3, NetSendShape
<1>7. ASSUME DoSend PROVE Shaped
  <2> DEFINE packets == [i \in 1 .. Sendable |-> Frame(SlotOf(send_buf, U8(last_sent + i)))]
             after == IF last_in_read = "eof" /\ pktbuf_empty(send_buf') THEN "done" ELSE "poll"
  <2>1. PICK attempted \in 0 .. Sendable : Attempt(packets, attempted, after)
    BY <1>7 DEF DoSend
  <2>2. Sendable \in Nat
    BY <1>7, SendableFits DEF IInv, DoSend, Running, Terminal
  <2>3. Len(packets) = Sendable /\ \A i \in 1 .. Sendable : \E slot : packets[i] = Frame(slot)
    BY <2>2
  <2> HIDE DEF packets, after
  <2>4. NetSend(packets, after)
    BY <2>1, <2>3 DEF NetSend
  <2> QED
    BY <2>2, <2>3, <2>4, NetSendShape
<1>8. ASSUME NEW d \in Arrivals, SocketDrop(d) \/ process_ack(d) PROVE out' = {}
  BY <1>8 DEF SocketDrop, process_ack
<1>9. ASSUME NEW result \in ReadResults, HandleInputRead(result) PROVE out' = {}
  BY <1>9 DEF HandleInputRead
<1>10. ASSUME SocketError \/ PollError \/ IdleTimeout \/ Abort PROVE out' = {}
  BY <1>10 DEF SocketError, PollError, IdleTimeout, Abort
<1>11. Shaped
  <2> HIDE DEF Shaped
  <2> QED
    BY <1>1, <1>4, <1>5, <1>6, <1>7, <1>8, <1>9, <1>10
<1> QED
  BY <1>11

\* It is sent below e if its chunk is.
LEMMA BelowIs ==
  ASSUME IInv', NEW e \in Int,
         \A f \in out' : f = Corrupt \/ f = Data(U8(f.chunk), f.chunk),
         \A f \in out' : f = Corrupt \/ f.chunk < e
  PROVE  SendsBelow(e)
<1>1. ASSUME NEW f \in out', f # Corrupt
      PROVE  \E c \in 0 .. NChunks : c < e /\ f = Data(U8(c), c)
  <2>1. f.chunk \in 0 .. NChunks
    BY <1>1 DEF IInv, TypeOK
  <2> QED
    BY <1>1, <2>1
<1> QED
  BY <1>1 DEF SendsBelow

\* The counters in terms of the variables of transmit().
LEMMA KnownIs ==
  ASSUME IInv, Running, Capacity < SeqSpace
  PROVE  /\ Known = Acked /\ Known \in Nat /\ InFlight \in Nat /\ nread \in Nat
         /\ Known + InFlight <= nread /\ nread <= NChunks + 1 /\ NChunks \in Nat
         /\ last_ack = U8(Known) /\ nread = Known + Used
BY AbstractCounters, SenderAssumption DEF Known, IInv, TypeOK

\* In the next state, too.
LEMMA LastAckIs ==
  (IInv /\ Running /\ Capacity < SeqSpace => last_ack = U8(Known))'
<1>1. IInv /\ Running /\ Capacity < SeqSpace => last_ack = U8(Known)
  BY KnownIs
<1> QED
  BY <1>1, PTL

\* A step that leaves the counters alone.
LEMMA SameWithin ==
  ASSUME IInv, Running, Capacity < SeqSpace, NEW e \in Int, NEW m \in Int, NEW w \in Int,
         Within(e, m, w),
         UNCHANGED <<last_ack, last_sent, last_chunk_read, nread>>,
         last_win' = last_win \/ (0 < last_win' /\ Known + last_win' <= e)
  PROVE  Within(e, m, w)' /\ Known' = Known
<1>1. Known' = Known /\ InFlight' = InFlight
  BY DEF Known, Unacked, InFlight
<1> QED
  BY <1>1 DEF Within

\* Steps that send nothing and leave the window alone.
LEMMA SilentWithin ==
  ASSUME IInv, Capacity < SeqSpace, NEW e \in Int, NEW m \in Int, NEW w \in Int,
         Within(e, m, w),
         \/ \E d \in Arrivals : SocketDrop(d)
         \/ SocketError \/ PollError \/ IdleTimeout \/ Abort
  PROVE  Within(e, m, w)' /\ Known' = Known /\ SendsBelow(e)
<1>1. Running /\ out' = {} /\ UNCHANGED <<window, nread>>
  BY DEF SocketDrop, SocketError, PollError, IdleTimeout, Abort, TimerExpires, Running,
         Terminal, input
<1>2. Within(e, m, w)' /\ Known' = Known
  BY <1>1, SameWithin DEF window
<1> QED
  BY <1>1, <1>2 DEF SendsBelow

LEMMA NackWithin ==
  ASSUME IInv, IInv', RingIsHistory, Capacity < SeqSpace, NumbersDoNotRepeat,
         NEW e \in Int, NEW m \in 0 .. NChunks + 1, NEW w \in Nat, 0 < w, Within(e, m, w),
         NEW d \in Arrivals, Honest(d, e, m, w), process_nack(d)
  PROVE  Within(e, m, w)' /\ Known' = Known /\ SendsBelow(e)
<1>1. /\ Running /\ last_win' = w
      /\ UNCHANGED <<last_ack, last_sent, last_chunk_read, nread>>
  BY AcceptedType DEF process_nack, SocketAccept, Honest, input
<1>2. /\ Known = Acked /\ Known \in Nat /\ InFlight \in Nat /\ NChunks \in Nat
      /\ Known + InFlight <= NChunks + 1
  BY <1>1, KnownIs
<1>3. Within(e, m, w)' /\ Known' = Known
  <2>1. Known + w <= e
    BY <1>1, <1>2 DEF Within, Honest
  <2> QED
    BY <1>1, <2>1, SameWithin
<1>4. PICK k \in 0 .. InFlight :
        /\ d.seq = U8(Known + k)
        /\ \A f \in out' : f = Corrupt \/ (f.chunk = Known + k /\ f.chunk < nread)
  BY <1>2, NackResends
<1>5. PICK c \in 0 .. NChunks : d.seq = U8(c) /\ c < e
  BY DEF Honest, process_nack
<1>6. c = Known + k
  <2>1. c \in 0 .. NChunks + 1 /\ Known + k \in 0 .. NChunks + 1
    BY <1>2
  <2> QED
    BY <1>4, <1>5, <2>1, SameNumber
<1>7. \A f \in out' : f = Corrupt \/ f.chunk < e
  BY <1>4, <1>5, <1>6
<1> QED
  BY <1>3, <1>7, SentShape, BelowIs

LEMMA DupAckWithin ==
  ASSUME IInv, IInv', Capacity < SeqSpace, NumbersDoNotRepeat,
         NEW e \in Int, NEW m \in 0 .. NChunks + 1, NEW w \in Nat, 0 < w, Within(e, m, w),
         NEW d \in Arrivals, Honest(d, e, m, w), process_dup_ack(d)
  PROVE  Within(e, m, w)' /\ Known' = Known /\ SendsBelow(e)
<1>1. /\ Running /\ last_win' = w
      /\ UNCHANGED <<last_ack, last_sent, last_chunk_read, nread>>
  BY AcceptedType DEF process_dup_ack, SocketAccept, Honest, input
<1>2. /\ Known = Acked /\ Known \in Nat /\ InFlight \in Nat /\ NChunks \in Nat
      /\ Known + InFlight <= NChunks + 1 /\ last_ack = U8(Known)
  BY <1>1, KnownIs
<1>3. PICK n \in 0 .. m : d.seq = U8(n) /\ n + w <= e
  BY DEF Honest, process_dup_ack
<1>4. n = Known
  <2>1. n \in 0 .. NChunks + 1 /\ Known \in 0 .. NChunks + 1
    BY <1>2
  <2>2. U8(n) = U8(Known)
    BY <1>2, <1>3 DEF process_dup_ack
  <2> QED
    BY <2>1, <2>2, SameNumber
<1>5. Within(e, m, w)' /\ Known' = Known
  BY <1>1, <1>2, <1>3, <1>4, SameWithin
<1>6. \A f \in out' : f.chunk < e
  BY <1>2, <1>3, <1>4, DupAckResends
<1> QED
  BY <1>5, <1>6, SentShape, BelowIs

\* An ACK moves the window to the chunk it names.
LEMMA AckWithin ==
  ASSUME IInv, IInv', Capacity < SeqSpace, NumbersDoNotRepeat,
         NEW e \in Int, NEW m \in 0 .. NChunks + 1, NEW w \in Nat, 0 < w, Within(e, m, w),
         NEW d \in Arrivals, Honest(d, e, m, w), process_ack(d)
  PROVE  /\ Within(e, m, w)' /\ SendsBelow(e)
         /\ Known' \in Int /\ Known < Known' /\ Known' <= m
<1>1. /\ Running /\ last_win' = w /\ last_ack' = d.seq /\ d.seq # last_ack
      /\ out' = {} /\ nread' = nread
  BY AcceptedType DEF process_ack, SocketAccept, Honest, input
<1>2. Running'
  <2>1. pc' \in {"input", "send"}
    BY AfterSocketType DEF process_ack, IInv
  <2> QED
    BY <2>1 DEF Running, Terminal
<1>3. /\ Known \in Nat /\ InFlight \in Nat /\ NChunks \in Nat
      /\ Known + InFlight <= NChunks + 1 /\ last_ack = U8(Known)
  BY <1>1, KnownIs
<1>4. /\ Known' \in Known .. Known + InFlight
      /\ Known' + InFlight' = Known + InFlight
  BY AckImplements DEF Promise!Feedback, Known
<1>5. last_ack' = U8(Known')
  BY <1>2, LastAckIs
<1>6. PICK n \in 0 .. m : d.seq = U8(n) /\ n + w <= e
  BY DEF Honest, process_ack
<1>7. n = Known'
  <2>1. n \in 0 .. NChunks + 1 /\ Known' \in 0 .. NChunks + 1
    BY <1>3, <1>4
  <2> QED
    BY <1>1, <1>5, <1>6, <2>1, SameNumber
<1>8. Known' # Known
  BY <1>1, <1>3, <1>5
<1>9. Known' \in Int /\ Known < Known' /\ Known' <= m
  <2>1. Known' \in Int /\ Known <= Known'
    BY <1>3, <1>4
  <2>2. Known' <= m
    BY <1>6, <1>7
  <2> QED
    BY <1>3, <1>8, <2>1, <2>2
<1>10. Within(e, m, w)'
  BY <1>1, <1>3, <1>4, <1>6, <1>7, <1>9 DEF Within
<1> QED
  BY <1>1, <1>9, <1>10 DEF SendsBelow

LEMMA InputWithin ==
  ASSUME IInv, Capacity < SeqSpace, NEW e \in Int, NEW m \in Int, NEW w \in Int,
         Within(e, m, w), NEW result \in ReadResults, HandleInputRead(result)
  PROVE  Within(e, m, w)' /\ Known' = Known /\ SendsBelow(e)
<1>1. Running /\ out' = {} /\ last_win' = last_win
  BY DEF HandleInputRead, Running, Terminal
<1>2. Known \in Nat /\ InFlight \in Nat
  BY <1>1, KnownIs
<1>3. Known' = Known /\ InFlight' = InFlight
  <2>1. Known' = Known /\ Known' + InFlight' = Known + InFlight
    BY InputImplements DEF Promise!Queue, Known
  <2>2. InFlight' = InFlight
    BY DEF HandleInputRead, InFlight
  <2> QED
    BY <2>1, <2>2
<1> QED
  BY <1>1, <1>3 DEF Within, SendsBelow

LEMMA SendWithin ==
  ASSUME IInv, IInv', Capacity < SeqSpace, NEW e \in Int, NEW m \in Int, NEW w \in Int,
         Within(e, m, w), DoSend
  PROVE  Within(e, m, w)' /\ Known' = Known /\ SendsBelow(e)
<1>1. Running /\ last_win' = last_win /\ last_win \in Int
  BY WindowAssumption DEF DoSend, Running, Terminal, IInv, TypeOK, Windows
<1>2. Known \in Nat /\ InFlight \in Nat /\ nread \in Nat
  BY <1>1, KnownIs
<1> DEFINE first == Known + InFlight
           next == Known' + InFlight'
           wire == {d.chunk : d \in out' \ {Corrupt}}
<1>3. /\ Known' = Known
      /\ next \in first .. nread
      /\ next > first => next <= Known + last_win
      /\ wire \in {first .. next - 1, first .. next - 2}
  BY SendImplements DEF Promise!Send, Known
<1> HIDE DEF wire, next, first
<1>4. first \in Int /\ next \in Int /\ first <= e
  BY <1>1, <1>2, <1>3 DEF first, Within
<1>5. next <= e
  BY <1>1, <1>2, <1>3, <1>4 DEF Within
<1>6. Within(e, m, w)'
  BY <1>1, <1>3, <1>5 DEF Within, next
<1>7. \A c \in wire : c < e
  BY <1>3, <1>4, <1>5
<1>8. \A f \in out' : f = Corrupt \/ f.chunk < e
  BY <1>7 DEF wire
<1> QED
  BY <1>3, <1>6, <1>8, SentShape, BelowIs

LEMMA RetransmitWithin ==
  ASSUME IInv, IInv', Capacity < SeqSpace, NEW e \in Int, NEW m \in Int, NEW w \in Int,
         Within(e, m, w), Retransmit
  PROVE  Within(e, m, w)' /\ Known' = Known /\ SendsBelow(e)
<1>1. /\ Running /\ last_win' = last_win
      /\ UNCHANGED <<last_ack, last_sent, last_chunk_read, nread>>
  BY DEF Retransmit, Retry, TimerExpires, Running, Terminal, window, input
<1>2. Known = Acked /\ Known \in Nat /\ InFlight \in Nat
  BY <1>1, KnownIs
<1>3. Within(e, m, w)' /\ Known' = Known
  BY <1>1, SameWithin
<1>4. \A f \in out' : f.chunk < e
  BY <1>1, <1>2, RetransmitResends DEF Within
<1> QED
  BY <1>3, <1>4, SentShape, BelowIs

\* The loop of handle_retransmission does not miss its end: last_sent is the
\* last number of all only before the first packet is sent, and a packet that
\* waits is sent at once.
LEMMA NoOverrun ==
  ASSUME IInv, NoStall, Capacity < SeqSpace, NumbersDoNotRepeat,
         NEW e \in Int, NEW m \in Int, NEW w \in Int, Within(e, m, w)
  PROVE  ~Overrun
<1> SUFFICES ASSUME Overrun PROVE FALSE
  OBVIOUS
<1>1. /\ pc = "poll" /\ Running /\ ~pktbuf_empty(send_buf) /\ last_sent = SeqSpace - 1
  BY SeqSpaceAssumption
  DEF Overrun, Retry, TimerExpires, Running, Terminal, IInv, TypeOK, SeqNums
<1>2. /\ Known = Acked /\ Known \in Nat /\ InFlight \in Nat /\ NChunks \in Nat
      /\ Known + InFlight <= NChunks + 1 /\ last_ack = U8(Known)
      /\ SeqSpace \in Nat /\ last_win \in Int /\ Used \in Nat
  BY <1>1, KnownIs, AbstractCounters, SeqSpaceAssumption, WindowAssumption
  DEF IInv, TypeOK, Windows
<1>3. last_ack = Known
  <2>1. Known \in SeqNums
    BY <1>2 DEF NumbersDoNotRepeat, SeqNums
  <2> QED
    BY <1>2, <2>1, U8Small
<1>4. InFlight = U8(SeqSpace - Known)
  BY <1>1, <1>2, <1>3 DEF InFlight, SeqDiff
<1>5. Known = 0
  <2> SUFFICES ASSUME Known # 0 PROVE FALSE
    OBVIOUS
  <2>1. SeqSpace - Known \in SeqNums
    BY <1>2 DEF NumbersDoNotRepeat, SeqNums
  <2>2. InFlight = SeqSpace - Known
    BY <1>4, <2>1, U8Small
  <2> QED
    BY <1>2, <2>2 DEF NumbersDoNotRepeat
<1>6. InFlight = 0
  BY <1>2, <1>4, <1>5, SeqSpaceAssumption DEF U8
<1>7. Used > 0
  BY <1>1, <1>2, EmptyIsUnused DEF IInv
<1> QED
  BY <1>1, <1>2, <1>6, <1>7 DEF NoStall, Used, Within

\* A step of transmit() whose peer is honest.
StepWith(d) ==
  \/ d \in Arrivals /\ (SocketDrop(d) \/ process_nack(d) \/ process_ack(d) \/ process_dup_ack(d))
  \/ SocketError \/ PollError \/ Timeout \/ DoSend
  \/ \E result \in ReadResults : HandleInputRead(result)

SafeInv == IInv /\ RingIsHistory /\ NoStall

\* Every step keeps the window below e, and sends nothing beyond it.
LEMMA NextWithin ==
  ASSUME SafeInv, Capacity < SeqSpace, NumbersDoNotRepeat,
         NEW e \in Int, NEW m \in 0 .. NChunks + 1, NEW w \in Nat, 0 < w, Within(e, m, w),
         NEW d, d \in Feedback => Honest(d, e, m, w), StepWith(d)
  PROVE  /\ SafeInv' /\ Within(e, m, w)' /\ SendsBelow(e)
         /\ \/ Known' = Known
            \/ /\ d \in Arrivals /\ process_ack(d)
               /\ Known' \in Int /\ Known < Known' /\ Known' <= m
<1>1. Next
  BY DEF StepWith, Next, HandleSocketRead
<1>2. SafeInv'
  BY <1>1, NextInvariant, NextHistory, NextDoesNotStall DEF SafeInv
<1>3. IInv /\ IInv' /\ RingIsHistory /\ NoStall /\ m \in Int /\ w \in Int
  BY <1>2, SenderAssumption DEF SafeInv
<1> DEFINE Kept == Within(e, m, w)' /\ Known' = Known /\ SendsBelow(e)
<1>4. ASSUME d \in Arrivals, SocketDrop(d) PROVE Kept
  BY <1>3, <1>4, SilentWithin
<1>5. ASSUME d \in Arrivals, process_nack(d) PROVE Kept
  <2>1. Honest(d, e, m, w)
    BY <1>5 DEF process_nack, SocketAccept, IsFeedback, InWindow, Arrivals, Data, Corrupt
  <2> QED
    BY <1>3, <1>5, <2>1, NackWithin
<1>6. ASSUME d \in Arrivals, process_dup_ack(d) PROVE Kept
  <2>1. Honest(d, e, m, w)
    BY <1>6 DEF process_dup_ack, SocketAccept, IsFeedback, InWindow, Arrivals, Data, Corrupt
  <2> QED
    BY <1>3, <1>6, <2>1, DupAckWithin
<1>7. ASSUME d \in Arrivals, process_ack(d)
      PROVE  /\ Within(e, m, w)' /\ SendsBelow(e)
             /\ Known' \in Int /\ Known < Known' /\ Known' <= m
  <2>1. Honest(d, e, m, w)
    BY <1>7 DEF process_ack, SocketAccept, IsFeedback, InWindow, Arrivals, Data, Corrupt
  <2> QED
    BY <1>3, <1>7, <2>1, AckWithin
<1>8. ASSUME SocketError \/ PollError \/ IdleTimeout \/ Abort PROVE Kept
  BY <1>3, <1>8, SilentWithin
<1>9. ASSUME Retransmit PROVE Kept
  BY <1>3, <1>9, RetransmitWithin
<1>10. ~Overrun
  BY <1>3, NoOverrun
<1>11. ASSUME DoSend PROVE Kept
  BY <1>3, <1>11, SendWithin
<1>12. ASSUME NEW result \in ReadResults, HandleInputRead(result) PROVE Kept
  BY <1>3, <1>12, InputWithin
<1>13. Kept \/ (d \in Arrivals /\ process_ack(d))
  <2> HIDE DEF Kept
  <2> QED
    BY <1>4, <1>5, <1>6, <1>8, <1>9, <1>10, <1>11, <1>12 DEF StepWith, Timeout
<1> QED
  BY <1>2, <1>7, <1>13

\* Every step is one of the loop, which an ACK lets go on.
LEMMA StepRuns ==
  ASSUME SafeInv, NEW d, StepWith(d)
  PROVE  Running /\ (process_ack(d) => Running')
<1>1. Running
  BY DEF StepWith, SocketDrop, process_nack, process_ack, process_dup_ack, SocketAccept,
         SocketError, PollError, Timeout, IdleTimeout, Abort, Retransmit, Overrun, Retry,
         TimerExpires, DoSend, HandleInputRead, Running, Terminal
<1>2. ASSUME process_ack(d) PROVE Running'
  <2>1. pc' \in {"input", "send"}
    BY <1>2, AfterSocketType DEF process_ack, SafeInv, IInv
  <2> QED
    BY <2>1 DEF Running, Terminal
<1> QED
  BY <1>1, <1>2

\* transmit() ends with success once the whole input is acknowledged.
LEMMA EndIsAcknowledged ==
  ASSUME SafeInv, Capacity < SeqSpace, NEW d, StepWith(d), pc' = "done"
  PROVE  last_in_read = "eof" /\ Known = nread
<1>1. DoSend
  <2>1. ~HandleSocketRead
    BY SocketGoesOn DEF SafeInv
  <2>2. ~Retransmit /\ ~Overrun
    BY NetSendGoesOn DEF Retransmit, Overrun
  <2>3. ~IdleTimeout /\ ~Abort /\ ~PollError
    BY DEF IdleTimeout, TimerExpires, Abort, PollError
  <2>4. ASSUME NEW result \in ReadResults PROVE ~HandleInputRead(result)
    BY DEF HandleInputRead
  <2> QED
    BY <2>1, <2>2, <2>3, <2>4 DEF StepWith, HandleSocketRead, Timeout
<1>2. last_in_read = "eof" /\ pktbuf_empty(send_buf')
  BY <1>1 DEF DoSend, Attempt
<1>3. Running /\ pktbuf_empty(send_buf)
  BY <1>1, <1>2, SendKeepsRing DEF SafeInv, DoSend, Running, Terminal
<1>4. Used = 0
  BY <1>3, EmptyIsUnused DEF SafeInv, IInv
<1> QED
  BY <1>2, <1>3, <1>4, KnownIs DEF SafeInv

\* A step of the receiver only clears what the sender has put on the wire.
LEMMA Cleared ==
  ASSUME SafeInv, NEW e \in Int, NEW m \in Int, NEW w \in Int, Within(e, m, w), out' = {},
         UNCHANGED <<send_buf, window, dup_ack, retry_count, input, pfds_count, pc>>
  PROVE  SafeInv' /\ Within(e, m, w)' /\ Known' = Known
<1>1. Known' = Known /\ InFlight' = InFlight
  BY DEF window, input, Known, Unacked, InFlight
<1>2. TypeOK'
  BY DEF SafeInv, IInv, TypeOK, window, input
<1>3. BufferIsWindow' /\ ReadsWithRoom'
  BY DEF SafeInv, IInv, BufferIsWindow, ReadsWithRoom, window, input, InFlight, Running
<1>4. RingIsHistory' /\ NoStall'
  BY <1>1 DEF SafeInv, RingIsHistory, NoStall, window, input, Running
<1>5. Within(e, m, w)'
  BY <1>1 DEF Within, window, Running
<1> QED
  BY <1>1, <1>2, <1>3, <1>4, <1>5 DEF SafeInv, IInv

\* It starts so, if the peer's window starts with one packet.
LEMMA InitWithin ==
  ASSUME Init, Capacity < SeqSpace, NEW e \in Int, 1 <= e, NEW m \in Nat, NEW w \in Int
  PROVE  SafeInv /\ Within(e, m, w) /\ Known = 0
<1>1. IInv /\ RingIsHistory /\ Running
  BY InitInvariant, InitHistory DEF Init, Running, Terminal
<1>2. Known = 0 /\ InFlight = 0 /\ last_win = 1
  <2>1. Known = 0 /\ Known + InFlight = 0 /\ last_win = 1
    BY InitImplements DEF Promise!Init, Known
  <2> QED
    BY <1>1, <2>1, KnownIs
<1>3. NoStall
  BY InitDoesNotStall
<1> QED
  BY <1>1, <1>2, <1>3 DEF SafeInv, Within

=============================================================================
