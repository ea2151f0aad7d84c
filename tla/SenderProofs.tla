---------------------------- MODULE SenderProofs ----------------------------
(***************************************************************************)
(* The sender keeps its window, its sequence numbers and its ring in step  *)
(* (BufferIsWindow) and reads only what it has room for: for every size of *)
(* the sequence space, of the ring, of the index counters, of the window   *)
(* and of the input.                                                       *)
(***************************************************************************)
EXTENDS Sender, RingLemmas

(***************************************************************************)
(* What the invariant says of a running sender, in terms of the counters   *)
(* the sequence numbers and the ring indices stand for.                    *)
(***************************************************************************)
Used == pktbuf_used(send_buf)

Acked == nread - Used

Slots == [seq : SeqNums, chunk : -1 .. NChunks]

Buffers == [first : 0 .. IdxSpace - 1, last : 0 .. IdxSpace - 1, head : [SlotIds -> Slots]]

Frames == {Corrupt} \cup [type : {"DATA"}, seq : SeqNums, chunk : 0 .. NChunks]

\* The slot of a chunk.
Slot(chunk) == [seq |-> U8(chunk), chunk |-> chunk]

\* The counters of a running sender.
LEMMA Counters ==
  ASSUME TypeOK, BufferIsWindow, Running
  PROVE  /\ nread \in Nat /\ Used \in 0 .. Capacity /\ Acked \in Nat
         /\ send_buf.first = U32(Acked) /\ send_buf.last = U32(nread)
         /\ last_ack = U8(Acked) /\ last_chunk_read = U8(nread - 1)
         /\ InFlight \in 0 .. Used
<1>1. nread \in Nat /\ send_buf.first \in 0 .. IdxSpace - 1 /\ send_buf.last \in Int
  BY SenderAssumption, IdxSpaceFactor DEF TypeOK
<1>2. Used \in 0 .. IdxSpace - 1
  BY <1>1, IdxSpaceFactor, U32Type DEF Used, pktbuf_used
<1>3. /\ Used <= Capacity /\ Used <= nread /\ InFlight <= Used
      /\ last_chunk_read = U8(nread - 1)
      /\ last_ack = U8(nread - Used)
      /\ send_buf.last = U32(nread)
  BY DEF BufferIsWindow, Used
<1>4. InFlight \in SeqNums
  <2>1. (last_sent + 1) - last_ack \in Int
    BY SeqSpaceAssumption DEF TypeOK, SeqNums
  <2>2. U8((last_sent + 1) - last_ack) \in SeqNums
    BY <2>1, U8Type
  <2> QED
    BY <2>2 DEF InFlight, SeqDiff
<1>5. send_buf.first = U32(nread - Used)
  BY <1>1, <1>3, FirstFromUsed DEF Used, pktbuf_used
<1> QED
  BY <1>1, <1>2, <1>3, <1>4, <1>5, IdxSpaceFactor, SeqSpaceAssumption DEF Acked, SeqNums

\* The ring is empty when it has no packet in use.
LEMMA EmptyIsUnused ==
  ASSUME TypeOK, BufferIsWindow, Running
  PROVE  pktbuf_empty(send_buf) <=> Used = 0
<1>1. /\ nread \in Nat /\ Acked \in Nat /\ Used \in 0 .. Capacity
      /\ send_buf.first = U32(Acked) /\ send_buf.last = U32(nread)
  BY Counters
<1>2. ASSUME pktbuf_empty(send_buf) PROVE Used = 0
  <2>1. send_buf.last - send_buf.first = 0
    BY <1>1, <1>2, U32Type DEF pktbuf_empty
  <2> QED
    BY <2>1, IdxSpaceFactor, ModSmall DEF Used, pktbuf_used, U32
<1>3. ASSUME Used = 0 PROVE pktbuf_empty(send_buf)
  BY <1>1, <1>3 DEF pktbuf_empty, Acked
<1> QED
  BY <1>2, <1>3

\* The oldest packet in use is the first one that is not acknowledged.
LEMMA FirstPacket ==
  ASSUME TypeOK, BufferIsWindow, Running, Used > 0
  PROVE  pktbuf_first(send_buf) = Slot(Acked) /\ pktbuf_first(send_buf).seq = last_ack
<1>1. /\ nread \in Nat /\ Acked \in Nat /\ Used \in 0 .. Capacity
      /\ send_buf.first = U32(Acked) /\ last_ack = U8(Acked)
  BY Counters
<1>2. mask_index(send_buf.first) = mask_index(Acked)
  BY <1>1, MaskOfU32
<1>3. Acked \in nread - Used .. nread - 1
  BY <1>1, IdxSpaceFactor DEF Acked
<1>4. send_buf.head[mask_index(Acked)] = Slot(Acked)
  BY <1>3 DEF BufferIsWindow, Used, Slot
<1> QED
  BY <1>1, <1>2, <1>4 DEF pktbuf_first, first_item, Slot

\* pktbuf_slotfor_seq finds the slots of the sequence numbers that are less
\* than Used ahead of last_ack, and changes nothing.
LEMMA NothingReserved ==
  ASSUME TypeOK, BufferIsWindow, Running, NEW seq \in SeqNums, SeqDiff(seq, last_ack) < Used
  PROVE  /\ SlotReserved(send_buf, seq) = send_buf
         /\ SlotOf(send_buf, seq) \in Slots
<1>1. seq \in Int /\ last_ack \in Int /\ seq - last_ack \in Int
  BY SeqSpaceAssumption DEF TypeOK, SeqNums
<1>2. SeqDiff(seq, last_ack) \in SeqNums /\ SeqDiff(seq, last_ack) >= 0
  BY <1>1, U8Type, SeqSpaceAssumption DEF SeqDiff, SeqNums
<1>3. Used \in Int /\ Used > 0
  BY <1>2, Counters, SeqSpaceAssumption, IdxSpaceFactor DEF SeqNums
<1>4. ~pktbuf_empty(send_buf)
  BY <1>3, EmptyIsUnused
<1>5. SlotBase(send_buf, seq) = send_buf
  BY <1>4 DEF SlotBase
<1>6. SlotOffset(send_buf, seq) = SeqDiff(seq, last_ack)
  BY <1>3, <1>5, FirstPacket DEF SlotOffset
<1>7. SlotReserved(send_buf, seq) = send_buf
  BY <1>5, <1>6 DEF SlotReserved, Used
<1>8. SlotIndex(send_buf, seq) \in SlotIds
  <2>1. first_item(send_buf) \in Int
    BY MaskType, IdxSpaceFactor DEF first_item, TypeOK, SlotIds
  <2>2. first_item(send_buf) + SeqDiff(seq, last_ack) \in Int
    BY <2>1, <1>2, SeqSpaceAssumption DEF SeqNums
  <2> QED
    BY <2>2, <1>5, <1>6, MaskType DEF SlotIndex
<1> QED
  BY <1>7, <1>8 DEF SlotOf, TypeOK, Slots

\* A slot is sent as a packet or as something that does not decode.
LEMMA FrameType ==
  ASSUME NEW slot \in Slots
  PROVE  Frame(slot) \in Frames
<1>1. slot.seq \in SeqNums /\ slot.chunk \in Int /\ slot.chunk <= NChunks
  BY SenderAssumption DEF Slots
<1> QED
  BY <1>1, SenderAssumption DEF Frame, Data, Frames

\* The type of what is on the wire, as TypeOK states it.
LEMMA OutType ==
  ASSUME NEW S, S \subseteq Frames
  PROVE  \A d \in S : d = Corrupt \/ d \in [type : {"DATA"}, seq : SeqNums, chunk : 0 .. NChunks]
BY DEF Frames

\* Reserving slots keeps the type of the ring.
LEMMA ReserveType ==
  ASSUME NEW buf \in Buffers, NEW n \in Int
  PROVE  Reserve(buf, n) \in Buffers
<1> DEFINE nextSeq == pktbuf_first(buf).seq + pktbuf_used(buf)
           Pos(i) == mask_index(i - buf.last)
           head == [i \in SlotIds |->
                      IF Pos(i) < n
                      THEN [buf.head[i] EXCEPT !.seq = U8(nextSeq + Pos(i))]
                      ELSE buf.head[i]]
<1>1. /\ buf.first \in 0 .. IdxSpace - 1 /\ buf.last \in 0 .. IdxSpace - 1
      /\ buf.head \in [SlotIds -> Slots]
      /\ buf.first \in Int /\ buf.last \in Int
  BY IdxSpaceFactor DEF Buffers
<1>2. pktbuf_first(buf).seq \in Int
  BY <1>1, MaskType, SeqSpaceAssumption DEF pktbuf_first, first_item, Slots, SeqNums
<1>3. pktbuf_used(buf) \in Int
  BY <1>1, U32Type DEF pktbuf_used
<1>4. nextSeq \in Int
  BY <1>2, <1>3
<1>5. ASSUME NEW i \in SlotIds PROVE Pos(i) \in Int
  <2>1. i - buf.last \in Int
    BY <1>1, IdxSpaceFactor DEF SlotIds
  <2>2. mask_index(i - buf.last) \in SlotIds
    BY <2>1, MaskType
  <2> QED
    BY <2>2, IdxSpaceFactor DEF SlotIds
<1>6. ASSUME NEW i \in SlotIds PROVE U8(nextSeq + Pos(i)) \in SeqNums
  BY <1>4, <1>5, U8Type
<1> HIDE DEF nextSeq, Pos
<1>7. head \in [SlotIds -> Slots]
  BY <1>1, <1>6 DEF Slots
<1>8. U32(buf.last + n) \in 0 .. IdxSpace - 1
  BY <1>1, U32Type
<1>9. Reserve(buf, n) = [buf EXCEPT !.last = U32(@ + n), !.head = head]
  BY DEF Reserve, nextSeq, Pos
<1> QED
  BY <1>1, <1>7, <1>8, <1>9 DEF Buffers

-----------------------------------------------------------------------------
(***************************************************************************)
(* Steps of the window                                                     *)
(***************************************************************************)

\* Dequeuing n acknowledged packets moves the start of the window.
LEMMA DequeueMovesWindow ==
  ASSUME TypeOK, BufferIsWindow, Running, NEW n \in 0 .. Used,
         send_buf' = pktbuf_dequeue(send_buf, n), UNCHANGED nread
  PROVE  /\ send_buf' \in Buffers
         /\ send_buf'.last = U32(nread)
         /\ pktbuf_used(send_buf') = Used - n
         /\ \A chunk \in nread - (Used - n) .. nread - 1 :
              send_buf'.head[mask_index(chunk)] = Slot(chunk)
<1>1. /\ nread \in Nat /\ Acked \in Nat /\ Used \in 0 .. Capacity /\ n \in Nat
      /\ send_buf.first = U32(Acked) /\ send_buf.last = U32(nread)
  BY Counters
<1>2. send_buf \in Buffers
  BY DEF TypeOK, Buffers, Slots
<1>3. U32(send_buf.first + n) = U32(Acked + n)
  BY <1>1, U32Add
<1>4. U32(Acked + n) \in 0 .. IdxSpace - 1
  BY <1>1, U32Type
<1>5. /\ send_buf' \in Buffers
      /\ send_buf'.first = U32(Acked + n)
      /\ send_buf'.last = U32(nread)
      /\ send_buf'.head = send_buf.head
  BY <1>1, <1>2, <1>3, <1>4 DEF pktbuf_dequeue, Buffers
<1>6. pktbuf_used(send_buf') = Used - n
  <2>1. /\ Acked + n \in Int /\ Acked + n <= nread /\ nread <= Acked + n + Capacity
        /\ nread - (Acked + n) = Used - n
    BY <1>1, IdxSpaceFactor DEF Acked
  <2>2. U32(U32(nread) - U32(Acked + n)) = nread - (Acked + n)
    BY <1>1, <2>1, UsedOfCounters
  <2> QED
    BY <1>5, <2>1, <2>2 DEF pktbuf_used
<1>7. ASSUME NEW chunk \in nread - (Used - n) .. nread - 1
      PROVE  send_buf'.head[mask_index(chunk)] = Slot(chunk)
  <2>1. chunk \in nread - Used .. nread - 1
    BY <1>1, IdxSpaceFactor
  <2> QED
    BY <2>1, <1>5 DEF BufferIsWindow, Used, Slot
<1> QED
  BY <1>5, <1>6, <1>7

\* Enqueuing the next chunk extends the window.
LEMMA EnqueueExtendsWindow ==
  ASSUME TypeOK, BufferIsWindow, Running, Used < Capacity, nread <= NChunks,
         send_buf' = pktbuf_enqueue(send_buf, Slot(nread)), nread' = nread + 1
  PROVE  /\ send_buf' \in Buffers
         /\ send_buf'.last = U32(nread')
         /\ pktbuf_used(send_buf') = Used + 1
         /\ \A chunk \in nread' - (Used + 1) .. nread' - 1 :
              send_buf'.head[mask_index(chunk)] = Slot(chunk)
<1>1. /\ nread \in Nat /\ Acked \in Nat /\ Used \in 0 .. Capacity
      /\ send_buf.first = U32(Acked) /\ send_buf.last = U32(nread)
  BY Counters
<1>2. send_buf \in Buffers
  BY DEF TypeOK, Buffers, Slots
<1>3. Slot(nread) \in Slots
  BY <1>1, U8Type, SenderAssumption DEF Slot, Slots
<1>4. U32(send_buf.last + 1) = U32(nread + 1) /\ U32(nread + 1) \in 0 .. IdxSpace - 1
  BY <1>1, U32Add, U32Type
<1>5. mask_index(send_buf.last) = mask_index(nread)
  BY <1>1, MaskOfU32
<1>6. /\ send_buf' \in Buffers
      /\ send_buf'.first = U32(Acked)
      /\ send_buf'.last = U32(nread')
      /\ send_buf'.head = [send_buf.head EXCEPT ![mask_index(nread)] = Slot(nread)]
  BY <1>1, <1>2, <1>3, <1>4, <1>5 DEF pktbuf_enqueue, Buffers
<1>7. pktbuf_used(send_buf') = Used + 1
  <2>1. /\ nread + 1 \in Int /\ Acked <= nread + 1 /\ nread + 1 <= Acked + Capacity
        /\ nread + 1 - Acked = Used + 1
    BY <1>1, IdxSpaceFactor DEF Acked
  <2>2. U32(U32(nread + 1) - U32(Acked)) = nread + 1 - Acked
    BY <1>1, <2>1, UsedOfCounters
  <2> QED
    BY <1>6, <2>1, <2>2 DEF pktbuf_used
<1>8. ASSUME NEW chunk \in nread' - (Used + 1) .. nread' - 1
      PROVE  send_buf'.head[mask_index(chunk)] = Slot(chunk)
  <2>1. chunk \in Int /\ mask_index(chunk) \in SlotIds /\ mask_index(nread) \in SlotIds
    BY <1>1, MaskType, IdxSpaceFactor
  <2>2. CASE chunk = nread
    BY <1>2, <1>6, <2>1, <2>2 DEF Buffers
  <2>3. CASE chunk # nread
    <3>1. chunk \in nread - Used .. nread - 1 /\ chunk < nread /\ nread < chunk + Capacity
      BY <1>1, <2>3, IdxSpaceFactor
    <3>2. mask_index(chunk) # mask_index(nread)
      BY <1>1, <2>1, <3>1, SlotsDiffer
    <3>3. send_buf.head[mask_index(chunk)] = Slot(chunk)
      BY <3>1 DEF BufferIsWindow, Used, Slot
    <3> QED
      BY <1>2, <1>6, <2>1, <3>2, <3>3 DEF Buffers
  <2> QED
    BY <2>2, <2>3
<1> QED
  BY <1>6, <1>7, <1>8

\* A step that leaves the window alone.
LEMMA SameWindow ==
  ASSUME BufferIsWindow, Running,
         UNCHANGED <<send_buf, last_ack, last_sent, last_chunk_read, nread>>
  PROVE  BufferIsWindow'
BY DEF BufferIsWindow, InFlight

\* A step that ends the process has nothing to keep.
LEMMA EndedWindow ==
  ASSUME pc' \in Terminal
  PROVE  BufferIsWindow'
BY DEF BufferIsWindow, Running

\* The handlers of the socket are followed by the input or by the sending.
LEMMA AfterSocketType ==
  ASSUME TypeOK, NEW after \in AfterSocket
  PROVE  /\ after \in {"input", "send"}
         /\ after = "input" => pfds_count = 2
<1>1. CASE pfds_count = 1
  BY <1>1 DEF AfterSocket
<1>2. CASE pfds_count = 2 /\ RegularInput
  BY <1>2 DEF AfterSocket
<1>3. CASE pfds_count = 2 /\ ~RegularInput
  BY <1>3 DEF AfterSocket
<1> QED
  BY <1>1, <1>2, <1>3, SenderAssumption DEF TypeOK

\* What net_send puts on the wire, and where the loop goes on.
LEMMA AttemptType ==
  ASSUME NEW packets, NEW attempted \in Nat, NEW after, Len(packets) \in Nat,
         \A i \in 1 .. Len(packets) : packets[i] \in Frames,
         Attempt(packets, attempted, after)
  PROVE  /\ out' \subseteq Frames
         /\ \/ pc' = after /\ attempted = Len(packets)
            \/ pc' = "failed"
<1>1. CASE /\ attempted = Len(packets)
           /\ out' = {packets[i] : i \in 1 .. attempted}
           /\ pc' = after
  BY <1>1
<1>2. CASE /\ attempted \in 1 .. Len(packets)
           /\ out' = {packets[i] : i \in 1 .. attempted - 1}
           /\ pc' = "failed"
  BY <1>2
<1> QED
  BY <1>1, <1>2 DEF Attempt

\* net_send of several packets puts packets on the wire, then goes on or fails.
LEMMA NetSendType ==
  ASSUME NEW packets, NEW after, Len(packets) \in Nat,
         \A i \in 1 .. Len(packets) : packets[i] \in Frames,
         NetSend(packets, after)
  PROVE  out' \subseteq Frames /\ (pc' = after \/ pc' = "failed")
<1>1. PICK attempted \in 0 .. Len(packets) : Attempt(packets, attempted, after)
  BY DEF NetSend
<1>2. attempted \in Nat
  BY <1>1
<1> QED
  BY <1>1, <1>2, AttemptType

\* The same for a handler that sends one packet or none.
LEMMA NetSendOne ==
  ASSUME NEW packet \in Frames, NEW after, NetSend(<<packet>>, after)
  PROVE  out' \subseteq Frames /\ (pc' = after \/ pc' = "failed")
<1>1. Len(<<packet>>) = 1 /\ \A i \in 1 .. 1 : <<packet>>[i] \in Frames
  OBVIOUS
<1> QED
  BY <1>1, NetSendType

\* A handler that sends nothing does not fail.
LEMMA NetSendNone ==
  ASSUME NEW after, NetSend(<< >>, after)
  PROVE  out' = {} /\ pc' = after
<1>1. Len(<< >>) = 0
  OBVIOUS
<1> QED
  BY <1>1 DEF NetSend, Attempt

-----------------------------------------------------------------------------
(***************************************************************************)
(* The invariant holds initially and is kept by every action               *)
(***************************************************************************)
\* IInv holds for the initial values of transmit.c:19-28 and an empty ring.
LEMMA InitInvariant == Init => IInv
<1> SUFFICES ASSUME Init PROVE IInv
  OBVIOUS
<1>1. 0 \in SeqNums /\ U8(-1) \in SeqNums
  BY U8Type, SeqSpaceAssumption DEF SeqNums
<1>2. Blank \in Slots
  BY <1>1, SenderAssumption DEF Blank, Slots
<1>3. /\ send_buf.first = 0 /\ send_buf.last = 0
      /\ send_buf.head = [i \in SlotIds |-> Blank]
      /\ send_buf \in Buffers
  BY <1>2, IdxSpaceFactor DEF Init, pktbuf_new, Buffers
<1>4. pktbuf_used(send_buf) = 0 /\ U32(0) = 0
  BY <1>3, IdxSpaceFactor, ModSmall DEF pktbuf_used, U32
<1>5. U8(0) = 0
  BY <1>1, U8Small
<1>6. InFlight = 0
  <2>1. U8(U8(-1) + 1) = U8((-1) + 1)
    BY U8Add
  <2>2. SeqDiff(U8(-1) + 1, 0) = U8((U8(-1) + 1) - 0)
    BY DEF SeqDiff
  <2>3. (U8(-1) + 1) - 0 = U8(-1) + 1 /\ (-1) + 1 = 0
    BY <1>1, SeqSpaceAssumption DEF SeqNums
  <2> QED
    BY <2>1, <2>2, <2>3, <1>5 DEF InFlight, Init
<1>7. TypeOK
  BY <1>1, <1>3, WindowAssumption, SenderAssumption
  DEF TypeOK, Init, Buffers, Slots, Windows, Terminal
<1>8. BufferIsWindow
  BY <1>3, <1>4, <1>5, <1>6, IdxSpaceFactor DEF BufferIsWindow, Init
<1>9. ReadsWithRoom
  BY <1>4, IdxSpaceFactor, SenderAssumption DEF ReadsWithRoom, Init, pktbuf_full
<1> QED
  BY <1>7, <1>8, <1>9 DEF IInv

\* TypeOK holds after a step that the lemmas above describe.
LEMMA TypeAfter ==
  ASSUME TypeOK,
         send_buf' \in Buffers,
         last_ack' \in SeqNums, last_win' \in Windows, last_sent' \in SeqNums,
         last_chunk_read' \in SeqNums,
         dup_ack' \in 0 .. MaxDupAck - 1,
         retry_count' \in 0 .. MaxRetransmission + (IF pc' \in Terminal THEN 1 ELSE 0),
         last_in_read' \in {"none", "data", "eof", "error"},
         pfds_count' \in {1, 2},
         pc' \in {"poll", "input", "send"} \cup Terminal,
         nread' \in 0 .. NChunks + 1,
         out' \subseteq Frames
  PROVE  TypeOK'
<1>1. \A d \in out' : d = Corrupt \/ d \in [type : {"DATA"}, seq : SeqNums, chunk : 0 .. NChunks]
  BY OutType
<1> QED
  BY <1>1 DEF TypeOK, Buffers, Slots

\* A step of a running sender that leaves the window alone and goes on with
\* the input only if that was polled.
LEMMA QuietStep ==
  ASSUME IInv, Running,
         UNCHANGED <<send_buf, last_ack, last_sent, last_chunk_read, input, pfds_count>>,
         last_win' \in Windows,
         dup_ack' \in 0 .. MaxDupAck - 1,
         retry_count' \in 0 .. MaxRetransmission + (IF pc' \in Terminal THEN 1 ELSE 0),
         out' \subseteq Frames,
         pc' \in {"poll", "input", "send"} \cup Terminal,
         pc' = "input" => pfds_count = 2,
         pc' \in {"poll", "input"} => pc = "poll"
  PROVE  IInv'
<1> USE DEF IInv
<1>1. TypeOK'
  <2>1. send_buf' \in Buffers
    BY DEF TypeOK, Buffers, Slots, input
  <2> QED
    BY <2>1, TypeAfter DEF TypeOK, input
<1>2. BufferIsWindow'
  BY SameWindow DEF input
<1>3. ReadsWithRoom'
  BY DEF ReadsWithRoom, Running, input, pktbuf_full
<1> QED
  BY <1>1, <1>2, <1>3

\* handle_socket_read keeps IInv when it drops the datagram.
LEMMA KeepSocketDrop ==
  ASSUME IInv, NEW d \in Arrivals, SocketDrop(d)
  PROVE  IInv'
<1>1. pc = "poll" /\ Running /\ pc' \in AfterSocket
  BY DEF SocketDrop, Running, Terminal
<1>2. pc' \in {"input", "send"} /\ (pc' = "input" => pfds_count = 2)
  BY <1>1, AfterSocketType DEF IInv
<1>3. retry_count' = 0 /\ out' = {} /\ UNCHANGED <<send_buf, window, dup_ack, input, pfds_count>>
  BY DEF SocketDrop
<1> QED
  BY <1>1, <1>2, <1>3, QuietStep, SenderAssumption DEF window, IInv, TypeOK, Terminal

\* handle_socket_read keeps IInv when the socket has an error.
LEMMA KeepSocketError ==
  ASSUME IInv, SocketError
  PROVE  IInv'
<1>1. pc = "poll" /\ Running /\ pc' = "failed" /\ retry_count' = 0 /\ out' = {}
  BY DEF SocketError, Running, Terminal
<1>2. UNCHANGED <<send_buf, window, dup_ack, input, pfds_count>>
  BY DEF SocketError
<1> QED
  BY <1>1, <1>2, QuietStep, SenderAssumption DEF window, IInv, TypeOK, Terminal

\* A poll() that fails keeps IInv.
LEMMA KeepPollError ==
  ASSUME IInv, PollError
  PROVE  IInv'
<1>1. pc = "poll" /\ Running /\ pc' = "failed" /\ out' = {}
  BY DEF PollError, Running, Terminal
<1>2. UNCHANGED <<send_buf, window, dup_ack, retry_count, input, pfds_count>>
  BY DEF PollError
<1> QED
  BY <1>1, <1>2, QuietStep, SenderAssumption DEF window, IInv, TypeOK, Terminal

\* What the accepted ACKs and NACKs look like.
LEMMA AcceptedType ==
  ASSUME IInv, NEW d \in Arrivals, SocketAccept(d)
  PROVE  /\ d.seq \in SeqNums /\ d.window \in Windows
         /\ SeqDiff(d.seq, last_ack) <= InFlight
         /\ pc = "poll" /\ Running
         /\ retry_count' = 0 /\ last_win' \in Windows
         /\ UNCHANGED <<last_sent, last_chunk_read, input, pfds_count>>
<1>1. IsFeedback(d)
  BY DEF SocketAccept
<1>2. d \in Feedback
  BY <1>1 DEF IsFeedback, InWindow, Arrivals, Data, Corrupt
<1> QED
  BY <1>1, <1>2 DEF SocketAccept, IsFeedback, InWindow, Feedback, Running, Terminal

\* process_nack keeps IInv: it changes neither the ring nor the window.
LEMMA KeepNack ==
  ASSUME IInv, NEW d \in Arrivals, process_nack(d)
  PROVE  IInv'
<1>1. SocketAccept(d) /\ UNCHANGED <<send_buf, last_ack, dup_ack>>
  BY DEF process_nack
<1>2. /\ pc = "poll" /\ Running /\ retry_count' = 0 /\ last_win' \in Windows
      /\ UNCHANGED <<last_sent, last_chunk_read, input, pfds_count>>
  BY <1>1, AcceptedType
<1>3. PICK after \in AfterSocket :
        \/ \E i \in 0 .. pktbuf_used(send_buf) - 1 :
             NetSend(<<Frame(pktbuf_at(send_buf, i))>>, after)
        \/ NetSend(<< >>, after)
  BY DEF process_nack
<1>4. out' \subseteq Frames /\ (pc' = after \/ pc' = "failed")
  <2>1. CASE NetSend(<< >>, after)
    BY <2>1, NetSendNone
  <2>2. CASE \E i \in 0 .. pktbuf_used(send_buf) - 1 :
               NetSend(<<Frame(pktbuf_at(send_buf, i))>>, after)
    <3>1. PICK i \in 0 .. pktbuf_used(send_buf) - 1 :
            NetSend(<<Frame(pktbuf_at(send_buf, i))>>, after)
      BY <2>2
    <3>2. i \in Int /\ mask_index(i) \in SlotIds
      <4>1. Used \in Int
        BY <1>2, Counters, IdxSpaceFactor DEF IInv
      <4>2. i \in Int
        BY <4>1 DEF Used
      <4> QED
        BY <4>2, MaskType
    <3>3. pktbuf_at(send_buf, i) \in Slots
      BY <3>2 DEF pktbuf_at, IInv, TypeOK, Slots
    <3> QED
      BY <3>1, <3>3, FrameType, NetSendOne
  <2> QED
    BY <1>3, <2>1, <2>2
<1>5. after \in {"input", "send"} /\ (after = "input" => pfds_count = 2)
  BY AfterSocketType DEF IInv
<1>6. dup_ack' \in 0 .. MaxDupAck - 1
  BY <1>1 DEF IInv, TypeOK
<1> QED
  BY <1>1, <1>2, <1>4, <1>5, <1>6, QuietStep, SenderAssumption DEF Terminal

\* process_dup_ack keeps IInv, whether or not it finds a packet to send.
LEMMA KeepDupAck ==
  ASSUME IInv, NEW d \in Arrivals, process_dup_ack(d)
  PROVE  IInv'
<1>1. SocketAccept(d) /\ UNCHANGED <<send_buf, last_ack>>
  BY DEF process_dup_ack
<1>2. /\ pc = "poll" /\ Running /\ retry_count' = 0 /\ last_win' \in Windows
      /\ UNCHANGED <<last_sent, last_chunk_read, input, pfds_count>>
  BY <1>1, AcceptedType
<1>3. PICK after \in AfterSocket :
        \/ dup_ack + 1 # MaxDupAck /\ dup_ack' = dup_ack + 1 /\ NetSend(<< >>, after)
        \/ /\ ~pktbuf_empty(send_buf)
           /\ dup_ack' = 0
           /\ NetSend(<<Frame(pktbuf_first(send_buf))>>, after)
        \/ dup_ack' = 0 /\ out' = {} /\ pc' = "crashed"
  BY DEF process_dup_ack
<1>4. after \in {"input", "send"} /\ (after = "input" => pfds_count = 2)
  BY AfterSocketType DEF IInv
<1>5. dup_ack' \in 0 .. MaxDupAck - 1
  BY <1>3, SenderAssumption DEF IInv, TypeOK
<1>6. out' \subseteq Frames /\ (pc' = after \/ pc' \in Terminal)
  <2>1. CASE NetSend(<< >>, after)
    BY <2>1, NetSendNone
  <2>2. CASE NetSend(<<Frame(pktbuf_first(send_buf))>>, after)
    <3>1. send_buf.first \in Int
      BY IdxSpaceFactor DEF IInv, TypeOK
    <3>2. pktbuf_first(send_buf) \in Slots
      BY <3>1, MaskType DEF pktbuf_first, first_item, IInv, TypeOK, Slots
    <3> QED
      BY <2>2, <3>2, FrameType, NetSendOne DEF Terminal
  <2>3. CASE out' = {} /\ pc' = "crashed"
    BY <2>3 DEF Terminal
  <2> QED
    BY <1>3, <2>1, <2>2, <2>3
<1> QED
  BY <1>1, <1>2, <1>4, <1>5, <1>6, QuietStep, SenderAssumption DEF Terminal

\* process_ack keeps IInv: as many packets leave the ring as sequence numbers
\* are acknowledged.
LEMMA KeepAck ==
  ASSUME IInv, NEW d \in Arrivals, process_ack(d)
  PROVE  IInv'
<1> DEFINE n == SeqDiff(d.seq, last_ack)
<1>1. /\ d.seq \in SeqNums /\ n <= InFlight
      /\ pc = "poll" /\ Running
      /\ retry_count' = 0 /\ last_win' \in Windows
      /\ UNCHANGED <<last_sent, last_chunk_read, input, pfds_count>>
  BY AcceptedType DEF process_ack
<1>2. /\ send_buf' = pktbuf_dequeue(send_buf, n)
      /\ last_ack' = d.seq
      /\ dup_ack' = 0 /\ out' = {} /\ pc' \in AfterSocket
  BY DEF process_ack
<1>3. pc' \in {"input", "send"} /\ (pc' = "input" => pfds_count = 2)
  BY <1>2, AfterSocketType DEF IInv
<1>4. /\ nread \in Nat /\ Used \in 0 .. Capacity /\ Acked \in Nat
      /\ last_ack = U8(Acked) /\ last_chunk_read = U8(nread - 1)
      /\ InFlight \in 0 .. Used
  BY <1>1, Counters DEF IInv
<1>5. last_ack \in Int /\ last_sent \in Int /\ d.seq \in Int
  BY <1>1, SeqSpaceAssumption DEF IInv, TypeOK, SeqNums
<1>6. n \in Nat /\ n \in 0 .. Used
  <2>1. d.seq - last_ack \in Int
    BY <1>5
  <2>2. n \in SeqNums
    BY <2>1, U8Type DEF SeqDiff
  <2> QED
    BY <2>2, <1>1, <1>4, SeqSpaceAssumption, IdxSpaceFactor DEF SeqNums
<1>7. /\ send_buf' \in Buffers
      /\ send_buf'.last = U32(nread)
      /\ pktbuf_used(send_buf') = Used - n
      /\ \A chunk \in nread - (Used - n) .. nread - 1 :
           send_buf'.head[mask_index(chunk)] = Slot(chunk)
  BY <1>1, <1>2, <1>6, DequeueMovesWindow DEF IInv, input
<1>8. d.seq = U8(last_ack + n) /\ last_ack + n \in Int
  BY <1>1, <1>5, <1>6, SeqDiffReaches DEF IInv, TypeOK
<1> HIDE DEF n
<1>9. d.seq = U8(nread - (Used - n))
  <2>1. U8(U8(Acked) + n) = U8(Acked + n)
    BY <1>4, <1>6, U8Add
  <2>2. Acked + n = nread - (Used - n)
    BY <1>4, <1>6, IdxSpaceFactor DEF Acked
  <2> QED
    BY <1>4, <1>8, <2>1, <2>2
<1>10. SeqDiff(last_sent + 1, d.seq) \in 0 .. InFlight - n
  <2> DEFINE ahead == (last_sent + 1) - last_ack
  <2>1. ahead \in Int /\ (last_sent + 1) - (last_ack + n) = ahead - n
    BY <1>5, <1>6
  <2>2. SeqDiff(last_sent + 1, U8(last_ack + n)) = U8((last_sent + 1) - (last_ack + n))
    BY <1>5, <1>8, SeqDiffReduce
  <2>3. InFlight = U8(ahead)
    BY DEF InFlight, SeqDiff
  <2> HIDE DEF ahead
  <2>4. U8(U8(ahead) + (-n)) = U8(ahead + (-n))
    BY <2>1, <1>6, U8Add
  <2>5. InFlight + (-n) = InFlight - n /\ ahead + (-n) = ahead - n /\ InFlight - n \in Nat
    BY <1>1, <1>4, <1>6, <2>1, IdxSpaceFactor DEF n
  <2>6. U8(InFlight - n) \in 0 .. InFlight - n
    BY <2>5, U8AtMost
  <2> QED
    BY <1>8, <2>1, <2>2, <2>3, <2>4, <2>5, <2>6
<1>11. TypeOK'
  BY <1>1, <1>2, <1>3, <1>7, TypeAfter, SenderAssumption DEF IInv, TypeOK, input, Terminal
<1>12. BufferIsWindow'
  <2>1. InFlight' = SeqDiff(last_sent + 1, d.seq)
    BY <1>1, <1>2 DEF InFlight
  <2>2. Used - n <= Capacity /\ Used - n <= nread /\ InFlight' <= Used - n
    BY <1>4, <1>6, <1>10, <2>1, IdxSpaceFactor DEF Acked
  <2> QED
    BY <1>1, <1>2, <1>4, <1>7, <1>9, <2>2 DEF BufferIsWindow, Slot, input
<1>13. ReadsWithRoom'
  <2>1. ~(Used >= Capacity) => ~(Used - n >= Capacity)
    BY <1>4, <1>6, IdxSpaceFactor
  <2> QED
    BY <1>1, <1>3, <1>7, <2>1 DEF IInv, ReadsWithRoom, Running, input, pktbuf_full, Used
<1> QED
  BY <1>11, <1>12, <1>13 DEF IInv

\* handle_input_read keeps IInv: the chunk gets a free slot and the number after
\* the last one.
LEMMA KeepInputRead ==
  ASSUME IInv, NEW result \in ReadResults, HandleInputRead(result)
  PROVE  IInv'
<1>1. /\ pc \in {"input", "poll"} /\ Running
      /\ last_in_read # "eof" /\ ~pktbuf_full(send_buf)
  BY DEF HandleInputRead, IInv, ReadsWithRoom, Running, Terminal
<1>2. /\ last_chunk_read' = U8(last_chunk_read + 1)
      /\ send_buf' = pktbuf_enqueue(send_buf, [seq |-> last_chunk_read', chunk |-> nread])
      /\ nread' = nread + 1
      /\ last_in_read' = result
      /\ pc' = IF result = "error" THEN "failed" ELSE "send"
      /\ out' = {}
      /\ UNCHANGED <<last_ack, last_win, last_sent, dup_ack, retry_count, pfds_count>>
  BY DEF HandleInputRead
<1>3. /\ nread \in Nat /\ Used \in 0 .. Capacity /\ Acked \in Nat
      /\ last_ack = U8(Acked) /\ last_chunk_read = U8(nread - 1)
      /\ InFlight \in 0 .. Used
  BY <1>1, Counters DEF IInv
<1>4. nread <= NChunks /\ Used < Capacity
  BY <1>1, <1>3, IdxSpaceFactor DEF IInv, ReadsWithRoom, TypeOK, pktbuf_full, Used
<1>5. last_chunk_read' = U8(nread)
  <2>1. U8(U8(nread - 1) + 1) = U8((nread - 1) + 1)
    BY <1>3, U8Add
  <2>2. (nread - 1) + 1 = nread
    BY <1>3
  <2> QED
    BY <1>2, <1>3, <2>1, <2>2
<1>6. /\ send_buf' \in Buffers
      /\ send_buf'.last = U32(nread')
      /\ pktbuf_used(send_buf') = Used + 1
      /\ \A chunk \in nread' - (Used + 1) .. nread' - 1 :
           send_buf'.head[mask_index(chunk)] = Slot(chunk)
  <2>1. send_buf' = pktbuf_enqueue(send_buf, Slot(nread))
    BY <1>2, <1>5 DEF Slot
  <2> QED
    BY <1>1, <1>2, <1>4, <2>1, EnqueueExtendsWindow DEF IInv
<1>7. result \in {"data", "eof", "error"} /\ (result = "data" => nread < NChunks)
  BY DEF ReadResults
<1>8. TypeOK'
  <2>1. last_chunk_read' \in SeqNums
    BY <1>3, <1>5, U8Type
  <2>2. nread' \in 0 .. NChunks + 1
    BY <1>2, <1>3, <1>4, SenderAssumption
  <2>3. retry_count \in 0 .. MaxRetransmission
    BY <1>1, SenderAssumption DEF IInv, TypeOK, Running
  <2>4. pc' \in {"send", "failed"}
    BY <1>2
  <2> QED
    BY <1>2, <1>6, <1>7, <2>1, <2>2, <2>3, <2>4, TypeAfter, SenderAssumption
    DEF IInv, TypeOK, Terminal
<1>9. BufferIsWindow'
  <2>1. InFlight' = InFlight
    BY <1>2 DEF InFlight
  <2>2. /\ Used + 1 <= Capacity /\ Used + 1 <= nread' /\ InFlight' <= Used + 1
        /\ nread' - (Used + 1) = Acked /\ nread' - 1 = nread
    BY <1>2, <1>3, <1>4, <2>1, IdxSpaceFactor DEF Acked
  <2> QED
    BY <1>2, <1>3, <1>5, <1>6, <2>1, <2>2 DEF BufferIsWindow, Slot
<1>10. ReadsWithRoom'
  BY <1>2, <1>3, <1>7, SenderAssumption DEF ReadsWithRoom, Running, Terminal
<1> QED
  BY <1>8, <1>9, <1>10 DEF IInv

\* last_sent is as far behind last_chunk_read as packets wait in the ring,
\* reduced to the width of the sequence numbers.
LEMMA Unsent ==
  ASSUME IInv, Running
  PROVE  /\ Used - InFlight \in Nat
         /\ SeqDiff(last_chunk_read, last_sent) = U8(Used - InFlight)
<1>1. /\ nread \in Nat /\ Used \in 0 .. Capacity /\ Acked \in Nat
      /\ last_ack = U8(Acked) /\ last_chunk_read = U8(nread - 1)
      /\ InFlight \in 0 .. Used
  BY Counters DEF IInv
<1>2. last_ack \in Int /\ last_sent \in Int
  BY SeqSpaceAssumption DEF IInv, TypeOK, SeqNums
<1> DEFINE ahead == (last_sent + 1) - Acked
<1>3. ahead \in Int
  BY <1>1, <1>2
<1>4. InFlight = U8(ahead)
  <2>1. SeqDiff(last_sent + 1, U8(Acked)) = U8((last_sent + 1) - Acked)
    BY <1>1, <1>2, SeqDiffReduce
  <2> QED
    BY <2>1, <1>1 DEF InFlight
<1>5. SeqDiff(U8(nread - 1), last_sent) = U8((nread - 1) - last_sent)
  BY <1>1, <1>2, SeqDiffReduce
<1>6. (nread - 1) - last_sent = Used - ahead
  BY <1>1, <1>2, IdxSpaceFactor DEF Acked
<1>7. Used \in Int /\ SeqDiff(Used, U8(ahead)) = U8(Used - ahead)
  BY <1>1, <1>3, SeqDiffReduce, IdxSpaceFactor
<1>8. SeqDiff(Used, InFlight) = U8(Used - InFlight)
  BY DEF SeqDiff
<1>9. Used - InFlight \in Nat
  BY <1>1, IdxSpaceFactor
<1> HIDE DEF ahead
<1> QED
  BY <1>1, <1>4, <1>5, <1>6, <1>7, <1>8, <1>9

\* The packets do_send_sbuf sends are in the buffer and in the window.
LEMMA SendableFits ==
  ASSUME IInv, Running
  PROVE  /\ Sendable \in Nat /\ InFlight + Sendable <= Used
         /\ Sendable > 0 => InFlight + Sendable <= last_win
<1>1. /\ nread \in Nat /\ Used \in 0 .. Capacity /\ Acked \in Nat
      /\ last_ack = U8(Acked) /\ last_chunk_read = U8(nread - 1)
      /\ InFlight \in 0 .. Used
  BY Counters DEF IInv
<1>2. last_ack \in Int /\ last_sent \in Int /\ last_win \in Nat
  BY SeqSpaceAssumption, WindowAssumption DEF IInv, TypeOK, SeqNums, Windows
<1> DEFINE unsent == IF pktbuf_empty(send_buf) THEN 0 ELSE SeqDiff(last_chunk_read, last_sent)
           room == IF InFlight < last_win THEN last_win - InFlight ELSE 0
<1>3. SeqDiff(last_chunk_read, last_sent) \in 0 .. Used - InFlight
  BY Unsent, U8AtMost
<1>4. unsent \in Nat /\ unsent <= Used - InFlight
  BY <1>1, <1>3, IdxSpaceFactor
<1>5. room \in Nat /\ (room > 0 => InFlight + room <= last_win)
  BY <1>1, <1>2, IdxSpaceFactor
<1>6. Sendable = IF unsent < room THEN unsent ELSE room
  BY DEF Sendable
<1> HIDE DEF unsent, room
<1> QED
  BY <1>1, <1>2, <1>4, <1>5, <1>6, IdxSpaceFactor

\* The i-th packet it sends has a slot.
LEMMA SentSlots ==
  ASSUME IInv, Running, NEW i \in 1 .. Sendable
  PROVE  /\ SlotReserved(send_buf, U8(last_sent + i)) = send_buf
         /\ SlotOf(send_buf, U8(last_sent + i)) \in Slots
<1>1. Used \in 0 .. Capacity /\ Used \in Int /\ InFlight \in 0 .. Used /\ InFlight \in Int
  BY Counters, IdxSpaceFactor DEF IInv
<1>2. last_ack \in Int /\ last_sent \in Int /\ i \in Int
  BY SeqSpaceAssumption, SendableFits DEF IInv, TypeOK, SeqNums
<1>3. i >= 1 /\ InFlight + i <= Used
  BY <1>1, SendableFits
<1> DEFINE ahead == (last_sent + 1) - last_ack
<1>4. ahead \in Int /\ InFlight = U8(ahead)
  BY <1>2 DEF InFlight, SeqDiff
<1>5. SeqDiff(U8(last_sent + i), last_ack) = U8((last_sent + i) - last_ack)
  BY <1>2, SeqDiffReduce
<1>6. (last_sent + i) - last_ack = ahead + (i - 1)
  BY <1>2
<1> HIDE DEF ahead
<1>7. U8(U8(ahead) + (i - 1)) = U8(ahead + (i - 1))
  BY <1>2, <1>4, U8Add
<1>8. InFlight + (i - 1) \in Nat
  BY <1>1, <1>2, <1>3
<1>9. U8(InFlight + (i - 1)) \in 0 .. InFlight + (i - 1)
  BY <1>8, U8AtMost
<1>10. SeqDiff(U8(last_sent + i), last_ack) < Used
  BY <1>1, <1>2, <1>3, <1>4, <1>5, <1>6, <1>7, <1>9
<1>11. U8(last_sent + i) \in SeqNums
  BY <1>2, U8Type
<1> QED
  BY <1>10, <1>11, NothingReserved DEF IInv

\* What do_send_sbuf does to the window, when it tries to send some of the
\* packets it can send.
LEMMA SendMovesWindow ==
  ASSUME IInv, Running, NEW attempted \in 0 .. Sendable,
         last_sent' = U8(last_sent + attempted), UNCHANGED last_ack
  PROVE  InFlight' = U8(InFlight + attempted) /\ InFlight' \in 0 .. InFlight + attempted
<1>1. InFlight \in Nat /\ attempted \in Nat /\ last_sent \in Int /\ last_ack \in Int
  BY Counters, SendableFits, SeqSpaceAssumption, IdxSpaceFactor DEF IInv, TypeOK, SeqNums
<1> DEFINE ahead == (last_sent + 1) - last_ack
<1>2. ahead \in Int /\ InFlight = U8(ahead)
  BY <1>1 DEF InFlight, SeqDiff
<1>3. InFlight' = SeqDiff(U8(last_sent + attempted) + 1, last_ack)
  BY DEF InFlight
<1>4. /\ last_sent + attempted \in Int
      /\ U8(last_sent + attempted) \in Int
      /\ 1 - last_ack \in Int
  BY <1>1, U8Type, SeqSpaceAssumption DEF SeqNums
<1>5. /\ (U8(last_sent + attempted) + 1) - last_ack = U8(last_sent + attempted) + (1 - last_ack)
      /\ (last_sent + attempted) + (1 - last_ack) = ahead + attempted
  BY <1>1, <1>4
<1>6. U8(U8(last_sent + attempted) + (1 - last_ack)) = U8((last_sent + attempted) + (1 - last_ack))
  BY <1>4, U8Add
<1> HIDE DEF ahead
<1>7. U8(U8(ahead) + attempted) = U8(ahead + attempted)
  BY <1>1, <1>2, U8Add
<1>8. InFlight' = U8(InFlight + attempted)
  BY <1>2, <1>3, <1>5, <1>6, <1>7 DEF SeqDiff
<1>9. InFlight + attempted \in Nat
  BY <1>1
<1> QED
  BY <1>8, <1>9, U8AtMost

\* do_send_sbuf reserves no slot.
LEMMA SendKeepsRing ==
  ASSUME IInv, DoSend
  PROVE  UNCHANGED send_buf
<1>1. pc = "send" /\ Running
  BY DEF DoSend, Running, Terminal
<1>2. PICK attempted \in 0 .. Sendable :
        /\ last_sent' = U8(last_sent + attempted)
        /\ send_buf' = IF attempted = 0 THEN send_buf ELSE SlotReserved(send_buf, last_sent')
  BY DEF DoSend
<1>3. Sendable \in Nat
  BY <1>1, SendableFits
<1>4. CASE attempted = 0
  BY <1>2, <1>4
<1>5. CASE attempted # 0
  <2>1. attempted \in 1 .. Sendable
    BY <1>3, <1>5
  <2> QED
    BY <1>1, <1>2, <1>5, <2>1, SentSlots
<1> QED
  BY <1>4, <1>5

\* do_send_sbuf keeps IInv: it reserves no slot and sends what is in the ring.
LEMMA KeepSend ==
  ASSUME IInv, DoSend
  PROVE  IInv'
<1>1. pc = "send" /\ Running
  BY DEF DoSend, Running, Terminal
<1> DEFINE packets == [i \in 1 .. Sendable |-> Frame(SlotOf(send_buf, U8(last_sent + i)))]
           after == IF last_in_read = "eof" /\ pktbuf_empty(send_buf') THEN "done" ELSE "poll"
<1>2. PICK attempted \in 0 .. Sendable :
        /\ last_sent' = U8(last_sent + attempted)
        /\ send_buf' = IF attempted = 0 THEN send_buf ELSE SlotReserved(send_buf, last_sent')
        /\ Attempt(packets, attempted, after)
  BY DEF DoSend
<1>3. /\ pfds_count' = IF last_in_read # "eof" /\ ~pktbuf_full(send_buf') THEN 2 ELSE 1
      /\ UNCHANGED <<last_ack, last_win, last_chunk_read, dup_ack, retry_count, input>>
  BY DEF DoSend
<1>4. Sendable \in Nat /\ attempted \in Nat /\ InFlight + attempted <= Used
  BY <1>1, SendableFits, Counters, IdxSpaceFactor DEF IInv
<1>5. send_buf' = send_buf
  BY SendKeepsRing
<1>6. out' \subseteq Frames /\ (pc' = after \/ pc' = "failed")
  <2>1. \A i \in 1 .. Sendable : packets[i] \in Frames
    BY <1>1, SentSlots, FrameType
  <2>2. Len(packets) = Sendable
    BY <1>4
  <2> HIDE DEF packets
  <2> QED
    BY <1>2, <1>4, <2>1, <2>2, AttemptType
<1>7. after \in {"poll", "done"} /\ last_sent' \in SeqNums
  BY <1>2, <1>4, U8Type, SeqSpaceAssumption DEF IInv, TypeOK, SeqNums
<1> HIDE DEF after, packets
<1>8. TypeOK'
  <2>1. send_buf' \in Buffers
    BY <1>5 DEF IInv, TypeOK, Buffers, Slots
  <2>2. retry_count \in 0 .. MaxRetransmission
    BY <1>1, SenderAssumption DEF IInv, TypeOK, Running
  <2> QED
    BY <1>3, <1>6, <1>7, <2>1, <2>2, TypeAfter, SenderAssumption DEF IInv, TypeOK, input, Terminal
<1>9. BufferIsWindow'
  <2>1. InFlight' \in 0 .. InFlight + attempted
    BY <1>1, <1>2, <1>3, SendMovesWindow
  <2>2. InFlight' <= Used
    BY <1>1, <1>4, <2>1, Counters, IdxSpaceFactor DEF IInv
  <2> QED
    BY <1>1, <1>3, <1>5, <2>2 DEF IInv, BufferIsWindow, Used, input
<1>10. ReadsWithRoom'
  BY <1>1, <1>3, <1>5, <1>6, <1>7 DEF IInv, ReadsWithRoom, Running, input, Terminal
<1> QED
  BY <1>8, <1>9, <1>10 DEF IInv

\* A timeout with nothing to retransmit keeps IInv.
LEMMA KeepIdleTimeout ==
  ASSUME IInv, IdleTimeout
  PROVE  IInv'
<1>1. pc = "poll" /\ Running
  BY DEF IdleTimeout, TimerExpires, Running, Terminal
<1>2. out' = {} /\ UNCHANGED <<send_buf, window, dup_ack, retry_count, input, pfds_count, pc>>
  BY DEF IdleTimeout, TimerExpires
<1> QED
  BY <1>1, <1>2, QuietStep DEF window, IInv, TypeOK, Terminal

\* A timeout after the last retransmission keeps IInv.
LEMMA KeepAbort ==
  ASSUME IInv, Abort
  PROVE  IInv'
<1>1. pc = "poll" /\ Running
  BY DEF Abort, TimerExpires, Running, Terminal
<1>2. /\ out' = {} /\ pc' = "failed" /\ retry_count' = retry_count + 1
      /\ UNCHANGED <<send_buf, window, dup_ack, input, pfds_count>>
  BY DEF Abort, TimerExpires
<1>3. retry_count \in 0 .. MaxRetransmission
  BY <1>1, SenderAssumption DEF IInv, TypeOK, Running
<1>4. retry_count' \in 0 .. MaxRetransmission + (IF pc' \in Terminal THEN 1 ELSE 0)
  BY <1>2, <1>3, SenderAssumption DEF Terminal
<1> QED
  BY <1>1, <1>2, <1>4, QuietStep DEF window, IInv, TypeOK, Terminal

\* The i-th packet of the window has a slot.
LEMMA WindowSlots ==
  ASSUME IInv, Running, NEW i \in 1 .. InFlight
  PROVE  /\ SlotReserved(send_buf, U8(last_ack + i - 1)) = send_buf
         /\ SlotOf(send_buf, U8(last_ack + i - 1)) \in Slots
<1>1. Used \in 0 .. Capacity /\ Used \in Int /\ InFlight \in 0 .. Used /\ InFlight \in Int
  BY Counters, IdxSpaceFactor DEF IInv
<1>2. last_ack \in Int /\ i \in Int /\ last_ack + i - 1 \in Int /\ i - 1 \in Nat /\ i - 1 < Used
  BY <1>1, SeqSpaceAssumption DEF IInv, TypeOK, SeqNums
<1>3. SeqDiff(U8(last_ack + i - 1), last_ack) = U8(i - 1)
  <2>1. SeqDiff(U8(last_ack + i - 1), last_ack) = U8((last_ack + i - 1) - last_ack)
    BY <1>2, SeqDiffReduce
  <2>2. (last_ack + i - 1) - last_ack = i - 1
    BY <1>2
  <2> QED
    BY <2>1, <2>2
<1>4. U8(i - 1) \in 0 .. i - 1
  BY <1>2, U8AtMost
<1>5. SeqDiff(U8(last_ack + i - 1), last_ack) < Used
  BY <1>1, <1>2, <1>3, <1>4
<1>6. U8(last_ack + i - 1) \in SeqNums
  BY <1>2, U8Type
<1> QED
  BY <1>5, <1>6, NothingReserved DEF IInv

\* The last packet of the window is last_sent.
LEMMA LastOfWindow ==
  ASSUME IInv, Running, InFlight # 0
  PROVE  SlotReserved(send_buf, last_sent) = send_buf
<1>1. InFlight \in 1 .. InFlight /\ InFlight \in Int
  BY Counters, IdxSpaceFactor DEF IInv
<1>2. last_ack \in Int /\ last_sent \in SeqNums /\ last_sent \in Int
  BY SeqSpaceAssumption DEF IInv, TypeOK, SeqNums
<1> DEFINE ahead == (last_sent + 1) - last_ack
<1>3. ahead \in Int /\ InFlight = U8(ahead)
  BY <1>2 DEF InFlight, SeqDiff
<1>4. ahead + (last_ack - 1) = last_sent /\ last_ack - 1 \in Int
  BY <1>2
<1> HIDE DEF ahead
<1>5. U8(U8(ahead) + (last_ack - 1)) = U8(ahead + (last_ack - 1))
  BY <1>3, <1>4, U8Add
<1>6. InFlight + (last_ack - 1) = last_ack + InFlight - 1
  BY <1>1, <1>2
<1>7. U8(last_sent) = last_sent
  BY <1>2, U8Small
<1>8. U8(last_ack + InFlight - 1) = last_sent
  BY <1>3, <1>4, <1>5, <1>6, <1>7
<1> QED
  BY <1>1, <1>8, WindowSlots

\* handle_retransmission reserves no slot.
LEMMA RetransmitKeepsRing ==
  ASSUME IInv, Retransmit
  PROVE  UNCHANGED send_buf
<1>1. /\ Running
      /\ send_buf' = IF InFlight = 0 THEN send_buf ELSE SlotReserved(send_buf, last_sent)
  BY DEF Retransmit, Retry, TimerExpires, Running, Terminal
<1> QED
  BY <1>1, LastOfWindow

\* handle_retransmission keeps IInv when its loop ends.
LEMMA KeepRetransmit ==
  ASSUME IInv, Retransmit
  PROVE  IInv'
<1>1. pc = "poll" /\ Running
  BY DEF Retransmit, Retry, TimerExpires, Running, Terminal
<1> DEFINE packets == [i \in 1 .. InFlight |-> Frame(SlotOf(send_buf, U8(last_ack + i - 1)))]
<1>2. /\ retry_count + 1 <= MaxRetransmission /\ retry_count' = retry_count + 1 /\ dup_ack' = 0
      /\ UNCHANGED <<window, input, pfds_count>>
      /\ send_buf' = IF InFlight = 0 THEN send_buf ELSE SlotReserved(send_buf, last_sent)
      /\ NetSend(packets, "poll")
  BY DEF Retransmit, Retry, TimerExpires
<1>3. send_buf' = send_buf
  BY RetransmitKeepsRing
<1>4. out' \subseteq Frames /\ pc' \in {"poll", "failed"}
  <2>1. InFlight \in Nat
    BY <1>1, Counters, IdxSpaceFactor DEF IInv
  <2>2. Len(packets) = InFlight /\ \A i \in 1 .. InFlight : packets[i] \in Frames
    BY <1>1, <2>1, WindowSlots, FrameType
  <2> HIDE DEF packets
  <2> QED
    BY <1>2, <2>1, <2>2, NetSendType
<1>5. retry_count' \in 0 .. MaxRetransmission
  BY <1>2, SenderAssumption DEF IInv, TypeOK, Terminal
<1>6. retry_count' \in 0 .. MaxRetransmission + (IF pc' \in Terminal THEN 1 ELSE 0)
  BY <1>5, SenderAssumption
<1>7. dup_ack' \in 0 .. MaxDupAck - 1
  BY <1>2, SenderAssumption
<1> HIDE DEF packets
<1> QED
  BY <1>1, <1>2, <1>3, <1>4, <1>6, <1>7, QuietStep DEF window, IInv, TypeOK, Terminal

\* handle_retransmission keeps IInv when its loop misses its end.
LEMMA KeepOverrun ==
  ASSUME IInv, Overrun
  PROVE  IInv'
<1> DEFINE round == IF Capacity < SeqSpace THEN Capacity ELSE SeqSpace
           reach == IF Capacity < SeqSpace THEN Capacity ELSE SeqSpace - 1
           used == pktbuf_used(send_buf)
           Place(i) == mask_index(send_buf.first + ((i - 1) % round))
           packets == [i \in 1 .. 2 * round + 1 |->
                         Frame(IF i <= used THEN send_buf.head[Place(i)]
                                            ELSE send_buf'.head[Place(i)])]
           after == IF Capacity < SeqSpace THEN "exited" ELSE "looping"
<1>1. /\ pc = "poll" /\ Running
      /\ retry_count + 1 <= MaxRetransmission /\ retry_count' = retry_count + 1 /\ dup_ack' = 0
      /\ UNCHANGED <<window, input, pfds_count>>
      /\ send_buf' = IF reach < used THEN send_buf ELSE Reserve(send_buf, reach + 1 - used)
      /\ NetSend(packets, after)
  BY DEF Overrun, Retry, TimerExpires, Running, Terminal
<1>2. reach \in Nat /\ reach + 1 \in Nat /\ round \in Nat /\ round > 0 /\ 2 * round + 1 \in Nat
  BY SeqSpaceAssumption, IdxSpaceFactor
<1>3. send_buf \in Buffers
  BY DEF IInv, TypeOK, Buffers, Slots
<1>4. used \in Int /\ send_buf.first \in Int
  BY <1>1, <1>3, Counters, IdxSpaceFactor DEF IInv, Used, Buffers
<1>5. send_buf' \in Buffers
  <2>1. reach + 1 - used \in Int
    BY <1>2, <1>4
  <2>2. Reserve(send_buf, reach + 1 - used) \in Buffers
    BY <1>3, <2>1, ReserveType
  <2> QED
    BY <1>1, <1>3, <2>2
<1>6. out' \subseteq Frames /\ pc' \in Terminal
  <2>1. ASSUME NEW i \in 1 .. 2 * round + 1 PROVE packets[i] \in Frames
    <3>1. (i - 1) % round \in 0 .. round - 1
      <4> HIDE DEF round
      <4> QED
        BY <1>2, ModRange
    <3>2. send_buf.first + ((i - 1) % round) \in Int
      <4> HIDE DEF round
      <4> QED
        BY <1>2, <1>4, <3>1
    <3>3. Place(i) \in SlotIds
      BY <3>2, MaskType
    <3>4. send_buf.head[Place(i)] \in Slots /\ send_buf'.head[Place(i)] \in Slots
      <4> HIDE DEF Place
      <4> QED
        BY <1>3, <1>5, <3>3 DEF Buffers
    <3> QED
      BY <3>4, FrameType
  <2>2. Len(packets) = 2 * round + 1
    BY <1>2
  <2>3. after \in Terminal
    BY DEF Terminal
  <2> HIDE DEF packets, round, after
  <2> QED
    BY <1>1, <1>2, <2>1, <2>2, <2>3, NetSendType DEF Terminal
<1>7. retry_count' \in 0 .. MaxRetransmission + (IF pc' \in Terminal THEN 1 ELSE 0)
  BY <1>1, <1>6, SenderAssumption DEF IInv, TypeOK, Running
<1> HIDE DEF packets, round, reach, after, used
<1>8. TypeOK'
  BY <1>1, <1>5, <1>6, <1>7, TypeAfter, SenderAssumption DEF IInv, TypeOK, window, input
<1>9. BufferIsWindow'
  BY <1>6, EndedWindow
<1>10. ReadsWithRoom'
  BY <1>1, <1>6 DEF IInv, ReadsWithRoom, Running, input, Terminal
<1> QED
  BY <1>8, <1>9, <1>10 DEF IInv

\* A step that changes nothing keeps IInv.
LEMMA KeepStutter ==
  ASSUME IInv, UNCHANGED vars
  PROVE  IInv'
BY DEF IInv, TypeOK, BufferIsWindow, ReadsWithRoom, InFlight, Running, vars, window, input

\* Every step keeps the invariant.
LEMMA NextInvariant ==
  ASSUME IInv, [Next]_vars
  PROVE  IInv'
<1>1. CASE HandleSocketRead
  <2>1. CASE SocketError
    BY <2>1, KeepSocketError
  <2>2. ASSUME NEW d \in Arrivals,
               SocketDrop(d) \/ process_nack(d) \/ process_ack(d) \/ process_dup_ack(d)
        PROVE  IInv'
    BY <2>2, KeepSocketDrop, KeepNack, KeepAck, KeepDupAck
  <2> QED
    BY <1>1, <2>1, <2>2 DEF HandleSocketRead
<1>2. ASSUME NEW result \in ReadResults, HandleInputRead(result)
      PROVE  IInv'
  BY <1>2, KeepInputRead
<1>3. CASE DoSend
  BY <1>3, KeepSend
<1>4. CASE Timeout
  BY <1>4, KeepIdleTimeout, KeepAbort, KeepRetransmit, KeepOverrun DEF Timeout
<1>5. CASE PollError
  BY <1>5, KeepPollError
<1>6. CASE Terminated \/ UNCHANGED vars
  BY <1>6, KeepStutter DEF Terminated
<1> QED
  BY <1>1, <1>2, <1>3, <1>4, <1>5, <1>6 DEF Next

-----------------------------------------------------------------------------
(***************************************************************************)
(* Theorems                                                                *)
(***************************************************************************)

\* IInv is an invariant of transmit().
THEOREM SenderInvariant == Spec => []IInv
<1>1. Init => IInv
  BY InitInvariant
<1>2. IInv /\ [Next]_vars => IInv'
  BY NextInvariant
<1> QED
  BY <1>1, <1>2, PTL DEF Spec

\* The variables of transmit() and the slots of its ring keep their types,
\* sequence numbers and ring indices their widths: what the handlers compute
\* stays in range.
THEOREM SenderTypeOK == Spec => []TypeOK
<1>1. IInv => TypeOK
  BY DEF IInv
<1> QED
  BY <1>1, SenderInvariant, PTL

\* Ring, sequence numbers and input agree at every step: the handlers of
\* transmit() that dequeue by counting sequence numbers and look slots up by
\* sequence number touch the packets they mean.
THEOREM SenderBufferIsWindow == Spec => []BufferIsWindow
<1>1. IInv => BufferIsWindow
  BY DEF IInv
<1> QED
  BY <1>1, SenderInvariant, PTL

\* handle_input_read never enqueues into a full ring and never reads past the
\* end of the input.
THEOREM SenderReadsWithRoom == Spec => []ReadsWithRoom
<1>1. IInv => ReadsWithRoom
  BY DEF IInv
<1> QED
  BY <1>1, SenderInvariant, PTL

=============================================================================
