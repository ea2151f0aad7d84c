------------------------------ MODULE Receiver ------------------------------
(***************************************************************************)
(* The receiver: receive() and its handlers in receiver/receive.c, and the *)
(* wait for the first packet (net_wait_and_connect in common/net.c).       *)
(*                                                                         *)
(* One iteration of the loop of receive is a sequence of steps of pc:      *)
(* poll() returns and a datagram is read ("poll"), the buffer is emptied   *)
(* into the output ("drain"), an ACK or a NACK is sent ("reply").          *)
(*                                                                         *)
(* The chunks of the transfer are numbered from 0; chunk NChunks is the    *)
(* empty one that ends it.  The peer is a sender that respects the window  *)
(* and whose old packets leave the network in time.                        *)
(***************************************************************************)
EXTENDS PktBuf, Wire, Sequences, FiniteSets

CONSTANTS
  max_window,       \* the receive window (option -b, at most MAX_WINDOW_SIZE)
  MaskBits,         \* width of oos_mask (32)
  MaxRetries,       \* MAX_RETRIES
  MaxLingerRetry,   \* MAX_LINGER_RETRY
  NChunks,          \* bound: non-empty chunks in the transfer
  Lag,              \* how far behind the oldest packet of the network can be
  OutNonBlocking    \* the output was opened with O_NONBLOCK

ASSUME ReceiverAssumption ==
  /\ max_window \in Windows
  /\ MaskBits \in Nat /\ MaxWindow < MaskBits
  /\ MaxWindow < Capacity
  /\ MaxRetries \in Nat \ {0} /\ MaxLingerRetry \in Nat
  /\ NChunks \in Nat /\ Lag \in Nat
  /\ OutNonBlocking \in BOOLEAN

VARIABLES
  recv_buf,       \* packet buffer
  oos_mask,       \* bits set in the mask of packets received, from the buffer's start
  expected_seq,   \* next in-order sequence number
  need_ack,       \* whether an ACK is to be sent
  need_nack,      \* whether a NACK is to be sent
  nack_seq,       \* its sequence number
  last_written,   \* last_written_len: none yet, data, or 0 at the end
  pfds_count,     \* 2: poll output and socket, 1: poll the socket only
  retry,          \* datagrams read by net_wait_and_connect, then last ACKs sent
  pending,        \* a datagram waits in the socket while the last ACKs are sent
  pc,             \* where in the loop
  written,        \* chunks written to the output
  out,            \* datagrams the last step put on the wire
  edge            \* the first chunk the peer was never allowed to send

reply == <<need_ack, need_nack, nack_seq>>
output == <<last_written, written>>
vars == <<recv_buf, oos_mask, expected_seq, reply, output, pfds_count, retry, pending, pc, out, edge>>

Terminal == {"done", "failed"}

Blank == [seq |-> 0, chunk |-> -1]

\* receive() reserves the slot of the first packet before it waits for it.
Init ==
  /\ recv_buf = pktbuf_enqueue(pktbuf_new(Blank), Blank)
  /\ oos_mask = {}
  /\ expected_seq = 0
  /\ need_ack = FALSE /\ need_nack = FALSE /\ nack_seq = 0
  /\ last_written = "none"
  /\ pfds_count = 2
  /\ retry = 0
  /\ pending = FALSE
  /\ pc = "wait"
  /\ written = << >>
  /\ out = {}
  /\ edge = 1

-----------------------------------------------------------------------------
\* Truncation by the network keeps the header, sets TR and loses the payload.  A
\* damaged TR bit makes the same of a packet without payload: no CRC covers it.
Truncated(seq) == [type |-> "TRUNCATED", seq |-> seq, chunk |-> -1]

\* Chunks the transfer is done with, and what its sender may still have on the
\* wire: nothing past the windows it was told, the first of which is 1 by
\* convention, nothing older than Lag.
Delivered == Len(written) + (IF last_written = "eof" THEN 1 ELSE 0)

Arrivals ==
  LET chunks == {c \in 0 .. NChunks : Delivered - Lag <= c /\ c < edge}
  IN  {Data(U8(c), c) : c \in chunks} \cup {Truncated(U8(c)) : c \in chunks}
        \cup {Corrupt}

\* The number of consecutive packets at the start of the buffer.
InSequence(mask) == CHOOSE n \in 0 .. MaskBits : 0 .. n - 1 \subseteq mask /\ n \notin mask

\* Mutant: all packets of the mask are counted, not the consecutive ones.
MutantCountsGaps == max_window - Cardinality(oos_mask)

window_size == max_window - InSequence(oos_mask)

\* Mutant: the buffer counts as full one packet too early.
MutantFullTooEarly == Cardinality(oos_mask) >= max_window - 1

rbuf_full == Cardinality(oos_mask) >= max_window

\* Mutant: the buffer is only emptied when the window is closed.
MutantWaitsForFull == rbuf_full

can_empty_rbuf == ~pktbuf_empty(recv_buf) /\ 0 \in oos_mask

\* net_send of the packets of a sequence, in order: of all of them, or up to
\* the one for which write() fails, which ends the program.
NetSend(packets, after) ==
  \/ /\ out' = {packets[i] : i \in DOMAIN packets}
     /\ pc' = after
  \/ \E failing \in DOMAIN packets :
       /\ out' = {packets[i] : i \in 1 .. failing - 1}
       /\ pc' = "failed"

\* The window field of a header has the width of MaxWindow.
Answer(type, seq) ==
  [type |-> type, seq |-> seq, window |-> window_size % (MaxWindow + 1)]

-----------------------------------------------------------------------------
(***************************************************************************)
(* process_incoming_pkt, for a datagram that was read into the slot of     *)
(* expected_seq of buf: a shift that reaches the width of oos_mask is      *)
(* undefined, the shift instruction reduces its count.                     *)
(***************************************************************************)
Bit(n) == n % MaskBits

Distance(buf) ==
  IF 0 \in oos_mask THEN SeqDiff(expected_seq, pktbuf_first(buf).seq + 1) ELSE 0

\* The slot keeps the datagram's payload, and gets its sequence number back.
ReadInto(buf, chunk) ==
  [SlotReserved(buf, expected_seq) EXCEPT
     !.head[SlotIndex(buf, expected_seq)] = [seq |-> expected_seq, chunk |-> chunk]]

ProcessTruncated(buf, d) ==
  /\ recv_buf' = ReadInto(buf, d.chunk)
  /\ need_nack' = TRUE
  /\ nack_seq' = d.seq
  /\ UNCHANGED <<oos_mask, expected_seq>>

\* Mutant: packets received out of order are forgotten.
MutantExpectsByOne(buf, d) ==
  /\ d.seq = expected_seq
  /\ recv_buf' = ReadInto(buf, d.chunk)
  /\ oos_mask' = oos_mask \cup {Bit(Distance(buf))}
  /\ expected_seq' = U8(expected_seq + 1)
  /\ UNCHANGED <<need_nack, nack_seq>>

\* Mutant: all packets of the mask are counted, not the consecutive ones.
MutantCountsAll(buf, d) ==
  /\ d.seq = expected_seq
  /\ recv_buf' = ReadInto(buf, d.chunk)
  /\ oos_mask' = oos_mask \cup {Bit(Distance(buf))}
  /\ expected_seq' = U8(expected_seq + Cardinality(oos_mask'))
  /\ UNCHANGED <<need_nack, nack_seq>>

ProcessInOrder(buf, d) ==
  /\ d.seq = expected_seq
  /\ recv_buf' = ReadInto(buf, d.chunk)
  /\ oos_mask' = oos_mask \cup {Bit(Distance(buf))}
  /\ expected_seq' = U8(expected_seq + InSequence(oos_mask'))
  /\ UNCHANGED <<need_nack, nack_seq>>

\* The packet is copied to the slot of its own sequence number.
ProcessOutOfOrder(buf, d) ==
  /\ d.seq # expected_seq
  /\ LET arrived == ReadInto(buf, d.chunk)
     IN  recv_buf' = [SlotReserved(arrived, d.seq) EXCEPT
                        !.head[SlotIndex(arrived, d.seq)] = [seq |-> d.seq, chunk |-> d.chunk]]
  /\ oos_mask' = oos_mask \cup {Bit(Distance(buf) + SeqDiff(d.seq, expected_seq))}
  /\ UNCHANGED <<expected_seq, need_nack, nack_seq>>

process_incoming_pkt(buf, d) ==
  \/ d.type = "TRUNCATED" /\ ProcessTruncated(buf, d)
  \/ d.type = "DATA" /\ (ProcessInOrder(buf, d) \/ ProcessOutOfOrder(buf, d))

-----------------------------------------------------------------------------
(***************************************************************************)
(* net_wait_and_connect: the first MAX_RETRIES datagrams may be the first  *)
(* packet.  What it ignores is overwritten by the packet it accepts.       *)
(***************************************************************************)
\* Mutant: the first packet is not acknowledged.
MutantFirstNotAcked(d) ==
  /\ pc = "wait"
  /\ d # Corrupt /\ d.seq = 0
  /\ process_incoming_pkt(recv_buf, d)
  /\ retry' = 0
  /\ pc' = "poll"
  /\ out' = {}
  /\ UNCHANGED <<need_ack, output, pfds_count, pending, edge>>

Connect(d) ==
  /\ pc = "wait"
  /\ d # Corrupt /\ d.seq = 0
  /\ process_incoming_pkt(recv_buf, d)
  /\ need_ack' = TRUE
  /\ retry' = 0
  /\ pc' = "poll"
  /\ out' = {}
  /\ UNCHANGED <<output, pfds_count, pending, edge>>

WaitIgnore(d) ==
  /\ pc = "wait"
  /\ d # Corrupt => d.seq # 0
  /\ retry' = retry + 1
  /\ pc' = IF retry' = MaxRetries THEN "failed" ELSE "wait"
  /\ out' = {}
  /\ UNCHANGED <<recv_buf, oos_mask, expected_seq, reply, output, pfds_count, pending, edge>>

\* recvfrom or connect fails.
WaitError ==
  /\ pc = "wait"
  /\ pc' = "failed"
  /\ out' = {}
  /\ UNCHANGED <<recv_buf, oos_mask, expected_seq, reply, output, pfds_count, retry, pending, edge>>

-----------------------------------------------------------------------------
(***************************************************************************)
(* do_read_sock.  The iteration goes on with do_empty_rbuf, which has      *)
(* nothing to do unless there is a packet in sequence.                     *)
(***************************************************************************)
SocketRead ==
  /\ pc = "poll"
  /\ pc' = "drain"
  /\ out' = {}
  /\ UNCHANGED <<output, pfds_count, retry, pending, edge>>

\* The lookups of do_receive_data and of a packet out of order pass the assertion
\* of pktbuf_slotfor_seq.
IsAhead(d) ==
  InWindow(d, expected_seq, window_size) /\ d.type = "DATA" /\ d.seq # expected_seq

SlotsFound(d) ==
  /\ SlotInReach(recv_buf, expected_seq)
  /\ IsAhead(d) => SlotInReach(ReadInto(recv_buf, d.chunk), d.seq)

Accept(d) ==
  /\ SocketRead
  /\ ~rbuf_full
  /\ SlotsFound(d)
  /\ InWindow(d, expected_seq, window_size)
  /\ process_incoming_pkt(recv_buf, d)
  /\ need_ack' = (need_ack \/ ~need_nack')

\* What is dropped has been read into the slot, too.
Drop(d) ==
  /\ SocketRead
  /\ ~rbuf_full
  /\ SlotsFound(d)
  /\ ~InWindow(d, expected_seq, window_size)
  /\ recv_buf' = ReadInto(recv_buf, IF d = Corrupt THEN -1 ELSE d.chunk)
  /\ need_ack' = (need_ack \/ ~need_nack)
  /\ UNCHANGED <<oos_mask, expected_seq, need_nack, nack_seq>>

\* They do not, and the process exits.
AssertFails(d) ==
  /\ pc = "poll"
  /\ ~rbuf_full
  /\ ~SlotsFound(d)
  /\ pc' = "failed"
  /\ out' = {}
  /\ UNCHANGED <<recv_buf, oos_mask, expected_seq, reply, output, pfds_count, retry, pending, edge>>

\* discard_incoming_data
Discard(d) ==
  /\ SocketRead
  /\ rbuf_full
  /\ need_ack' = (need_ack \/ ~need_nack)
  /\ UNCHANGED <<recv_buf, oos_mask, expected_seq, need_nack, nack_seq>>

\* Only the output is ready.
OutputReady ==
  /\ pc = "poll"
  /\ pfds_count = 2
  /\ pc' = "drain"
  /\ out' = {}
  /\ UNCHANGED <<recv_buf, oos_mask, expected_seq, reply, output, pfds_count, retry, pending, edge>>

\* Nothing happened for IDLE_TIME, poll() failed or the socket has an error.
Fail ==
  /\ pc = "poll"
  /\ pc' = "failed"
  /\ out' = {}
  /\ UNCHANGED <<recv_buf, oos_mask, expected_seq, reply, output, pfds_count, retry, pending, edge>>

-----------------------------------------------------------------------------
(***************************************************************************)
(* do_empty_rbuf, one packet of its loop at a time                         *)
(***************************************************************************)
FirstChunk == pktbuf_first(recv_buf).chunk

IsData(chunk) == chunk # NChunks

Kind(chunk) == IF IsData(chunk) THEN "data" ELSE "eof"

\* Mutant: the mask is not shifted when a packet leaves the buffer.
MutantMaskStays ==
  /\ recv_buf' = pktbuf_dequeue(recv_buf, 1)
  /\ oos_mask' = oos_mask \ {0}
  /\ written' = IF IsData(FirstChunk) THEN Append(written, FirstChunk) ELSE written

\* The first packet is written (the end of the transfer is only noted) and
\* leaves the buffer.
WriteFirst ==
  /\ recv_buf' = pktbuf_dequeue(recv_buf, 1)
  /\ oos_mask' = {i - 1 : i \in oos_mask \ {0}}
  /\ written' = IF IsData(FirstChunk) THEN Append(written, FirstChunk) ELSE written

Drain ==
  /\ pc = "drain"
  /\ 0 \in oos_mask
  /\ WriteFirst
  /\ last_written' = Kind(FirstChunk)
  /\ out' = {}
  /\ UNCHANGED <<pc, expected_seq, reply, pfds_count, retry, pending, edge>>

DrainEnd ==
  /\ pc = "drain"
  /\ 0 \notin oos_mask
  /\ pc' = "reply"
  /\ out' = {}
  /\ UNCHANGED <<recv_buf, oos_mask, expected_seq, reply, output, pfds_count, retry, pending, edge>>

\* write() returns whether or not the output takes the data.  Only the status
\* the output was opened with counts: unblock_out_file sets flags of the file
\* descriptor (F_SETFD), not of the file.
WriteReturns == OutNonBlocking

\* A packet cannot be written: the output would block, or write() fails or
\* writes only a part.
DrainStops(after) ==
  /\ pc = "drain"
  /\ 0 \in oos_mask
  /\ IsData(FirstChunk)
  /\ last_written' = "data"
  /\ pc' = after
  /\ out' = {}
  /\ UNCHANGED <<recv_buf, oos_mask, expected_seq, reply, written, pfds_count, retry, pending, edge>>

OutputWouldBlock == WriteReturns /\ DrainStops("reply")

\* Mutant: the error of write() does not end the program.
MutantWriteErrorLost == DrainStops("reply")

OutputError == DrainStops("failed")

-----------------------------------------------------------------------------
\* send_ack and send_nack, and the end of the iteration.
Reply ==
  /\ pc = "reply"
  /\ NetSend((IF need_ack THEN <<Answer("ACK", expected_seq)>> ELSE << >>)
               \o (IF need_nack THEN <<Answer("NACK", nack_seq)>> ELSE << >>),
             IF last_written = "eof" /\ pktbuf_empty(recv_buf) THEN "linger" ELSE "poll")
  /\ pfds_count' = IF can_empty_rbuf THEN 2 ELSE 1
  /\ need_ack' = FALSE /\ need_nack' = FALSE
  /\ LET limit == Delivered + max_window
     IN  edge' = IF (need_ack \/ need_nack) /\ edge < limit THEN limit ELSE edge
  /\ UNCHANGED <<recv_buf, oos_mask, expected_seq, nack_seq, output, retry, pending>>

-----------------------------------------------------------------------------
(***************************************************************************)
(* The last ACK: it is sent again as long as poll() reports a datagram,    *)
(* which nobody reads.                                                     *)
(***************************************************************************)
LingerArrival ==
  /\ pc = "linger"
  /\ ~pending
  /\ pending' = TRUE
  /\ out' = {}
  /\ UNCHANGED <<recv_buf, oos_mask, expected_seq, reply, output, pfds_count, retry, pc, edge>>

LingerAck ==
  /\ pc = "linger"
  /\ pending
  /\ retry < MaxLingerRetry
  /\ NetSend(<<Answer("ACK", expected_seq)>>, "linger")
  /\ retry' = retry + 1
  /\ UNCHANGED <<recv_buf, oos_mask, expected_seq, reply, output, pfds_count, pending, edge>>

\* Nothing came for LINGER, or enough ACKs were sent.
LingerEnd ==
  /\ pc = "linger"
  /\ ~pending \/ retry = MaxLingerRetry
  /\ pc' = "done"
  /\ out' = {}
  /\ UNCHANGED <<recv_buf, oos_mask, expected_seq, reply, output, pfds_count, retry, pending, edge>>

\* poll() fails, a wait for the next datagram or for LINGER.
LingerFail ==
  /\ pc = "linger"
  /\ retry < MaxLingerRetry
  /\ pc' = "failed"
  /\ out' = {}
  /\ UNCHANGED <<recv_buf, oos_mask, expected_seq, reply, output, pfds_count, retry, pending, edge>>

Terminated == pc \in Terminal /\ UNCHANGED vars

-----------------------------------------------------------------------------
Next ==
  \/ \E d \in Arrivals :
       Connect(d) \/ WaitIgnore(d) \/ Accept(d) \/ Drop(d) \/ Discard(d)
         \/ AssertFails(d)
  \/ WaitError \/ OutputReady \/ Fail
  \/ Drain \/ DrainEnd \/ OutputWouldBlock \/ OutputError
  \/ Reply
  \/ LingerArrival \/ LingerAck \/ LingerEnd \/ LingerFail
  \/ Terminated

Spec == Init /\ [][Next]_vars

\* The process is scheduled.  A write to an output without O_NONBLOCK returns
\* when the output takes the data, which it may never do.
Fairness ==
  /\ WF_vars(Reply)
  /\ WF_vars(LingerAck \/ LingerEnd)
  /\ WF_vars(DrainEnd)
  /\ WF_vars((WriteReturns \/ ~IsData(FirstChunk)) /\ (Drain \/ OutputWouldBlock))

FairSpec == Spec /\ Fairness

\* An output whose reader goes on: poll() reports it if it is asked, and one of
\* the writes that are tried again and again is taken.
ServedSpec == FairSpec /\ WF_vars(OutputReady) /\ SF_vars(Drain)

-----------------------------------------------------------------------------
TypeOK ==
  /\ recv_buf \in [first : 0 .. IdxSpace - 1, last : 0 .. IdxSpace - 1,
                   head : [SlotIds -> [seq : SeqNums, chunk : -1 .. NChunks]]]
  /\ oos_mask \subseteq 0 .. MaskBits - 1
  /\ expected_seq \in SeqNums
  /\ need_ack \in BOOLEAN /\ need_nack \in BOOLEAN /\ nack_seq \in SeqNums
  /\ last_written \in {"none", "data", "eof"}
  /\ pfds_count \in {1, 2}
  /\ retry \in 0 .. MaxRetries + MaxLingerRetry
  /\ pending \in BOOLEAN
  /\ pc \in {"wait", "poll", "drain", "reply", "linger"} \cup Terminal
  /\ written \in Seq(-1 .. NChunks)
  /\ out \subseteq Feedback
  /\ edge \in 1 .. NChunks + 1 + MaxWindow

\* expected_seq is the next in-order sequence number (receive.c:29): all the
\* chunks before it are written or in sequence at the start of the buffer.
ExpectedIsNext ==
  pc \notin Terminal => expected_seq = U8(Delivered + InSequence(oos_mask))

\* oos_mask and the buffer agree, relative to the start of the buffer: a bit
\* stands for a slot in use that holds the chunk due at that position, under
\* its sequence number.
MaskDescribesBuffer ==
  pc \notin Terminal =>
    /\ pktbuf_used(recv_buf) <= Capacity
    /\ \A i \in oos_mask :
         /\ i < pktbuf_used(recv_buf)
         /\ recv_buf.head[mask_index(recv_buf.first + i)] =
              [seq |-> U8(Delivered + i), chunk |-> Delivered + i]

\* The output is a prefix of the input: loss, corruption, truncation,
\* duplicates and reordering leave no trace in it.
OutputIsPrefix == \A i \in DOMAIN written : written[i] = i - 1

\* Nothing is acknowledged that the receiver does not have.
AcksOnlyReceived ==
  [][\A d \in out' : d.type = "ACK" => d.seq = U8(Delivered + InSequence(oos_mask))]_vars

\* A full buffer can be emptied: rbuf_full counts all the packets of the mask,
\* and a buffer full of packets that all wait for a missing one would discard
\* that one for ever.
FullCanBeEmptied == pc = "poll" /\ rbuf_full /\ max_window > 0 => can_empty_rbuf

\* The last ACK is only sent for a complete transfer.
CompleteAtEnd ==
  pc \in {"linger", "done"} => Delivered = NChunks + 1 /\ Len(written) = NChunks

\* A datagram that was read is answered, even if the output accepts no data:
\* "We unconditionally check the socket to send 0-sized window if the output
\* file is blocking" (receive.c:299).
OutputDoesNotBlockReplies ==
  pc = "drain" /\ (need_ack \/ need_nack) ~> out # {} \/ pc = "failed"

\* No ACK takes back what an earlier one let the peer send: the peer believes
\* whichever comes last (transmit.c:97-100), also one that was overtaken.  What
\* closes the window are packets in sequence, by as many as the number of the
\* ACK moves; packets received out of order must not close it.
WindowIsNotTakenBack ==
  [][\A d \in out' : d.type = "ACK" => U8(d.seq + d.window) = U8(edge')]_vars

\* A packet in sequence that the output refused, and the first packet of the
\* transfer, do not wait for another datagram: whether the output is polled is
\* decided when an iteration ends (receive.c:290-297), for a packet that this
\* iteration or an earlier one left, and the packet leaves the buffer once the
\* output takes data again.
RefusedIsWritten ==
  \A i \in 0 .. IdxSpace - 1 :
    0 \in oos_mask /\ ~pktbuf_empty(recv_buf) /\ recv_buf.first = i
      ~> recv_buf.first # i \/ pc = "failed"

=============================================================================
