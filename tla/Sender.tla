------------------------------- MODULE Sender -------------------------------
(***************************************************************************)
(* The sender: transmit() and its handlers in sender/transmit.c.           *)
(*                                                                         *)
(* One iteration of the loop of transmit is a sequence of steps of pc:     *)
(* poll() returns ("poll"), a datagram is read, the input is read if it is *)
(* ready too ("input"), new packets are sent ("send").  The chunks of the  *)
(* input are numbered from 0; the last packet is the empty one that read() *)
(* returns at the end of the input.                                        *)
(*                                                                         *)
(* The peer may send anything at any time: the sender must work with every *)
(* receiver that speaks the protocol, on a network that loses, delays and  *)
(* corrupts datagrams.                                                     *)
(***************************************************************************)
EXTENDS PktBuf, Wire, Sequences

CONSTANTS
  MaxDupAck,           \* MAX_DUP_ACK
  MaxRetransmission,   \* MAX_RETRANSMISSION
  NChunks,             \* bound: non-empty chunks in the input
  RegularInput         \* the input is a regular file: poll() always reports it

ASSUME SenderAssumption ==
  /\ MaxDupAck \in Nat \ {0}
  /\ MaxRetransmission \in Nat
  /\ NChunks \in Nat
  /\ RegularInput \in BOOLEAN

VARIABLES
  send_buf,          \* buffer storing all packets
  last_ack,          \* last received ack
  last_win,          \* last received window
  last_sent,         \* last sent packet
  last_chunk_read,   \* sequence number of the last chunk of the input
  dup_ack,           \* number of duplicate ACKs
  retry_count,       \* successive expirations of the retransmission timer
  last_in_read,      \* result of the last read of the input
  pfds_count,        \* 2: poll input and socket, 1: poll the socket only
  pc,                \* where in the loop
  nread,             \* packets read from the input so far
  out                \* datagrams the last step put on the wire

window == <<last_ack, last_win, last_sent, last_chunk_read>>
input == <<last_in_read, nread>>
vars == <<send_buf, window, dup_ack, retry_count, input, pfds_count, pc, out>>

Terminal == {"done", "failed", "exited", "looping", "crashed"}

\* calloc gives the slots the sequence number 0 and nothing that decodes.
Blank == [seq |-> 0, chunk |-> -1]

Init ==
  /\ send_buf = pktbuf_new(Blank)
  /\ last_ack = 0
  /\ last_win = 1
  /\ last_sent = U8(-1)
  /\ last_chunk_read = U8(-1)
  /\ dup_ack = 0
  /\ retry_count = 0
  /\ last_in_read = "none"
  /\ pfds_count = 2
  /\ pc = "poll"
  /\ nread = 0
  /\ out = {}

-----------------------------------------------------------------------------
\* Packets sent and not acknowledged: (uint8_t) (last_sent - last_ack + 1).
InFlight == SeqDiff(last_sent + 1, last_ack)

\* A packet is encoded when it is read; the CRC of the slot only matches its
\* header as long as the slot keeps the sequence number it was encoded with.
Frame(slot) ==
  IF slot.chunk >= 0 /\ slot.seq = U8(slot.chunk)
  THEN Data(slot.seq, slot.chunk)
  ELSE Corrupt

\* The slot pktbuf_slotfor_seq returns for seq, in the buffer it leaves.
SlotOf(buf, seq) == SlotReserved(buf, seq).head[SlotIndex(buf, seq)]

\* net_send of the first packets of a sequence: of all of them, or up to the
\* one for which write() fails.  A failure ends the handler and the loop, what
\* is left in the variables of the process is not read again.
Attempt(packets, attempted, after) ==
  \/ /\ attempted = Len(packets)
     /\ out' = {packets[i] : i \in 1 .. attempted}
     /\ pc' = after
  \/ /\ attempted \in 1 .. Len(packets)
     /\ out' = {packets[i] : i \in 1 .. attempted - 1}
     /\ pc' = "failed"

NetSend(packets, after) ==
  \E attempted \in 0 .. Len(packets) : Attempt(packets, attempted, after)

-----------------------------------------------------------------------------
(***************************************************************************)
(* handle_socket_read                                                      *)
(***************************************************************************)

\* Corrupt datagrams stand for all of those that do not decode; a DATA packet
\* is dropped whatever it carries.
Arrivals == Feedback \cup {Data(s, -1) : s \in SeqNums} \cup {Corrupt}

\* Mutant: poll_file.revents is not reset when the input is not polled.
MutantStaleRevents == {"input", "send"}

\* What follows the socket: the input, if poll() reported it too.
AfterSocket ==
  CASE pfds_count = 1                  -> {"send"}
    [] pfds_count = 2 /\ RegularInput  -> {"input"}
    [] pfds_count = 2 /\ ~RegularInput -> {"input", "send"}

\* Mutant: the window of acceptable ACKs reaches one packet too far.
MutantAckBeyond(d) == InWindow(d, last_ack, InFlight + 1) /\ d.type # "DATA"

IsFeedback(d) == InWindow(d, last_ack, InFlight) /\ d.type # "DATA"

SocketDrop(d) ==
  /\ pc = "poll"
  /\ ~IsFeedback(d)
  /\ retry_count' = 0
  /\ out' = {}
  /\ pc' \in AfterSocket
  /\ UNCHANGED <<send_buf, window, dup_ack, input, pfds_count>>

\* recv() reports an error of the connected socket.
SocketError ==
  /\ pc = "poll"
  /\ retry_count' = 0
  /\ out' = {}
  /\ pc' = "failed"
  /\ UNCHANGED <<send_buf, window, dup_ack, input, pfds_count>>

\* What every accepted ACK and NACK does.
SocketAccept(d) ==
  /\ pc = "poll"
  /\ IsFeedback(d)
  /\ retry_count' = 0
  /\ last_win' = d.window
  /\ UNCHANGED <<last_sent, last_chunk_read, input, pfds_count>>

\* The loop of process_nack stops at the first index whose slot has the
\* sequence number; pktbuf_at does not fail for these indices.
FirstAt(i, seq) ==
  /\ pktbuf_at(send_buf, i).seq = seq
  /\ \A j \in 0 .. i - 1 : pktbuf_at(send_buf, j).seq # seq

process_nack(d) ==
  /\ SocketAccept(d)
  /\ d.type = "NACK"
  /\ \E after \in AfterSocket :
       \/ \E i \in 0 .. pktbuf_used(send_buf) - 1 :
            /\ FirstAt(i, d.seq)
            /\ NetSend(<<Frame(pktbuf_at(send_buf, i))>>, after)
       \/ /\ \A i \in 0 .. pktbuf_used(send_buf) - 1 : pktbuf_at(send_buf, i).seq # d.seq
          /\ NetSend(<< >>, after)
  /\ UNCHANGED <<send_buf, last_ack, dup_ack>>

process_ack(d) ==
  /\ SocketAccept(d)
  /\ d.type = "ACK"
  /\ d.seq # last_ack
  /\ send_buf' = pktbuf_dequeue(send_buf, SeqDiff(d.seq, last_ack))
  /\ last_ack' = d.seq
  /\ dup_ack' = 0
  /\ out' = {}
  /\ pc' \in AfterSocket

\* pktbuf_first returns NULL for an empty buffer, net_send reads through it.
process_dup_ack(d) ==
  /\ SocketAccept(d)
  /\ d.type = "ACK"
  /\ d.seq = last_ack
  /\ \E after \in AfterSocket :
       \/ /\ dup_ack + 1 # MaxDupAck
          /\ dup_ack' = dup_ack + 1
          /\ NetSend(<< >>, after)
       \/ /\ dup_ack + 1 = MaxDupAck
          /\ ~pktbuf_empty(send_buf)
          /\ dup_ack' = 0
          /\ NetSend(<<Frame(pktbuf_first(send_buf))>>, after)
       \/ /\ dup_ack + 1 = MaxDupAck
          /\ pktbuf_empty(send_buf)
          /\ dup_ack' = 0
          /\ out' = {}
          /\ pc' = "crashed"
  /\ UNCHANGED <<send_buf, last_ack>>

HandleSocketRead ==
  \/ SocketError
  \/ \E d \in Arrivals :
       SocketDrop(d) \/ process_nack(d) \/ process_ack(d) \/ process_dup_ack(d)

-----------------------------------------------------------------------------
\* handle_input_read, the read returning a chunk, the end of the input or an
\* error.  It follows the socket's handler, or poll() if only the input was
\* ready.
HandleInputRead(result) ==
  /\ pc = "input" \/ (pc = "poll" /\ pfds_count = 2)
  /\ last_chunk_read' = U8(last_chunk_read + 1)
  /\ send_buf' = pktbuf_enqueue(send_buf, [seq |-> last_chunk_read', chunk |-> nread])
  /\ nread' = nread + 1
  /\ last_in_read' = result
  /\ pc' = IF result = "error" THEN "failed" ELSE "send"
  /\ out' = {}
  /\ UNCHANGED <<last_ack, last_win, last_sent, dup_ack, retry_count, pfds_count>>

\* What read() can return.
ReadResults == {"eof", "error"} \cup (IF nread < NChunks THEN {"data"} ELSE {})

-----------------------------------------------------------------------------
\* Mutant: can_send compares with < last_win - 1.
MutantSendsLess ==
  LET unsent == IF pktbuf_empty(send_buf) THEN 0 ELSE SeqDiff(last_chunk_read, last_sent)
      room == IF InFlight + 1 < last_win THEN last_win - 1 - InFlight ELSE 0
  IN  IF unsent < room THEN unsent ELSE room

\* Mutant: can_send compares with <= last_win.
MutantSendsMore ==
  LET unsent == IF pktbuf_empty(send_buf) THEN 0 ELSE SeqDiff(last_chunk_read, last_sent)
      room == IF InFlight <= last_win THEN last_win + 1 - InFlight ELSE 0
  IN  IF unsent < room THEN unsent ELSE room

\* Packets the loop of do_send_sbuf sends: until it meets the last chunk read
\* or can_send fails.
Sendable ==
  LET unsent == IF pktbuf_empty(send_buf) THEN 0 ELSE SeqDiff(last_chunk_read, last_sent)
      room == IF InFlight < last_win THEN last_win - InFlight ELSE 0
  IN  IF unsent < room THEN unsent ELSE room

\* do_send_sbuf and the end of the iteration.
DoSend ==
  /\ pc = "send"
  /\ \E attempted \in 0 .. Sendable :
       /\ last_sent' = U8(last_sent + attempted)
       /\ send_buf' = IF attempted = 0 THEN send_buf ELSE SlotReserved(send_buf, last_sent')
       /\ Attempt([i \in 1 .. Sendable |-> Frame(SlotOf(send_buf, U8(last_sent + i)))],
                  attempted,
                  IF last_in_read = "eof" /\ pktbuf_empty(send_buf') THEN "done" ELSE "poll")
  /\ pfds_count' = IF last_in_read # "eof" /\ ~pktbuf_full(send_buf') THEN 2 ELSE 1
  /\ UNCHANGED <<last_ack, last_win, last_chunk_read, dup_ack, retry_count, input>>

-----------------------------------------------------------------------------
(***************************************************************************)
(* poll() returns 0 after RETRANSMISSION_DELAY: handle_retransmission, for *)
(* a buffer that is not empty.  A regular file that is polled is always    *)
(* ready.                                                                  *)
(***************************************************************************)
TimerExpires ==
  /\ pc = "poll"
  /\ ~(RegularInput /\ pfds_count = 2)
  /\ UNCHANGED <<window, input, pfds_count>>

IdleTimeout ==
  /\ TimerExpires
  /\ pktbuf_empty(send_buf)
  /\ out' = {}
  /\ UNCHANGED <<send_buf, dup_ack, retry_count, pc>>

Abort ==
  /\ TimerExpires
  /\ ~pktbuf_empty(send_buf)
  /\ retry_count + 1 > MaxRetransmission
  /\ retry_count' = retry_count + 1
  /\ out' = {}
  /\ pc' = "failed"
  /\ UNCHANGED <<send_buf, dup_ack>>

\* Mutant: one retransmission more than MAX_RETRANSMISSION.
MutantOneRetryMore ==
  /\ TimerExpires
  /\ ~pktbuf_empty(send_buf)
  /\ retry_count <= MaxRetransmission
  /\ retry_count' = retry_count + 1
  /\ dup_ack' = 0

\* Mutant: the expirations of the timer are not counted.
MutantRetriesNotCounted ==
  /\ TimerExpires
  /\ ~pktbuf_empty(send_buf)
  /\ retry_count' = 0
  /\ dup_ack' = 0

Retry ==
  /\ TimerExpires
  /\ ~pktbuf_empty(send_buf)
  /\ retry_count + 1 <= MaxRetransmission
  /\ retry_count' = retry_count + 1
  /\ dup_ack' = 0

\* Mutant: the loop stops at last_sent.
MutantResendsLess ==
  /\ Retry
  /\ last_sent + 1 \in SeqNums
  /\ UNCHANGED send_buf
  /\ NetSend([i \in 1 .. InFlight - 1 |-> Frame(SlotOf(send_buf, U8(last_ack + i - 1)))], "poll")

\* The loop variable is a uint8_t, last_sent + 1 an int: the loop stops at
\* last_sent + 1 when that is a sequence number...
Retransmit ==
  /\ Retry
  /\ last_sent + 1 \in SeqNums
  /\ send_buf' = IF InFlight = 0 THEN send_buf ELSE SlotReserved(send_buf, last_sent)
  /\ NetSend([i \in 1 .. InFlight |-> Frame(SlotOf(send_buf, U8(last_ack + i - 1)))], "poll")

\* ... and never does after the last one.  The loop then reserves slots up to
\* the end of the ring and one more, which is the first slot again.  With its
\* new number this slot makes the loop go round the ring once more, until the
\* ASSERT_ALWAYS of pktbuf_slotfor_seq ends the process.  A ring as large as
\* the sequence space has a slot for every number and the loop goes on.
Overrun ==
  /\ Retry
  /\ last_sent + 1 \notin SeqNums
  /\ LET round == IF Capacity < SeqSpace THEN Capacity ELSE SeqSpace
         reach == IF Capacity < SeqSpace THEN Capacity ELSE SeqSpace - 1
         used == pktbuf_used(send_buf)
         Place(i) == mask_index(send_buf.first + ((i - 1) % round))
     IN  /\ send_buf' = IF reach < used THEN send_buf
                        ELSE Reserve(send_buf, reach + 1 - used)
         /\ NetSend([i \in 1 .. 2 * round + 1 |->
                       Frame(IF i <= used THEN send_buf.head[Place(i)]
                                          ELSE send_buf'.head[Place(i)])],
                    IF Capacity < SeqSpace THEN "exited" ELSE "looping")

Timeout == IdleTimeout \/ Abort \/ Retransmit \/ Overrun

\* poll() fails.
PollError ==
  /\ pc = "poll"
  /\ out' = {}
  /\ pc' = "failed"
  /\ UNCHANGED <<send_buf, window, dup_ack, retry_count, input, pfds_count>>

Terminated ==
  /\ pc \in Terminal
  /\ UNCHANGED vars

Next ==
  \/ HandleSocketRead
  \/ \E result \in ReadResults : HandleInputRead(result)
  \/ DoSend
  \/ Timeout
  \/ PollError
  \/ Terminated

Spec == Init /\ [][Next]_vars

\* The process is scheduled, the timer expires when nothing else happens, and
\* the input can be read again and again until it ends: a regular file always
\* can, a pipe as long as its writer goes on.  Nothing is assumed of the peer.
Fairness ==
  /\ WF_vars(DoSend)
  /\ WF_vars(Timeout)
  /\ WF_vars(\E result \in ReadResults : HandleInputRead(result))

FairSpec == Spec /\ Fairness

-----------------------------------------------------------------------------
TypeOK ==
  /\ send_buf \in [first : 0 .. IdxSpace - 1, last : 0 .. IdxSpace - 1,
                   head : [SlotIds -> [seq : SeqNums, chunk : -1 .. NChunks]]]
  /\ last_ack \in SeqNums
  /\ last_win \in Windows
  /\ last_sent \in SeqNums
  /\ last_chunk_read \in SeqNums
  /\ dup_ack \in 0 .. MaxDupAck - 1
  /\ retry_count \in 0 .. MaxRetransmission + (IF pc \in Terminal THEN 1 ELSE 0)
  /\ last_in_read \in {"none", "data", "eof", "error"}
  /\ pfds_count \in {1, 2}
  /\ pc \in {"poll", "input", "send"} \cup Terminal
  /\ nread \in 0 .. NChunks + 1
  /\ \A d \in out : d = Corrupt \/ d \in [type : {"DATA"}, seq : SeqNums, chunk : 0 .. NChunks]

Running == pc \notin Terminal

\* The three sequence numbers, the two ring indices and the slots describe one
\* window of the input: the slots hold the chunks that are not acknowledged,
\* each under the sequence number it was encoded with, the oldest is last_ack,
\* the newest last_chunk_read, and those up to last_sent are in flight.  Every
\* access of the handlers to the buffer relies on it (process_ack dequeues by
\* counting sequence numbers, do_send_sbuf and handle_retransmission look
\* slots up by sequence number).
BufferIsWindow ==
  Running =>
    LET used == pktbuf_used(send_buf) IN
    /\ used <= Capacity /\ used <= nread
    /\ InFlight <= used
    /\ last_chunk_read = U8(nread - 1)
    /\ last_ack = U8(nread - used)
    /\ send_buf.last = U32(nread)
    /\ \A chunk \in nread - used .. nread - 1 :
         send_buf.head[mask_index(chunk)] = [seq |-> U8(chunk), chunk |-> chunk]

\* The input is read only while the ring has a free slot and the end of the
\* input was not met: the decision is taken at the end of an iteration
\* (transmit.c:220), the read happens in the next one, after the handler of the
\* socket.
ReadsWithRoom ==
  /\ pc = "input" => pfds_count = 2
  /\ pc = "input" \/ (pc = "poll" /\ pfds_count = 2) =>
       last_in_read # "eof" /\ ~pktbuf_full(send_buf)
  /\ last_in_read \in {"none", "data"} => nread <= NChunks
  /\ Running => last_in_read # "error"

\* The inductive invariant of the proofs.
IInv == TypeOK /\ BufferIsWindow /\ ReadsWithRoom

\* The counters the sequence numbers stand for, as long as the buffer is
\* smaller than the sequence space.
Unacked == SeqDiff(last_chunk_read + 1, last_ack)

Promise == INSTANCE SlidingWindow WITH
  base <- nread - Unacked,
  next <- nread - Unacked + InFlight,
  queued <- nread,
  win <- last_win,
  wire <- {d.chunk : d \in out \ {Corrupt}}

\* transmit() is a sliding window: chunks are queued, sent by do_send_sbuf inside
\* the window and acknowledged in order, acknowledgments of what was never sent
\* have no effect, and nothing but unacknowledged chunks goes on the wire,
\* whatever the peer sends and however often the sequence numbers wrap.  What a
\* NACK or the timer puts there may be past the window: a NACK of the packet
\* after the last one sent, and a go-back-n that misses its end, do so.
ImplementsSlidingWindow == Promise!Spec

\* An iteration of the loop leaves no packet behind that the window lets go:
\* "Try to send data if possible" (transmit.c:214).  The comparison of
\* last_sent with last_chunk_read is what decides it.
NoStall ==
  pc = "poll" => InFlight = pktbuf_used(send_buf) \/ InFlight >= last_win

\* The fast retransmission always finds a packet to send: pktbuf_first returns
\* NULL for an empty buffer (pktbuf.h:30) and net_send reads through it.
FastRetransmitFindsPacket == pc # "crashed"

\* transmit() gives up or completes once its peer is silent: the timer stops
\* retransmitting after MAX_RETRANSMISSION expirations, and nothing else than
\* the peer restarts it.
SilentPeerEndsTransfer == <>[][~HandleSocketRead]_vars => <>(pc \in Terminal)

=============================================================================
