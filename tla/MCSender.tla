------------------------------ MODULE MCSender ------------------------------
(***************************************************************************)
(* What the log messages and the protocol's specification say of the       *)
(* sender's handlers, and the code does not do.                            *)
(***************************************************************************)
EXTENDS Sender

\* The packets with the n sequence numbers from seq on that are in the buffer.
Queued(seq, n) ==
  {send_buf.head[mask_index(send_buf.first + i)] : i \in 0 .. pktbuf_used(send_buf) - 1}
    \cap [seq : {U8(seq + i) : i \in 0 .. n - 1}, chunk : 0 .. NChunks]

Frames(packets) == {Frame(packet) : packet \in packets}

\* "Retransmission timer expired, sending window [%u->%u]" with last_ack and
\* last_sent (transmit.c:142), "perform a go-back-n" (transmit.c:132): the
\* timer resends the packets in flight, unless it fails to.
RetransmitsTheWindow ==
  [][Retry => out' = Frames(Queued(last_ack, InFlight)) \/ pc' = "failed"]_vars

\* "Received a NACK for seq #%u; retransmit packet" (transmit.c:33): a NACK for
\* a packet in flight makes the sender resend it.
NackIsRetransmitted ==
  [][\A d \in Feedback :
       /\ process_nack(d)
       /\ SeqDiff(d.seq, last_ack) < InFlight
       /\ pc' # "failed"
       => out' = Frames(Queued(d.seq, 1))]_vars

=============================================================================
