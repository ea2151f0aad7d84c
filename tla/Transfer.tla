------------------------------ MODULE Transfer ------------------------------
(***************************************************************************)
(* One transfer: the sender and the receiver, the network between them,    *)
(* and time.                                                               *)
(*                                                                         *)
(* Time is discrete, its unit a second.  Programs take no time: it passes  *)
(* when both wait in poll(), and no further than the next expiration of a  *)
(* timer or the latest arrival of a datagram.  The network delays each     *)
(* datagram by up to MaxLatency and thereby reorders them; it may lose,    *)
(* damage or cut some.  Such faults, and the failures of system calls, are *)
(* counted against one budget, MaxFaults.                                  *)
(***************************************************************************)
EXTENDS Wire, Bags

CONSTANTS
  Capacity, IdxSpace,
  MaxDupAck, MaxRetransmission, RegularInput,
  max_window, MaskBits, MaxRetries, MaxLingerRetry, OutNonBlocking, Lag,
  NChunks,      \* bound: non-empty chunks in the input
  RTO,          \* RETRANSMISSION_DELAY
  IdleTime,     \* IDLE_TIME
  Linger,       \* LINGER
  MaxLatency,   \* longest time a datagram spends in the network
  MaxFaults     \* bound: faults of the network and of system calls

ASSUME TransferAssumption ==
  /\ RTO \in Nat \ {0} /\ IdleTime \in Nat \ {0} /\ Linger \in Nat \ {0}
  /\ MaxLatency \in Nat /\ MaxFaults \in Nat
  /\ RegularInput /\ ~OutNonBlocking

VARIABLES
  \* the sender
  send_buf, last_ack, last_win, last_sent, last_chunk_read, dup_ack,
  retry_count, last_in_read, nread, s_pfds_count, s_pc, s_out,
  \* the receiver
  recv_buf, oos_mask, expected_seq, need_ack, need_nack, nack_seq,
  last_written, retry, pending, written, edge, r_pfds_count, r_pc, r_out,
  \* what is around them
  net,       \* bag of the datagrams in the network
  s_timer,   \* seconds since the sender entered poll()
  r_timer,   \* seconds since the receiver entered poll()
  refused,   \* programs whose socket has an error to report: the peer's is closed
  faults,    \* faults so far
  broken     \* one of them was a failure of a system call

\* The modules of the proofs, so that the theorems about each program are at
\* hand for those about both.
S == INSTANCE SenderRefinement WITH pfds_count <- s_pfds_count, pc <- s_pc, out <- s_out
R == INSTANCE ReceiverProofs WITH pfds_count <- r_pfds_count, pc <- r_pc, out <- r_out

ASSUME ProgramsAssumption ==
  /\ S!CapacityAssumption /\ S!CapacityPowerOfTwo
  /\ S!SenderAssumption /\ R!ReceiverAssumption

around == <<net, s_timer, r_timer, refused, faults, broken>>
vars == <<S!vars, R!vars, around>>

Init ==
  /\ S!Init
  /\ R!Init
  /\ net = EmptyBag
  /\ s_timer = 0 /\ r_timer = 0
  /\ refused = {}
  /\ faults = 0 /\ broken = FALSE

-----------------------------------------------------------------------------
Programs == {"sender", "receiver"}

Ended(p) == IF p = "sender" THEN s_pc \in S!Terminal ELSE r_pc \in R!Terminal

Peer(p) == IF p = "sender" THEN "receiver" ELSE "sender"

Without(m) == net (-) SetToBag({m})

Posted(to, datagrams) == SetToBag({[to |-> to, d |-> d, age |-> 0] : d \in datagrams})

\* A program that ends because a system call failed: the error of its socket
\* was due, or it counts as a fault.
Blame(p, error) ==
  \/ /\ error => p \in refused
     /\ UNCHANGED <<faults, broken>>
  \/ /\ error
     /\ faults < MaxFaults
     /\ faults' = faults + 1
     /\ broken' = TRUE

\* s_out and r_out are what the last step put on the wire: a step of one
\* program clears the other's.
SenderQuiet ==
  /\ s_out' = {}
  /\ UNCHANGED <<send_buf, last_ack, last_win, last_sent, last_chunk_read, dup_ack,
                 retry_count, last_in_read, nread, s_pfds_count, s_pc>>

ReceiverQuiet ==
  /\ r_out' = {}
  /\ UNCHANGED <<recv_buf, oos_mask, expected_seq, need_ack, need_nack, nack_seq,
                 last_written, retry, pending, written, edge, r_pfds_count, r_pc>>

\* What goes with a step of a program that leaves rest in the network: poll()
\* starts its timer anew.
SenderMoves(rest, error) ==
  /\ net' = rest (+) Posted("receiver", s_out')
  /\ s_timer' = 0
  /\ Blame("sender", error)
  /\ ReceiverQuiet
  /\ UNCHANGED <<r_timer, refused>>

ReceiverMoves(rest, error) ==
  /\ net' = rest (+) Posted("sender", r_out')
  /\ r_timer' = 0
  /\ Blame("receiver", error)
  /\ SenderQuiet
  /\ UNCHANGED <<s_timer, refused>>

-----------------------------------------------------------------------------
SenderReceives(m) ==
  /\ m.to = "sender"
  /\ S!SocketDrop(m.d) \/ S!process_nack(m.d) \/ S!process_ack(m.d) \/ S!process_dup_ack(m.d)
  /\ SenderMoves(Without(m), s_pc' = "failed")

\* The input has NChunks chunks.
ReadResults == {"error", IF nread < NChunks THEN "data" ELSE "eof"}

SenderWorks ==
  /\ S!DoSend \/ \E result \in ReadResults : S!HandleInputRead(result)
  /\ SenderMoves(net, s_pc' = "failed")

SenderTimeout ==
  /\ s_timer = RTO
  /\ S!Timeout
  /\ SenderMoves(net, s_pc' = "failed" /\ retry_count' <= MaxRetransmission)

SenderError ==
  /\ S!SocketError \/ S!PollError
  /\ SenderMoves(net, TRUE)

-----------------------------------------------------------------------------
ReceiverReceives(m) ==
  /\ m.to = "receiver"
  /\ \/ R!Connect(m.d) \/ R!WaitIgnore(m.d)
     \/ R!Accept(m.d) \/ R!Drop(m.d) \/ R!Discard(m.d)
     \/ R!AssertFails(m.d) \/ R!LingerArrival
  /\ ReceiverMoves(Without(m), FALSE)

\* While it lingers, the receiver leaves its datagrams in the socket.
ReceiverIgnores(m) ==
  /\ m.to = "receiver"
  /\ r_pc = "linger" /\ pending
  /\ net' = Without(m)
  /\ SenderQuiet /\ ReceiverQuiet
  /\ UNCHANGED <<s_timer, r_timer, refused, faults, broken>>

ReceiverWorks ==
  /\ \/ R!OutputReady \/ R!Drain \/ R!DrainEnd \/ R!OutputError \/ R!Reply
     \/ R!LingerAck
     \/ pending /\ R!LingerEnd
  /\ ReceiverMoves(net, r_pc' = "failed")

ReceiverTimeout ==
  /\ \/ r_timer = IdleTime /\ R!Fail
     \/ r_timer = Linger /\ R!LingerEnd
  /\ ReceiverMoves(net, FALSE)

\* While it lingers, the error of the socket makes poll() return, not fail.
ReceiverError ==
  /\ R!Fail \/ R!WaitError \/ (R!LingerFail /\ faults' = faults + 1)
  /\ ReceiverMoves(net, TRUE)

\* poll() reports the error of the socket as it reports a datagram.
LingerError ==
  /\ "receiver" \in refused
  /\ R!LingerArrival
  /\ ReceiverMoves(net, FALSE)

-----------------------------------------------------------------------------
\* A datagram for a program that has ended: its host answers that the port is
\* closed, and the answer reaches the peer's socket or not.
Unreachable(m) ==
  /\ Ended(m.to)
  /\ net' = Without(m)
  /\ \/ UNCHANGED refused
     \/ /\ ~Ended(Peer(m.to)) /\ r_pc # "wait"
        /\ refused' = refused \cup {Peer(m.to)}
  /\ SenderQuiet /\ ReceiverQuiet
  /\ UNCHANGED <<s_timer, r_timer, faults, broken>>

\* A fault of the network happens to a datagram that was just sent: it is lost,
\* damaged, or cut (which damage can do to an empty packet, module PacketOps).
Faulty(m) ==
  {Without(m), Without(m) (+) SetToBag({[m EXCEPT !.d = Corrupt]})}
    \cup (IF m.d.type = "DATA"
          THEN {Without(m) (+) SetToBag({[m EXCEPT !.d = R!Truncated(m.d.seq)]})}
          ELSE {})

NetworkFault(m) ==
  /\ m.age = 0
  /\ m.d # Corrupt
  /\ faults < MaxFaults
  /\ faults' = faults + 1
  /\ net' \in Faulty(m)
  /\ SenderQuiet /\ ReceiverQuiet
  /\ UNCHANGED <<s_timer, r_timer, refused, broken>>

\* Mutant: poll() has no timeout in the sender.
MutantSenderWaits ==
  /\ Ended("sender") \/ (s_pc = "poll" /\ s_pfds_count = 1)
  /\ \/ Ended("receiver")
     \/ r_pc = "wait"
     \/ r_pc = "poll" /\ r_pfds_count = 1 /\ r_timer < IdleTime
     \/ r_pc = "linger" /\ ~pending /\ r_timer < Linger
  /\ \A p \in refused : Ended(p)
  /\ \A m \in BagToSet(net) : m.age < MaxLatency

\* Both programs wait in poll() (or recvfrom()), and nothing is due.
Idle ==
  /\ Ended("sender") \/ (s_pc = "poll" /\ s_pfds_count = 1 /\ s_timer < RTO)
  /\ \/ Ended("receiver")
     \/ r_pc = "wait"
     \/ r_pc = "poll" /\ r_pfds_count = 1 /\ r_timer < IdleTime
     \/ r_pc = "linger" /\ ~pending /\ r_timer < Linger
  /\ \A p \in refused : Ended(p)
  /\ \A m \in BagToSet(net) : m.age < MaxLatency

Older(bag) ==
  [m \in {[x EXCEPT !.age = @ + 1] : x \in DOMAIN bag} |-> bag[[m EXCEPT !.age = @ - 1]]]

Tick ==
  /\ Idle
  /\ net' = Older(net)
  /\ s_timer' = IF s_pc = "poll" THEN s_timer + 1 ELSE 0
  /\ r_timer' = IF r_pc \in {"poll", "linger"} THEN r_timer + 1 ELSE 0
  /\ SenderQuiet /\ ReceiverQuiet
  /\ UNCHANGED <<refused, faults, broken>>

-----------------------------------------------------------------------------
Next ==
  \/ \E m \in BagToSet(net) :
       \/ SenderReceives(m) \/ ReceiverReceives(m) \/ ReceiverIgnores(m)
       \/ Unreachable(m) \/ NetworkFault(m)
  \/ SenderWorks \/ SenderTimeout \/ SenderError
  \/ ReceiverWorks \/ ReceiverTimeout \/ ReceiverError \/ LingerError
  \/ Tick

Spec == Init /\ [][Next]_vars

\* Neither a program nor the clock stops: whatever is due happens, because
\* time does not pass before it has.
FairSpec == Spec /\ WF_vars(Next)

-----------------------------------------------------------------------------
TypeOK ==
  /\ S!TypeOK
  /\ R!TypeOK
  /\ \A m \in BagToSet(net) :
       /\ m.to \in Programs /\ m.age \in 0 .. MaxLatency
       /\ m.d = Corrupt \/ m.d.seq \in SeqNums
  /\ s_timer \in 0 .. RTO
  /\ r_timer \in 0 .. IF IdleTime < Linger THEN Linger ELSE IdleTime
  /\ refused \subseteq Programs
  /\ faults \in 0 .. MaxFaults
  /\ broken \in BOOLEAN

\* The receiver's model assumes of its peer that it keeps to the windows it was
\* told and to chunks not older than Lag.  The sender keeps to the windows in
\* spite of ACKs that overtake each other, while the numbers of the input do not
\* repeat.  The lag is an assumption about the network: with more chunks than
\* Lag, a packet may be delayed until as many later ones have arrived.
PeerKeepsPromise ==
  \A m \in BagToSet(net) : m.to = "receiver" => m.d \in R!Arrivals

Verdict(p) ==
  LET pc == IF p = "sender" THEN s_pc ELSE r_pc
  IN  IF ~Ended(p) THEN "running" ELSE IF pc = "done" THEN "done" ELSE "failed"

Promise == INSTANCE ReliableTransfer WITH
  output <- written,
  closed <- last_written = "eof",
  acked <- nread - S!Unacked,
  sender <- Verdict("sender"),
  receiver <- Verdict("receiver")

\* The two programs transfer a file: what the sender takes for acknowledged is
\* in the output, the output is the input, and who reports success left a
\* complete output, whatever is lost, damaged, cut, delayed or fails.
ImplementsReliableTransfer == Promise!Spec

\* The round trip is shorter than the retransmission timer.
Fast == \A m \in BagToSet(net) : 2 * m.age < RTO

\* Without faults, on a fast network, the sender succeeds and its timer has
\* nothing to resend: every ACK the receiver owes is sent, with a window that
\* lets the next packets go, and its last one is not waited for in vain.  On a
\* network with round trips as long as RETRANSMISSION_DELAY the sender may be
\* told that the port is closed before it reads the last ACK.
FastNetworkSucceeds ==
  [](faults = 0 /\ Fast) => <>(s_pc = "done") /\ [](retry_count = 0)

\* One fault of the network (MaxFaults) does not keep the receiver from
\* completing the output.  Two can: IDLE_TIME is shorter than the time in which
\* the sender retransmits a packet that is lost twice.
OutputCompletes == []~broken => <>(R!Delivered = NChunks + 1)

\* Once the receiver has heard the sender, neither waits for ever for the
\* other, whichever fails first.
NobodyIsLeft == r_pc # "wait" ~> Ended("sender") /\ Ended("receiver")

=============================================================================
