-------------------------------- MODULE Wire --------------------------------
(***************************************************************************)
(* The datagrams that sender and receiver exchange, as far as the two      *)
(* programs tell them apart.  What pkt_decode_inline rejects (a CRC that   *)
(* does not match, a malformed header, an inconsistent length) is the one  *)
(* value Corrupt.  A payload is the number of the chunk of the input it    *)
(* carries.                                                                *)
(***************************************************************************)
EXTENDS SeqNum

CONSTANT MaxWindow   \* largest window a header can hold (2^5 - 1)

ASSUME WindowAssumption == MaxWindow \in Nat /\ 0 < MaxWindow /\ MaxWindow < SeqSpace

Windows == 0 .. MaxWindow

Corrupt == [type |-> "CORRUPT"]

Data(seq, chunk) == [type |-> "DATA", seq |-> seq, chunk |-> chunk]

\* What the receiver answers.
Feedback == [type : {"ACK", "NACK"}, seq : SeqNums, window : Windows]

\* Mutant: what decodes is accepted whatever its sequence number.
MutantAnySeq(d, expected_seq, win) == d.type # "CORRUPT"

\* net_recv_pkt accepts d: it decodes and its sequence number is at most win
\* ahead of expected_seq.
InWindow(d, expected_seq, win) ==
  /\ d.type # "CORRUPT"
  /\ SeqDiff(d.seq, expected_seq) <= win

=============================================================================
