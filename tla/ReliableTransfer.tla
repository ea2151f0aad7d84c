-------------------------- MODULE ReliableTransfer --------------------------
(***************************************************************************)
(* What the two programs promise together: the output is built from the    *)
(* chunks of the input, in order and each once; the sender only counts as  *)
(* acknowledged what is in the output; a program that ends with success    *)
(* leaves a complete output.  A program may fail at any time.              *)
(***************************************************************************)
EXTENDS Naturals, Sequences

CONSTANT NChunks   \* non-empty chunks of the input, numbered from 0

VARIABLES
  output,     \* chunks written to the output
  closed,     \* the end of the transfer was reached by the receiver
  acked,      \* chunks the sender knows to be delivered, the end included
  sender,     \* "running", "done" or "failed"
  receiver    \* the same

vars == <<output, closed, acked, sender, receiver>>

Delivered(chunks, end) == Len(chunks) + (IF end THEN 1 ELSE 0)

Init ==
  /\ output = << >>
  /\ closed = FALSE
  /\ acked = 0
  /\ sender = "running" /\ receiver = "running"

\* The output grows by the next chunk, and ends only after the last one.
Deliver ==
  /\ receiver = "running" /\ ~closed
  /\ \/ /\ Len(output) < NChunks
        /\ output' = Append(output, Len(output))
        /\ UNCHANGED closed
     \/ /\ Len(output) = NChunks
        /\ closed' = TRUE
        /\ UNCHANGED output
  /\ UNCHANGED <<acked, sender, receiver>>

Acknowledge ==
  /\ sender = "running"
  /\ acked' \in acked + 1 .. Delivered(output, closed)
  /\ UNCHANGED <<output, closed, sender, receiver>>

SenderEnds(verdict) ==
  /\ sender = "running"
  /\ verdict = "done" => acked = NChunks + 1
  /\ sender' = verdict
  /\ UNCHANGED <<output, closed, acked, receiver>>

ReceiverEnds(verdict) ==
  /\ receiver = "running"
  /\ verdict = "done" => closed
  /\ receiver' = verdict
  /\ UNCHANGED <<output, closed, acked, sender>>

Next ==
  \/ Deliver
  \/ Acknowledge
  \/ \E verdict \in {"done", "failed"} : SenderEnds(verdict) \/ ReceiverEnds(verdict)

Spec == Init /\ [][Next]_vars

=============================================================================
