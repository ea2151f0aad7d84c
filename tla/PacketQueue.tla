---------------------------- MODULE PacketQueue ----------------------------
(***************************************************************************)
(* What the packet buffer promises its users: a bounded FIFO queue of      *)
(* consecutive sequence numbers, to which one packet is appended, from     *)
(* which the oldest one is removed, and in which slots are reserved up to  *)
(* a sequence number.                                                      *)
(***************************************************************************)
EXTENDS SeqNum, Sequences

CONSTANT Capacity

VARIABLE q

Init == q = << >>

Enqueue == \E s \in SeqNums :
  /\ Len(q) < Capacity
  /\ q # << >> => s = U8(q[Len(q)] + 1)
  /\ q' = Append(q, s)

Dequeue == q # << >> /\ q' = Tail(q)

\* The queue already reaches s, or is extended just enough to reach it.
SlotFor == \E s \in SeqNums :
  LET first == IF q = << >> THEN s ELSE q[1]
      n == SeqDiff(s, first) + 1
  IN  /\ Len(q) < n /\ n <= Capacity
      /\ q' = [i \in 1 .. n |-> U8(first + i - 1)]

Next == Enqueue \/ Dequeue \/ SlotFor

Spec == Init /\ [][Next]_q

=============================================================================
