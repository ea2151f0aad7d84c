--------------------------- MODULE TransferProofs ---------------------------
(***************************************************************************)
(* The two programs together keep the promises they rely on, and transfer  *)
(* the file, for every size of the ring, of the window and of the input,   *)
(* and whatever the network does.                                          *)
(*                                                                         *)
(* The hypothesis: the input is so short that its sequence numbers do not  *)
(* repeat.  A packet that the network keeps for the length of a sequence   *)
(* space is taken for a new one, by this receiver as by every other, and   *)
(* nothing in the model bounds what can be sent during MaxLatency.         *)
(***************************************************************************)
EXTENDS Transfer, Sequences, TLAPS

InputFits ==
  /\ Capacity < SeqSpace
  /\ 0 < max_window
  /\ NChunks < Lag /\ Lag + max_window < SeqSpace

-----------------------------------------------------------------------------
(***************************************************************************)
(* The inductive invariant                                                 *)
(***************************************************************************)

\* A packet the receiver may be sent, damaged or cut on the way.
Allowed(d) ==
  d = Corrupt \/ \E c \in 0 .. NChunks : c < edge /\ d \in {Data(U8(c), c), R!Truncated(U8(c))}

\* What is on its way: packets within the windows that were told, and answers
\* that tell the truth.
OnItsWay(m) ==
  /\ m = [to |-> m.to, d |-> m.d, age |-> m.age]
  /\ m.to \in Programs /\ m.age \in 0 .. MaxLatency
  /\ m.to = "receiver" => Allowed(m.d)
  /\ m.to = "sender" => m.d = Corrupt \/ (m.d \in Feedback /\ R!Told(m.d))

NetInv == \A m \in BagToSet(net) : OnItsWay(m)

\* The end of the input is read once, after its last chunk.
EofIsLast == last_in_read = "eof" => nread = NChunks + 1

TimeInv ==
  /\ s_timer \in 0 .. RTO
  /\ r_timer \in 0 .. IF IdleTime < Linger THEN Linger ELSE IdleTime
  /\ refused \subseteq Programs
  /\ faults \in 0 .. MaxFaults
  /\ broken \in BOOLEAN

IInv ==
  /\ S!SafeInv /\ S!Within(edge, R!Delivered, max_window)
  /\ R!IInv /\ R!TellInv
  /\ NetInv /\ EofIsLast /\ TimeInv

-----------------------------------------------------------------------------
(***************************************************************************)
(* The two programs                                                        *)
(***************************************************************************)

\* What the modules of the programs assume of the constants.
LEMMA SenderConstants ==
  /\ S!SeqSpaceAssumption /\ S!WindowAssumption /\ S!CapacityAssumption
  /\ S!CapacityPowerOfTwo /\ S!SenderAssumption
BY SeqSpaceAssumption, WindowAssumption, ProgramsAssumption
DEF S!SeqSpaceAssumption, S!WindowAssumption, SeqSpaceAssumption, WindowAssumption

LEMMA ReceiverConstants ==
  /\ R!SeqSpaceAssumption /\ R!WindowAssumption /\ R!CapacityAssumption
  /\ R!CapacityPowerOfTwo /\ R!ReceiverAssumption
BY SeqSpaceAssumption, WindowAssumption, ProgramsAssumption
DEF R!SeqSpaceAssumption, R!WindowAssumption, SeqSpaceAssumption, WindowAssumption,
    S!CapacityAssumption, S!CapacityPowerOfTwo, R!CapacityAssumption, R!CapacityPowerOfTwo

\* The hypotheses of their theorems.
LEMMA Hypotheses ==
  ASSUME InputFits
  PROVE  /\ S!NumbersDoNotRepeat /\ Capacity < SeqSpace
         /\ R!BlocksOrWindowIsOne /\ R!OldPacketsAreTold
         /\ RegularInput /\ ~OutNonBlocking
         /\ NChunks \in Nat /\ Lag \in Nat /\ max_window \in Nat /\ 0 < max_window
         /\ NChunks + 1 <= Lag
<1>1. NChunks \in Nat /\ Lag \in Nat /\ max_window \in Nat /\ SeqSpace \in Nat
  BY SeqSpaceAssumption, WindowAssumption, ReceiverConstants
  DEF R!ReceiverAssumption, R!Windows
<1> QED
  BY <1>1, TransferAssumption
  DEF InputFits, S!NumbersDoNotRepeat, R!BlocksOrWindowIsOne, R!OldPacketsAreTold

\* Both mean the same datagrams.
LEMMA SameDatagrams ==
  /\ S!Corrupt = Corrupt /\ R!Corrupt = Corrupt
  /\ S!Feedback = Feedback /\ R!Feedback = Feedback
  /\ \A seq, chunk : S!Data(seq, chunk) = Data(seq, chunk) /\ R!Data(seq, chunk) = Data(seq, chunk)
  /\ \A n : S!U8(n) = U8(n) /\ R!U8(n) = U8(n)
BY DEF Corrupt, S!Corrupt, R!Corrupt, Feedback, S!Feedback, R!Feedback, SeqNums, S!SeqNums,
       R!SeqNums, Windows, S!Windows, R!Windows, Data, S!Data, R!Data, U8, S!U8, R!U8

-----------------------------------------------------------------------------
(***************************************************************************)
(* The network                                                             *)
(***************************************************************************)

\* What is in the bags that the actions build.
LEMMA WithoutIs ==
  ASSUME NEW m
  PROVE  BagToSet(Without(m)) \subseteq BagToSet(net)
BY DEF Without, BagToSet, SetToBag, (-)

LEMMA PostedIs ==
  ASSUME NEW rest, NEW to, NEW datagrams, NEW x \in BagToSet(rest (+) Posted(to, datagrams))
  PROVE  x \in BagToSet(rest) \/ \E d \in datagrams : x = [to |-> to, d |-> d, age |-> 0]
BY DEF BagToSet, SetToBag, Posted, (+)

LEMMA AddedIs ==
  ASSUME NEW rest, NEW m, NEW x \in BagToSet(rest (+) SetToBag({m}))
  PROVE  x \in BagToSet(rest) \/ x = m
BY DEF BagToSet, SetToBag, (+)

LEMMA OlderIs ==
  ASSUME NEW bag, NEW x \in BagToSet(Older(bag))
  PROVE  \E m \in BagToSet(bag) : x = [m EXCEPT !.age = @ + 1]
BY DEF BagToSet, Older

\* A datagram stays what it is while chunks are delivered and windows opened.
LEMMA WayLasts ==
  ASSUME NEW m, OnItsWay(m), edge \in Int, edge' \in Int, edge <= edge',
         R!Delivered \in Int, R!Delivered' \in Int, R!Delivered <= R!Delivered'
  PROVE  OnItsWay(m)'
<1>1. Allowed(m.d) => Allowed(m.d)'
  <2>1. ASSUME NEW c \in 0 .. NChunks, c < edge PROVE c < edge'
    BY <2>1
  <2> QED
    BY <2>1 DEF Allowed
<1>2. R!Told(m.d) => R!Told(m.d)'
  BY R!ToldLasts, ReceiverConstants
<1> QED
  BY <1>1, <1>2 DEF OnItsWay

\* What a step leaves in the network stays what it is.
LEMMA NetLasts ==
  ASSUME NetInv, edge \in Int, edge' \in Int, edge <= edge',
         R!Delivered \in Int, R!Delivered' \in Int, R!Delivered <= R!Delivered',
         \A x \in BagToSet(net') : x \in BagToSet(net) \/ OnItsWay(x)'
  PROVE  NetInv'
<1>1. ASSUME NEW x \in BagToSet(net') PROVE OnItsWay(x)'
  BY <1>1, WayLasts DEF NetInv
<1> QED
  BY <1>1 DEF NetInv, BagToSet

\* The receiver's counters.
LEMMA ReceiverCounters ==
  ASSUME InputFits, R!IInv
  PROVE  R!Delivered \in 0 .. NChunks + 1 /\ R!Delivered \in Int /\ edge \in Int
<1>1. R!Delivered \in 0 .. NChunks + 1 /\ NChunks \in Nat
  BY R!DeliveredType, ReceiverConstants, Hypotheses
<1>2. edge \in Int
  BY DEF R!IInv, R!TypeOK
<1> QED
  BY <1>1, <1>2

-----------------------------------------------------------------------------
(***************************************************************************)
(* The sender's steps                                                      *)
(***************************************************************************)

\* The invariant but for what the two programs do not change by their protocol.
ProtocolInv ==
  /\ S!SafeInv /\ S!Within(edge, R!Delivered, max_window)
  /\ R!IInv /\ R!TellInv
  /\ NetInv

\* A step of transmit(), the others looking on: the packets it sends are within
\* the windows, and it takes for acknowledged what is delivered.
LEMMA SenderStep ==
  ASSUME InputFits, ProtocolInv, NEW d, d \in Feedback => R!Told(d), S!StepWith(d),
         NEW rest, NEW error, BagToSet(rest) \subseteq BagToSet(net), SenderMoves(rest, error)
  PROVE  /\ ProtocolInv' /\ R!Delivered' = R!Delivered /\ edge' = edge
         /\ \/ S!Known' = S!Known
            \/ /\ d \in S!Arrivals /\ S!process_ack(d)
               /\ S!Known' \in Int /\ S!Known < S!Known' /\ S!Known' <= R!Delivered
<1>1. /\ R!Delivered \in 0 .. NChunks + 1 /\ R!Delivered \in Int /\ edge \in Int
      /\ max_window \in Nat /\ 0 < max_window /\ NChunks \in Nat
      /\ Capacity < SeqSpace /\ S!NumbersDoNotRepeat
  BY ReceiverCounters, Hypotheses DEF ProtocolInv
<1>2. R!IInv' /\ R!TellInv' /\ R!Delivered' = R!Delivered /\ edge' = edge
  BY R!Cleared, ReceiverConstants
  DEF ProtocolInv, SenderMoves, ReceiverQuiet, R!reply, R!output
<1>3. PICK e \in Int : e = edge
  BY <1>1
<1>4. PICK m \in 0 .. NChunks + 1 : m = R!Delivered
  BY <1>1
<1>5. S!Within(e, m, max_window)
  BY <1>3, <1>4 DEF ProtocolInv
<1>6. d \in S!Feedback => S!Honest(d, e, m, max_window)
  BY <1>3, <1>4, SameDatagrams DEF R!Told, S!Honest
<1>7. /\ S!SafeInv' /\ S!Within(e, m, max_window)' /\ S!SendsBelow(e)
      /\ \/ S!Known' = S!Known
         \/ /\ d \in S!Arrivals /\ S!process_ack(d)
            /\ S!Known' \in Int /\ S!Known < S!Known' /\ S!Known' <= m
  BY <1>1, <1>5, <1>6, S!NextWithin, SenderConstants DEF ProtocolInv
<1>8. S!Within(edge, R!Delivered, max_window)'
  BY <1>2, <1>3, <1>4, <1>7 DEF S!Within
<1>9. NetInv'
  <2>1. ASSUME NEW f \in s_out' PROVE Allowed(f)'
    BY <1>2, <1>3, <1>7, <2>1, SameDatagrams DEF S!SendsBelow, Allowed
  <2>2. ASSUME NEW x \in BagToSet(net') PROVE x \in BagToSet(net) \/ OnItsWay(x)'
    <3>1. \/ x \in BagToSet(rest)
          \/ \E f \in s_out' : x = [to |-> "receiver", d |-> f, age |-> 0]
      BY <2>2, PostedIs DEF SenderMoves
    <3>2. ASSUME NEW f \in s_out', x = [to |-> "receiver", d |-> f, age |-> 0]
          PROVE  OnItsWay(x)'
      <4>1. /\ x.to = "receiver" /\ x.d = f /\ x.age \in 0 .. MaxLatency
            /\ x = [to |-> x.to, d |-> x.d, age |-> x.age]
        BY <3>2, TransferAssumption
      <4> QED
        BY <2>1, <4>1 DEF OnItsWay, Programs
    <3> QED
      BY <3>1, <3>2
  <2> QED
    BY <1>1, <1>2, <2>2, NetLasts DEF ProtocolInv
<1> QED
  BY <1>2, <1>4, <1>7, <1>8, <1>9 DEF ProtocolInv

\* The faults and the timers, for a program that has made a step.
LEMMA BlameKeeps ==
  ASSUME TimeInv, NEW p, NEW error, Blame(p, error)
  PROVE  faults' \in 0 .. MaxFaults /\ broken' \in BOOLEAN
<1>1. faults' \in 0 .. MaxFaults
  BY TransferAssumption DEF TimeInv, Blame
<1>2. broken' = broken \/ broken' = TRUE
  BY DEF Blame
<1> QED
  BY <1>1, <1>2 DEF TimeInv

LEMMA SenderTime ==
  ASSUME TimeInv, NEW rest, NEW error, SenderMoves(rest, error)
  PROVE  TimeInv'
<1>1. Blame("sender", error) /\ s_timer' = 0 /\ r_timer' = r_timer /\ refused' = refused
  BY DEF SenderMoves
<1>2. 0 \in 0 .. RTO
  BY TransferAssumption
<1> QED
  BY <1>1, <1>2, BlameKeeps DEF TimeInv

LEMMA ReceiverTime ==
  ASSUME TimeInv, NEW rest, NEW error, ReceiverMoves(rest, error)
  PROVE  TimeInv'
<1>1. Blame("receiver", error) /\ r_timer' = 0 /\ s_timer' = s_timer /\ refused' = refused
  BY DEF ReceiverMoves
<1>2. 0 \in 0 .. IF IdleTime < Linger THEN Linger ELSE IdleTime
  BY TransferAssumption
<1> QED
  BY <1>1, <1>2, BlameKeeps DEF TimeInv

\* What a step of transmit() is for the promise of both programs: an ACK that
\* is new, the end of the program, or nothing.
LEMMA SenderImplements ==
  ASSUME IInv, Capacity < SeqSpace, NEW d, S!StepWith(d), ReceiverQuiet,
         \/ S!Known' = S!Known
         \/ /\ S!process_ack(d)
            /\ S!Known' \in Int /\ S!Known < S!Known' /\ S!Known' <= R!Delivered,
         S!Known \in Int, R!Delivered \in Int
  PROVE  [Promise!Next]_Promise!vars
<1>1. S!Running /\ (S!process_ack(d) => S!Running')
  BY S!StepRuns, SenderConstants DEF IInv
<1>2. /\ UNCHANGED <<written, last_written>> /\ Verdict("receiver")' = Verdict("receiver")
      /\ Verdict("sender") = "running"
  BY <1>1 DEF ReceiverQuiet, Verdict, Ended, S!Running
<1>3. CASE S!Running' /\ S!Known' = S!Known
  <2>1. Verdict("sender")' = "running"
    BY <1>3 DEF Verdict, Ended, S!Running
  <2> QED
    BY <1>2, <1>3, <2>1 DEF Promise!vars, S!Known
<1>4. CASE S!Running' /\ S!Known' # S!Known
  <2>1. Verdict("sender")' = "running"
    BY <1>4 DEF Verdict, Ended, S!Running
  <2>2. S!Known' \in S!Known + 1 .. R!Delivered
    BY <1>4
  <2>3. R!Delivered = Promise!Delivered(written, last_written = "eof")
    BY DEF R!Delivered, Promise!Delivered
  <2> QED
    BY <1>2, <2>1, <2>2, <2>3 DEF Promise!Next, Promise!Acknowledge, S!Known
<1>5. CASE ~S!Running'
  <2>1. S!Known' = S!Known
    BY <1>1, <1>5
  <2>2. /\ Verdict("sender")' \in {"done", "failed"}
        /\ Verdict("sender")' = "done" => s_pc' = "done"
    BY <1>5 DEF Verdict, Ended, S!Running
  <2>3. s_pc' = "done" => S!Known = NChunks + 1
    BY S!EndIsAcknowledged, SenderConstants DEF IInv, EofIsLast
  <2>4. Promise!SenderEnds(Verdict("sender")')
    BY <1>2, <2>1, <2>2, <2>3 DEF Promise!SenderEnds, S!Known
  <2> QED
    BY <2>2, <2>4 DEF Promise!Next
<1> QED
  BY <1>3, <1>4, <1>5

LEMMA SenderKeeps ==
  ASSUME InputFits, IInv, NEW d, d \in Feedback => R!Told(d), S!StepWith(d),
         NEW rest, NEW error, BagToSet(rest) \subseteq BagToSet(net), SenderMoves(rest, error),
         EofIsLast'
  PROVE  IInv' /\ [Promise!Next]_Promise!vars
<1>1. ProtocolInv /\ TimeInv
  BY DEF IInv, ProtocolInv
<1>2. /\ ProtocolInv'
      /\ \/ S!Known' = S!Known
         \/ /\ S!process_ack(d)
            /\ S!Known' \in Int /\ S!Known < S!Known' /\ S!Known' <= R!Delivered
  BY <1>1, SenderStep
<1>3. TimeInv'
  BY <1>1, SenderTime
<1>4. IInv'
  BY <1>2, <1>3 DEF IInv, ProtocolInv
<1>5. S!Known \in Int /\ R!Delivered \in Int
  <2>1. S!Running
    BY S!StepRuns, SenderConstants DEF IInv
  <2>2. S!Known \in Nat
    BY <2>1, Hypotheses, S!KnownIs, SenderConstants DEF IInv, S!SafeInv
  <2> QED
    BY <2>2, ReceiverCounters DEF IInv
<1>6. ReceiverQuiet /\ Capacity < SeqSpace
  BY Hypotheses DEF SenderMoves
<1> QED
  BY <1>2, <1>4, <1>5, <1>6, SenderImplements

LEMMA SenderReceivesKeeps ==
  ASSUME InputFits, IInv, NEW m \in BagToSet(net), SenderReceives(m)
  PROVE  IInv' /\ [Promise!Next]_Promise!vars
<1>1. OnItsWay(m) /\ m.to = "sender"
  BY DEF IInv, NetInv, SenderReceives
<1>2. m.d \in S!Arrivals /\ (m.d \in Feedback => R!Told(m.d))
  <2>1. m.d = Corrupt \/ (m.d \in Feedback /\ R!Told(m.d))
    BY <1>1 DEF OnItsWay
  <2>2. Corrupt \notin Feedback
    BY DEF Corrupt, Feedback
  <2> QED
    BY <2>1, <2>2, SameDatagrams DEF S!Arrivals
<1>3. S!StepWith(m.d)
  BY <1>2 DEF SenderReceives, S!StepWith
<1>4. EofIsLast'
  BY DEF IInv, EofIsLast, SenderReceives, S!SocketDrop, S!process_nack, S!process_ack,
         S!process_dup_ack, S!SocketAccept, S!input
<1> QED
  BY <1>2, <1>3, <1>4, WithoutIs, SenderKeeps DEF SenderReceives

LEMMA SenderWorksKeeps ==
  ASSUME InputFits, IInv, SenderWorks
  PROVE  IInv' /\ [Promise!Next]_Promise!vars
<1>1. Corrupt \notin Feedback
  BY DEF Corrupt, Feedback
<1>2. S!StepWith(Corrupt)
  BY DEF SenderWorks, S!StepWith, ReadResults, S!ReadResults
<1>3. EofIsLast'
  <2>1. CASE S!DoSend
    BY <2>1 DEF IInv, EofIsLast, S!DoSend, S!input
  <2>2. ASSUME NEW result \in ReadResults, S!HandleInputRead(result) PROVE EofIsLast'
    <3>1. nread' = nread + 1 /\ last_in_read' = result
      BY <2>2 DEF S!HandleInputRead
    <3>2. /\ last_in_read # "eof" /\ last_in_read # "error" /\ S!ReadsWithRoom /\ S!TypeOK
      BY <2>2 DEF S!HandleInputRead, IInv, S!SafeInv, S!IInv, S!ReadsWithRoom, S!Running, S!Terminal
    <3>3. nread \in 0 .. NChunks + 1 /\ nread <= NChunks /\ NChunks \in Nat
      BY <3>2, Hypotheses DEF S!TypeOK, S!ReadsWithRoom
    <3> QED
      BY <2>2, <3>1, <3>3 DEF EofIsLast, ReadResults
  <2> QED
    BY <2>1, <2>2 DEF SenderWorks
<1> QED
  BY <1>1, <1>2, <1>3, SenderKeeps DEF SenderWorks

LEMMA SenderFailsKeeps ==
  ASSUME InputFits, IInv, SenderTimeout \/ SenderError
  PROVE  IInv' /\ [Promise!Next]_Promise!vars
<1>1. Corrupt \notin Feedback
  BY DEF Corrupt, Feedback
<1>2. S!StepWith(Corrupt)
  BY DEF SenderTimeout, SenderError, S!StepWith
<1>3. UNCHANGED <<last_in_read, nread>>
  BY DEF SenderTimeout, SenderError, S!Timeout, S!SocketError, S!PollError, S!IdleTimeout,
         S!Abort, S!Retransmit, S!Overrun, S!Retry, S!TimerExpires, S!input
<1>4. EofIsLast'
  BY <1>3 DEF IInv, EofIsLast
<1> QED
  BY <1>1, <1>2, <1>4, SenderKeeps DEF SenderTimeout, SenderError

-----------------------------------------------------------------------------
(***************************************************************************)
(* The receiver's steps                                                    *)
(***************************************************************************)

\* After a step, too.
LEMMA NextCounters ==
  ASSUME InputFits
  PROVE  (R!IInv => R!Delivered \in Int /\ edge \in Int)'
<1>1. R!IInv => R!Delivered \in Int /\ edge \in Int
  BY ReceiverCounters
<1> QED
  BY <1>1, PTL

\* What is within a window is within a larger one.
LEMMA WithinGrows ==
  ASSUME InputFits, S!SafeInv, NEW e \in Int, NEW m \in Int, NEW w \in Int, S!Within(e, m, w),
         NEW e2 \in Int, NEW m2 \in Int, e <= e2, m <= m2
  PROVE  S!Within(e2, m2, w)
<1>1. S!Running => S!Known \in Nat /\ S!InFlight \in Nat
  BY Hypotheses, S!KnownIs, SenderConstants DEF S!SafeInv
<1>2. last_win \in Int
  BY SenderConstants DEF S!WindowAssumption, S!SafeInv, S!IInv, S!TypeOK, S!Windows
<1> QED
  BY <1>1, <1>2 DEF S!Within

\* A step of receive(), the others looking on: its answers tell the truth, and
\* what was told before stays true.
LEMMA ReceiverStep ==
  ASSUME InputFits, ProtocolInv, R!Next,
         NEW rest, NEW error, BagToSet(rest) \subseteq BagToSet(net), ReceiverMoves(rest, error)
  PROVE  /\ ProtocolInv' /\ S!Known' = S!Known
         /\ R!Delivered \in Int /\ R!Delivered' \in Int /\ R!Delivered <= R!Delivered'
<1>1. R!IInv'
  BY Hypotheses, R!NextInvariant, ReceiverConstants DEF ProtocolInv
<1>2. R!TellInv' /\ R!Delivered <= R!Delivered' /\ edge <= edge'
  BY <1>1, Hypotheses, R!NextTells, ReceiverConstants DEF ProtocolInv
<1>3. /\ R!Delivered \in Int /\ edge \in Int /\ R!Delivered' \in Int /\ edge' \in Int
      /\ max_window \in Int
  BY <1>1, ReceiverCounters, NextCounters, Hypotheses DEF ProtocolInv
<1>4. PICK e \in Int, m \in Int : e = edge' /\ m = R!Delivered'
  BY <1>3
<1>5. S!Within(e, m, max_window)
  <2>1. PICK e0 \in Int, m0 \in Int : e0 = edge /\ m0 = R!Delivered
    BY <1>3
  <2>2. S!Within(e0, m0, max_window)
    BY <2>1 DEF ProtocolInv
  <2>3. e0 <= e /\ m0 <= m
    BY <1>2, <1>4, <2>1
  <2> QED
    BY <1>3, <2>2, <2>3, WithinGrows DEF ProtocolInv
<1>6. S!SafeInv' /\ S!Within(e, m, max_window)' /\ S!Known' = S!Known
  BY <1>3, <1>5, S!Cleared, SenderConstants
  DEF ProtocolInv, ReceiverMoves, SenderQuiet, S!window, S!input
<1>7. S!Within(edge, R!Delivered, max_window)'
  BY <1>4, <1>6 DEF S!Within
<1>8. NetInv'
  <2>1. ASSUME NEW x \in BagToSet(net') PROVE x \in BagToSet(net) \/ OnItsWay(x)'
    <3>1. \/ x \in BagToSet(rest)
          \/ \E f \in r_out' : x = [to |-> "sender", d |-> f, age |-> 0]
      BY <2>1, PostedIs DEF ReceiverMoves
    <3>2. ASSUME NEW f \in r_out', x = [to |-> "sender", d |-> f, age |-> 0]
          PROVE  OnItsWay(x)'
      <4>1. /\ x.to = "sender" /\ x.d = f /\ x.age \in 0 .. MaxLatency
            /\ x = [to |-> x.to, d |-> x.d, age |-> x.age]
        BY <3>2, TransferAssumption
      <4>2. f \in Feedback /\ R!Told(f)'
        BY <1>1, <1>2, SameDatagrams DEF R!IInv, R!TypeOK, R!TellInv
      <4> QED
        BY <4>1, <4>2 DEF OnItsWay, Programs
    <3> QED
      BY <3>1, <3>2
  <2> QED
    BY <1>2, <1>3, <2>1, NetLasts DEF ProtocolInv
<1> QED
  BY <1>1, <1>2, <1>3, <1>6, <1>7, <1>8 DEF ProtocolInv

\* What a step of receive() is for the promise of both programs: the delivery
\* of a chunk, the end of the program, or nothing.
LEMMA ReceiverImplements ==
  ASSUME R!IInv, R!Next, SenderQuiet, S!Known' = S!Known
  PROVE  [Promise!Next]_Promise!vars
<1>1. /\ Verdict("sender")' = Verdict("sender")
      /\ nread' - S!Unacked' = nread - S!Unacked
  BY DEF SenderQuiet, Verdict, Ended, S!Known
<1>2. /\ r_pc \in R!Terminal => r_pc' = r_pc
      /\ r_pc \notin R!Terminal /\ r_pc' = "done" => last_written = "eof"
  BY R!EndIsComplete, ReceiverConstants
<1>3. CASE R!Drain
  <2>1. \/ /\ Len(written) < NChunks /\ written' = Append(written, Len(written))
           /\ last_written # "eof" /\ last_written' = "data"
        \/ /\ Len(written) = NChunks /\ written' = written
           /\ last_written # "eof" /\ last_written' = "eof"
    BY <1>3, R!DrainDelivers, ReceiverConstants
  <2>2. Verdict("receiver") = "running" /\ Verdict("receiver")' = "running"
    BY <1>3 DEF R!Drain, Verdict, Ended, R!Terminal
  <2>3. Promise!Deliver
    BY <1>1, <2>1, <2>2 DEF Promise!Deliver
  <2> QED
    BY <2>3 DEF Promise!Next
<1>4. CASE ~R!Drain
  <2>1. written' = written /\ (last_written' = "eof" <=> last_written = "eof")
    BY <1>4, R!OnlyDrainDelivers, ReceiverConstants
  <2>2. CASE Verdict("receiver")' = Verdict("receiver")
    BY <1>1, <2>1, <2>2 DEF Promise!vars
  <2>3. CASE Verdict("receiver")' # Verdict("receiver")
    <3>1. /\ Verdict("receiver") = "running"
          /\ Verdict("receiver")' \in {"done", "failed"}
          /\ Verdict("receiver")' = "done" => last_written = "eof"
      BY <1>2, <2>3 DEF Verdict, Ended
    <3>2. Promise!ReceiverEnds(Verdict("receiver")')
      BY <1>1, <2>1, <3>1 DEF Promise!ReceiverEnds
    <3> QED
      BY <3>1, <3>2 DEF Promise!Next
  <2> QED
    BY <2>2, <2>3
<1> QED
  BY <1>3, <1>4

LEMMA ReceiverKeeps ==
  ASSUME InputFits, IInv, R!Next,
         NEW rest, NEW error, BagToSet(rest) \subseteq BagToSet(net), ReceiverMoves(rest, error)
  PROVE  IInv' /\ [Promise!Next]_Promise!vars
<1>1. ProtocolInv /\ TimeInv /\ SenderQuiet
  BY DEF IInv, ProtocolInv, ReceiverMoves
<1>2. ProtocolInv' /\ S!Known' = S!Known
  BY <1>1, ReceiverStep
<1>3. TimeInv'
  BY <1>1, ReceiverTime
<1>4. EofIsLast'
  BY <1>1 DEF IInv, EofIsLast, SenderQuiet
<1>5. [Promise!Next]_Promise!vars
  BY <1>1, <1>2, ReceiverImplements DEF ProtocolInv
<1> QED
  BY <1>2, <1>3, <1>4, <1>5 DEF IInv, ProtocolInv

\* What is on its way to the receiver is what its model assumes of its peer.
LEMMA WayIsArrival ==
  ASSUME InputFits, IInv, NEW m \in BagToSet(net), m.to = "receiver"
  PROVE  m.d \in R!Arrivals
<1>1. Allowed(m.d)
  BY DEF IInv, NetInv, OnItsWay
<1>2. R!Delivered \in 0 .. NChunks + 1 /\ NChunks \in Nat /\ Lag \in Nat /\ NChunks + 1 <= Lag
  BY ReceiverCounters, Hypotheses DEF IInv
<1>3. CASE m.d = Corrupt
  BY <1>3, SameDatagrams DEF R!Arrivals
<1>4. ASSUME NEW c \in 0 .. NChunks, c < edge, m.d \in {Data(U8(c), c), R!Truncated(U8(c))}
      PROVE  m.d \in R!Arrivals
  <2>1. c \in {i \in 0 .. NChunks : R!Delivered - Lag <= i /\ i < edge}
    BY <1>2, <1>4
  <2> QED
    BY <1>4, <2>1, SameDatagrams DEF R!Arrivals
<1> QED
  BY <1>1, <1>3, <1>4 DEF Allowed

\* The steps of receive().
LEMMA ReceiverReceivesKeeps ==
  ASSUME InputFits, IInv, NEW m \in BagToSet(net), ReceiverReceives(m)
  PROVE  IInv' /\ [Promise!Next]_Promise!vars
<1>1. m.d \in R!Arrivals
  BY WayIsArrival DEF ReceiverReceives
<1>2. R!Next
  BY <1>1 DEF ReceiverReceives, R!Next
<1> QED
  BY <1>2, WithoutIs, ReceiverKeeps DEF ReceiverReceives

LEMMA ReceiverWorksKeeps ==
  ASSUME InputFits, IInv, ReceiverWorks \/ ReceiverTimeout \/ ReceiverError \/ LingerError
  PROVE  IInv' /\ [Promise!Next]_Promise!vars
<1>1. R!Next
  BY DEF ReceiverWorks, ReceiverTimeout, ReceiverError, LingerError, R!Next
<1>2. CASE ReceiverWorks
  BY <1>1, <1>2, ReceiverKeeps DEF ReceiverWorks
<1>3. CASE ReceiverTimeout \/ ReceiverError \/ LingerError
  BY <1>1, <1>3, ReceiverKeeps DEF ReceiverTimeout, ReceiverError, LingerError
<1> QED
  BY <1>1, <1>2, <1>3

-----------------------------------------------------------------------------
(***************************************************************************)
(* The network's steps                                                     *)
(***************************************************************************)

\* A step of the network or of time, both programs looking on.
LEMMA NetworkStep ==
  ASSUME InputFits, ProtocolInv, SenderQuiet, ReceiverQuiet,
         \A x \in BagToSet(net') : x \in BagToSet(net) \/ OnItsWay(x)
  PROVE  /\ ProtocolInv' /\ S!Known' = S!Known
         /\ R!Delivered' = R!Delivered
<1>1. /\ R!Delivered \in Int /\ edge \in Int /\ max_window \in Int
  BY ReceiverCounters, Hypotheses DEF ProtocolInv
<1>2. R!IInv' /\ R!TellInv' /\ R!Delivered' = R!Delivered /\ edge' = edge
  BY R!Cleared, ReceiverConstants DEF ProtocolInv, ReceiverQuiet, R!reply, R!output
<1>3. PICK e \in Int, m \in Int : e = edge /\ m = R!Delivered
  BY <1>1
<1>4. S!SafeInv' /\ S!Within(e, m, max_window)' /\ S!Known' = S!Known
  BY <1>1, <1>3, S!Cleared, SenderConstants
  DEF ProtocolInv, SenderQuiet, S!window, S!input
<1>5. S!Within(edge, R!Delivered, max_window)'
  BY <1>2, <1>3, <1>4 DEF S!Within
<1>6. NetInv'
  <2>1. \A x \in BagToSet(net') : x \in BagToSet(net) \/ OnItsWay(x)'
    BY <1>1, <1>2, WayLasts
  <2> QED
    BY <1>1, <1>2, <2>1, NetLasts DEF ProtocolInv
<1> QED
  BY <1>2, <1>4, <1>5, <1>6 DEF ProtocolInv

\* What a fault makes of a datagram can be on its way.
LEMMA FaultyIs ==
  ASSUME NetInv, NEW m \in BagToSet(net), m.d # Corrupt,
         NEW bag \in Faulty(m), NEW x \in BagToSet(bag)
  PROVE  x \in BagToSet(net) \/ OnItsWay(x)
<1>1. OnItsWay(m)
  BY DEF NetInv
<1>2. CASE bag = Without(m)
  BY <1>2, WithoutIs
<1>3. CASE bag = Without(m) (+) SetToBag({[m EXCEPT !.d = Corrupt]})
  <2>1. x \in BagToSet(Without(m)) \/ x = [m EXCEPT !.d = Corrupt]
    BY <1>3, AddedIs
  <2>2. ASSUME x = [m EXCEPT !.d = Corrupt] PROVE OnItsWay(x)
    <3>1. x = [to |-> m.to, d |-> Corrupt, age |-> m.age]
      BY <1>1, <2>2 DEF OnItsWay
    <3> QED
      BY <1>1, <3>1 DEF OnItsWay, Allowed
  <2> QED
    BY <2>1, <2>2, WithoutIs
<1>4. CASE /\ m.d.type = "DATA"
           /\ bag = Without(m) (+) SetToBag({[m EXCEPT !.d = R!Truncated(m.d.seq)]})
  <2>1. x \in BagToSet(Without(m)) \/ x = [m EXCEPT !.d = R!Truncated(m.d.seq)]
    BY <1>4, AddedIs
  <2>2. ASSUME x = [m EXCEPT !.d = R!Truncated(m.d.seq)] PROVE OnItsWay(x)
    <3>1. x = [to |-> m.to, d |-> R!Truncated(m.d.seq), age |-> m.age]
      BY <1>1, <2>2 DEF OnItsWay
    <3>2. m.to = "receiver"
      BY <1>1, <1>4 DEF OnItsWay, Programs, Corrupt, Feedback
    <3>3. PICK c \in 0 .. NChunks : c < edge /\ m.d = Data(U8(c), c)
      BY <1>1, <1>4, <3>2 DEF OnItsWay, Allowed, Corrupt, R!Truncated
    <3>4. m.d.seq = U8(c)
      BY <3>3 DEF Data
    <3>5. Allowed(R!Truncated(m.d.seq))
      BY <3>3, <3>4 DEF Allowed
    <3> QED
      BY <1>1, <3>1, <3>2, <3>5 DEF OnItsWay
  <2> QED
    BY <2>1, <2>2, WithoutIs
<1> QED
  BY <1>2, <1>3, <1>4 DEF Faulty

\* One step of a clock that is not due yet.
LEMMA OneMore ==
  ASSUME NEW limit \in Nat, NEW timer \in 0 .. limit
  PROVE  timer < limit => timer + 1 \in 0 .. limit
OBVIOUS

LEMMA TickTime ==
  ASSUME TimeInv, Tick
  PROVE  TimeInv'
<1>1. /\ RTO \in Nat /\ IdleTime \in Nat /\ Linger \in Nat
      /\ s_timer \in 0 .. RTO
      /\ r_timer \in 0 .. IF IdleTime < Linger THEN Linger ELSE IdleTime
  BY TransferAssumption DEF TimeInv
<1>2. s_timer' \in 0 .. RTO
  <2>1. s_pc = "poll" => s_timer < RTO
    BY DEF Tick, Idle, Ended, S!Terminal
  <2> QED
    BY <1>1, <2>1 DEF Tick
<1>3. r_timer' \in 0 .. IF IdleTime < Linger THEN Linger ELSE IdleTime
  <2>1. /\ r_pc = "poll" => r_timer < IdleTime
        /\ r_pc = "linger" => r_timer < Linger
    BY DEF Tick, Idle, Ended, R!Terminal
  <2> QED
    BY <1>1, <2>1 DEF Tick
<1> QED
  BY <1>2, <1>3 DEF Tick, TimeInv

LEMMA TickOlder ==
  ASSUME NetInv, Tick, NEW x \in BagToSet(net')
  PROVE  OnItsWay(x)
<1>1. PICK m \in BagToSet(net) : x = [m EXCEPT !.age = @ + 1]
  BY OlderIs DEF Tick
<1>2. OnItsWay(m) /\ m.age \in 0 .. MaxLatency /\ m.age < MaxLatency
  BY DEF NetInv, OnItsWay, Tick, Idle
<1>3. x = [to |-> m.to, d |-> m.d, age |-> m.age + 1]
  BY <1>1, <1>2 DEF OnItsWay
<1>4. m.age + 1 \in 0 .. MaxLatency
  BY <1>2, TransferAssumption
<1> QED
  BY <1>2, <1>3, <1>4 DEF OnItsWay

\* The steps of the network and of time.
LEMMA NetworkKeeps ==
  ASSUME InputFits, IInv,
         \/ \E m \in BagToSet(net) : ReceiverIgnores(m) \/ Unreachable(m) \/ NetworkFault(m)
         \/ Tick
  PROVE  IInv' /\ [Promise!Next]_Promise!vars
<1>1. ProtocolInv /\ NetInv /\ TimeInv
  BY DEF IInv, ProtocolInv
<1>2. SenderQuiet /\ ReceiverQuiet
  BY DEF ReceiverIgnores, Unreachable, NetworkFault, Tick
<1>3. \A x \in BagToSet(net') : x \in BagToSet(net) \/ OnItsWay(x)
  <2>1. ASSUME NEW m \in BagToSet(net), ReceiverIgnores(m) \/ Unreachable(m)
        PROVE  BagToSet(net') \subseteq BagToSet(net)
    BY <2>1, WithoutIs DEF ReceiverIgnores, Unreachable
  <2>2. ASSUME NEW m \in BagToSet(net), NetworkFault(m), NEW x \in BagToSet(net')
        PROVE  x \in BagToSet(net) \/ OnItsWay(x)
    BY <1>1, <2>2, FaultyIs DEF NetworkFault
  <2>3. ASSUME Tick, NEW x \in BagToSet(net') PROVE OnItsWay(x)
    BY <1>1, <2>3, TickOlder
  <2> QED
    BY <2>1, <2>2, <2>3
<1>4. ProtocolInv' /\ S!Known' = S!Known
  BY <1>1, <1>2, <1>3, NetworkStep
<1>5. TimeInv'
  <2>1. CASE Tick
    BY <1>1, <2>1, TickTime
  <2>2. ASSUME NEW m \in BagToSet(net), ReceiverIgnores(m) \/ Unreachable(m) \/ NetworkFault(m)
        PROVE  TimeInv'
    <3>1. UNCHANGED <<s_timer, r_timer, broken>>
      BY <2>2 DEF ReceiverIgnores, Unreachable, NetworkFault
    <3>2. refused' \subseteq Programs
      BY <1>1, <2>2 DEF TimeInv, ReceiverIgnores, Unreachable, NetworkFault, Peer, Programs
    <3>3. faults' \in 0 .. MaxFaults
      BY <1>1, <2>2, TransferAssumption
      DEF TimeInv, ReceiverIgnores, Unreachable, NetworkFault
    <3> QED
      BY <1>1, <3>1, <3>2, <3>3 DEF TimeInv
  <2> QED
    BY <2>1, <2>2
<1>6. EofIsLast'
  BY <1>2 DEF IInv, EofIsLast, SenderQuiet
<1>7. UNCHANGED Promise!vars
  BY <1>2, <1>4
  DEF Promise!vars, SenderQuiet, ReceiverQuiet, Verdict, Ended, S!Known
<1> QED
  BY <1>4, <1>5, <1>6, <1>7 DEF IInv, ProtocolInv

-----------------------------------------------------------------------------
(***************************************************************************)
(* The invariant holds                                                     *)
(***************************************************************************)

LEMMA InitInvariant ==
  ASSUME InputFits, Init
  PROVE  IInv /\ S!Known = 0 /\ R!Delivered = 0
<1>1. R!IInv
  BY R!InitInvariant, ReceiverConstants DEF Init
<1>2. /\ R!Delivered = 0 /\ edge = 1
      /\ R!TellInv
  BY DEF Init, R!Init, R!Delivered, R!TellInv, R!Answers, R!NackIsNamed
<1>3. /\ S!SafeInv /\ S!Known = 0
      /\ S!Within(edge, R!Delivered, max_window)
  <2>1. PICK e \in Int, m \in Nat : e = edge /\ m = R!Delivered
    BY <1>2
  <2>2. 1 <= e /\ max_window \in Int /\ Capacity < SeqSpace /\ S!Init
    BY <1>2, <2>1, Hypotheses DEF Init
  <2>3. S!SafeInv /\ S!Within(e, m, max_window) /\ S!Known = 0
    BY <2>2, S!InitWithin, SenderConstants
  <2> QED
    BY <2>1, <2>3 DEF S!Within
<1>4. NetInv
  BY DEF Init, NetInv, EmptyBag, SetToBag, BagToSet
<1>5. EofIsLast
  BY DEF Init, S!Init, EofIsLast
<1>6. TimeInv
  <2>1. /\ 0 \in 0 .. RTO /\ 0 \in 0 .. MaxFaults
        /\ 0 \in 0 .. IF IdleTime < Linger THEN Linger ELSE IdleTime
    BY TransferAssumption
  <2> QED
    BY <2>1 DEF Init, TimeInv
<1> QED
  BY <1>1, <1>2, <1>3, <1>4, <1>5, <1>6 DEF IInv

LEMMA KeepStutter ==
  ASSUME InputFits, IInv, UNCHANGED vars
  PROVE  IInv' /\ [Promise!Next]_Promise!vars
<1>1. /\ UNCHANGED S!vars /\ UNCHANGED R!vars
      /\ UNCHANGED <<net, s_timer, r_timer, refused, faults, broken>>
  BY DEF vars, around
<1>2. R!IInv' /\ R!TellInv'
  BY <1>1, Hypotheses, R!NextInvariant, R!NextTells, ReceiverConstants DEF IInv
<1>3. S!SafeInv'
  BY <1>1, Hypotheses, S!NextInvariant, S!NextHistory, S!NextDoesNotStall, SenderConstants
  DEF IInv, S!SafeInv
<1>4. UNCHANGED <<S!Known, S!InFlight, last_win, last_in_read, nread, edge, R!Delivered, s_pc>>
  BY <1>1 DEF S!vars, S!window, S!input, S!Known, S!Unacked, S!InFlight,
              R!vars, R!output, R!Delivered
<1>5. S!Within(edge, R!Delivered, max_window)'
  BY <1>4 DEF IInv, S!Within, S!Running
<1>6. NetInv'
  BY <1>1, <1>4, ReceiverCounters, NetLasts DEF IInv
<1>7. EofIsLast'
  BY <1>4 DEF IInv, EofIsLast
<1>8. TimeInv'
  BY <1>1 DEF IInv, TimeInv
<1>9. UNCHANGED Promise!vars
  BY <1>1 DEF Promise!vars, Verdict, Ended, S!Unacked, S!vars, S!window, S!input,
              R!vars, R!output
<1> QED
  BY <1>2, <1>3, <1>5, <1>6, <1>7, <1>8, <1>9 DEF IInv

\* Every step keeps the invariant and the promise.
LEMMA NextKeeps ==
  ASSUME InputFits, IInv, [Next]_vars
  PROVE  IInv' /\ [Promise!Next]_Promise!vars
<1> DEFINE Kept == IInv' /\ [Promise!Next]_Promise!vars
<1>1. CASE UNCHANGED vars
  BY <1>1, KeepStutter
<1>2. ASSUME NEW m \in BagToSet(net), SenderReceives(m) PROVE Kept
  BY <1>2, SenderReceivesKeeps
<1>3. CASE SenderWorks \/ SenderTimeout \/ SenderError
  BY <1>3, SenderWorksKeeps, SenderFailsKeeps
<1>4. ASSUME NEW m \in BagToSet(net), ReceiverReceives(m) PROVE Kept
  BY <1>4, ReceiverReceivesKeeps
<1>5. CASE ReceiverWorks \/ ReceiverTimeout \/ ReceiverError \/ LingerError
  BY <1>5, ReceiverWorksKeeps
<1>6. ASSUME NEW m \in BagToSet(net), ReceiverIgnores(m) \/ Unreachable(m) \/ NetworkFault(m)
      PROVE  Kept
  BY <1>6, NetworkKeeps
<1>7. CASE Tick
  BY <1>7, NetworkKeeps
<1> HIDE DEF Kept
<1> QED
  BY <1>1, <1>2, <1>3, <1>4, <1>5, <1>6, <1>7 DEF Next, Kept

-----------------------------------------------------------------------------
(***************************************************************************)
(* Theorems                                                                *)
(***************************************************************************)

\* IInv is an invariant of the transfer, whatever the network does to the
\* datagrams and whichever system calls fail.
THEOREM TransferInvariant ==
  ASSUME InputFits
  PROVE  Spec => []IInv
<1>1. Init => IInv
  BY InitInvariant
<1>2. IInv /\ [Next]_vars => IInv'
  BY NextKeeps
<1> QED
  BY <1>1, <1>2, PTL DEF Spec

\* The variables of both programs, the datagrams of the network and the timers
\* keep their types.
THEOREM TransferTypeOK ==
  ASSUME InputFits
  PROVE  Spec => []TypeOK
<1>1. ASSUME IInv PROVE TypeOK
  <2>1. S!TypeOK /\ R!TypeOK
    BY <1>1 DEF IInv, S!SafeInv, S!IInv, R!IInv
  <2>2. ASSUME NEW m \in BagToSet(net)
        PROVE  /\ m.to \in Programs /\ m.age \in 0 .. MaxLatency
               /\ m.d = Corrupt \/ m.d.seq \in SeqNums
    <3>1. OnItsWay(m)
      BY <1>1 DEF IInv, NetInv
    <3>2. \A c \in 0 .. NChunks : U8(c) \in SeqNums
      <4>1. \A c \in 0 .. NChunks : c \in Int
        BY Hypotheses
      <4> QED
        BY <4>1, S!U8Type, SenderConstants DEF SeqNums, S!SeqNums, U8, S!U8
    <3>3. m.to = "receiver" => m.d = Corrupt \/ m.d.seq \in SeqNums
      BY <3>1, <3>2 DEF OnItsWay, Allowed, Data, R!Truncated
    <3>4. m.to = "sender" => m.d = Corrupt \/ m.d.seq \in SeqNums
      BY <3>1 DEF OnItsWay, Feedback
    <3> QED
      BY <3>1, <3>3, <3>4 DEF OnItsWay, Programs
  <2> QED
    BY <1>1, <2>1, <2>2 DEF TypeOK, IInv, TimeInv
<1>2. IInv => TypeOK
  BY <1>1
<1> QED
  BY <1>2, TransferInvariant, PTL

\* The sender keeps to the windows the receiver told it, with all that
\* transmit() sends again: what reaches the receiver is what the theorems about
\* receive() assume of it.
THEOREM TransferPeerKeepsPromise ==
  ASSUME InputFits
  PROVE  Spec => []PeerKeepsPromise
<1>1. IInv => PeerKeepsPromise
  BY WayIsArrival DEF PeerKeepsPromise
<1> QED
  BY <1>1, TransferInvariant, PTL

\* transmit() and receive() together transfer the file: the output grows by the
\* chunks of the input in order, what the sender takes for acknowledged is in
\* it, and neither reports success before the output is complete.
THEOREM TransferImplementsReliableTransfer ==
  ASSUME InputFits
  PROVE  Spec => ImplementsReliableTransfer
<1>1. Init => Promise!Init
  <2>1. ASSUME Init PROVE Promise!Init
    <3>1. nread - S!Unacked = 0
      BY <2>1, InitInvariant DEF S!Known
    <3>2. Verdict("sender") = "running" /\ Verdict("receiver") = "running"
      BY <2>1 DEF Init, S!Init, R!Init, Verdict, Ended, S!Terminal, R!Terminal
    <3> QED
      BY <2>1, <3>1, <3>2 DEF Init, R!Init, Promise!Init
  <2> QED
    BY <2>1
<1>2. IInv /\ [Next]_vars => [Promise!Next]_Promise!vars
  BY NextKeeps
<1> QED
  BY <1>1, <1>2, TransferInvariant, PTL
  DEF Spec, ImplementsReliableTransfer, Promise!Spec

=============================================================================
