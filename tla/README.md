# A formal model of the TRTP reference implementation

TRTP is a reliable transfer of one file over UDP: selective repeat, a receive
window of at most 31 packets, 8-bit sequence numbers, cumulative
acknowledgments, and a negative one for a packet whose payload a router cut.
This directory models the C programs of `src/reference-implementation`: TLA+
modules, the TLC configurations that check them and the TLAPS proofs about the
packet buffer, the sender, the receiver, the transfer of a file by the two and
the start of a program. Source paths below are relative to
`src/reference-implementation/src` unless they say otherwise.

## 1. The system

| part | state | operations | interacts with |
|---|---|---|---|
| packet buffer (`common/pktbuf.c`) | a ring of slots, two `uint32_t` counters `first` and `last` | `pktbuf_enqueue`, `pktbuf_dequeue`, `pktbuf_slotfor_seq`, `pktbuf_at`, `pktbuf_first`, `pktbuf_last` | called by both programs |
| sender (`sender/transmit.c`) | the ring, `last_ack`, `last_win`, `last_sent`, `last_chunk_read`, `dup_ack`, `retry_count`, `last_in_read`, which descriptors it polls | the loop of `transmit`: `handle_socket_read` (`process_ack`, `process_dup_ack`, `process_nack`), `handle_input_read`, `do_send_sbuf`, `handle_retransmission` | input file, socket, a 4 s timer |
| receiver (`receiver/receive.c`) | the ring, `oos_mask`, `expected_seq`, `need_ack`, `need_nack`, `nack_seq`, `last_written_len` | `net_wait_and_connect`, the loop of `receive`: `do_read_sock` (`process_incoming_pkt`, `discard_incoming_data`), `do_empty_rbuf`, `send_ack`, `send_nack`, the last ACKs | output file, socket, timers of 10 s (idle) and 3 s (linger) |
| network access (`common/net.c`) | the socket, the address of the peer | `net_recv_pkt` (decode, then the window check), `net_send`, `net_wait_and_connect`, `net_open_socket`, `net_close_socket` | both programs |
| packet codec (`common/packet_implem.c`) | the memory of a `struct pkt` | `pkt_encode`, `pkt_encode_inline`, `pkt_decode`, `pkt_decode_inline`, setters and accessors | `net.c`, both programs |
| command lines (`sender/main.c`, `receiver/main.c`) | what `main` holds: file, ring, socket; `err` | `parse_options`, `pktbuf_new`, `net_open_socket`, the labels at the end | starts the loops, exit status |
| evaluation harness (`src/evaluation/evaluate.py`) | child processes, table of results | `popen`, `call`, `run`, `exec_tests` | starts both programs and a link simulator (an external submodule) |
| dissector (`src/dissector-LINGI1341.lua`) | none | displays captured packets | Wireshark |

Each program is one process with one thread and a `poll` loop; the two
programs share nothing but datagrams. The hard behaviour is in the orders of
datagrams, of readiness of the files and of expirations of the timers:

* the network loses, corrupts, cuts, delays and reorders, and retransmission
  duplicates (`src/statement/statement.tex:187-197`);
* one iteration of a loop runs several handlers, and the decision what to poll
  next is taken at the end of one iteration and used in the next;
* sequence numbers and ring counters wrap; the ring relates the two by
  counting, so that an error in one of them shows only much later;
* a slot is used before the datagram in it is known to be valid, and keeps
  stale content after it was freed;
* retries are counted in four places (`retry_count`, `dup_ack`,
  `net_wait_and_connect`, the last ACKs), each with a limit, and timed by three
  timers (4, 10 and 3 s) of which no two agree;
* when one program ends, the other's socket reports an error;
* packets are encoded and decoded in place, in memory that held other packets.

What makes each part correct:

* **packet buffer**: it is a bounded FIFO queue of consecutive sequence
  numbers, and a slot asked for by number is the slot of that number;
* **sender**: slots, counters and sequence numbers describe one window of the
  input; `do_send_sbuf` sends nothing outside the window (a NACK or the timer
  may), nothing that goes on the wire is acknowledged already, nothing
  unacknowledged is forgotten; a packet the window allows does not wait; a
  silent peer ends it;
* **receiver**: the output is a prefix of the input and complete at the end;
  only what is held is acknowledged; it cannot fill its buffer with packets that
  wait for a missing one; no ACK takes back what an earlier one allowed; what an
  output refused is written once it takes data again;
* **both programs together**: what the sender counts as acknowledged is in the
  output, who reports success left a complete output, one fault of the network
  does not prevent it (two can), and neither waits for ever for the other;
* **network access**: an old or corrupted datagram never counts as a new one;
  the receiver answers the host that spoke to it;
* **codec**: what is encoded decodes to itself, a change is detected, and a cut
  is recognised;
* **start and end**: the loops start with the ring and the window they rely on;
  what was acquired is released, except by an exit inside the loops; the exit
  status is the result;
* **harness**: whatever fails, the processes are stopped and a result recorded.

`PROJECT.json` lists the places where these can go wrong ("hazards"), each with
the properties that cover it.

## 2. The modules

| module | what it is | EXTENDS / INSTANCE |
|---|---|---|
| `SeqNum` | 8-bit sequence numbers and their difference | Integers |
| `PktBuf` | the ring and its functions, as operators on a record | SeqNum |
| `PacketQueue` | abstract: the bounded queue the ring promises | SeqNum |
| `PktBufOps` | the ring as a state machine under its callers' preconditions | PktBuf, PacketQueue |
| `Packet` | the codec, as operators on the memory of a packet | Naturals, Sequences |
| `PacketOps` | the life of a packet: set, encoded, cut or damaged, decoded | Packet |
| `Wire` | datagrams and the window check of `net_recv_pkt` | SeqNum |
| `SlidingWindow` | abstract: what a sender promises | Integers |
| `Sender` | `transmit()` and its handlers | PktBuf, Wire, SlidingWindow |
| `MCSender` | what comments say of the sender and the code does not do | Sender |
| `Receiver` | `receive()`, its handlers, `net_wait_and_connect` | PktBuf, Wire |
| `ReliableTransfer` | abstract: what the two programs promise together | Naturals, Sequences |
| `Transfer` | the two programs, the network between them, and time | SenderRefinement (Sender), ReceiverProofs (Receiver), ReliableTransfer, Wire, Bags |
| `Startup` | from `main` to `exit`: options, ring, socket, peer, release | Naturals |
| `RingLemmas` | arithmetic of `%`, and what the functions of the ring do to its slots | PktBuf, TLAPS |
| `PacketProofs` | the codec's inductive invariant and its properties | PacketOps, TLAPS |
| `PktBufProofs` | the ring's inductive invariant, and that it implements the queue | PktBufOps, RingLemmas |
| `SenderProofs` | the sender's inductive invariant | Sender, RingLemmas |
| `SenderRefinement` | what holds under assumptions on the constants: the sender implements `SlidingWindow`, two more invariants, and what it does with a peer that tells the truth | SenderProofs |
| `ReceiverProofs` | the receiver's inductive invariant, its properties, and what its answers tell | Receiver, RingLemmas |
| `TransferProofs` | the invariant of both programs and the network; they implement `ReliableTransfer` | Transfer, TLAPS |
| `StartupProofs` | the invariants of `main` | Startup, TLAPS |

Operators whose name starts with `Mutant` are deliberately wrong variants of the
definition that follows them (a dropped guard, an off-by-one, a missing reset).
No specification uses them. Put in the place of that definition, each makes TLC
report the property named with it in `PROJECT.json` ("mutants"): the property
does constrain the code.

### The correspondence with the code

*The ring.* A `pktbuf_t` is the record `[first, last, head]`, a slot a record
with the field `seq` and, for the two programs, the number of the chunk its
payload holds (`-1`: nothing that decodes). The release build is modelled:
`ASSERT` is empty there (`common/macros.h:39-43`), `ASSERT_ALWAYS` ends the
process. `pktbuf_slotfor_seq` is split into the ring it leaves (`SlotReserved`)
and the slot it returns (`SlotIndex`). `IdxSpace` is 2^32.

*Payloads.* Chunk `n` is what the `n`-th `read` of the input returned; the empty
chunk at the end has the next number. A datagram that does not decode is
`Corrupt`. The sender encodes a packet when it reads it, so what it later sends
from a slot decodes only if the slot still has the sequence number it was
encoded with (`Frame`).

*The sender.* `pc` splits an iteration of the loop where the environment has a
choice: what `poll` reports ("poll"), the read of the input ("input"), the
writes to the socket ("send"). Each handler is one action: `SocketDrop`,
`SocketError`, `process_ack`, `process_dup_ack`, `process_nack`,
`HandleInputRead`, `DoSend` (with the decision what to poll next and the end of
the loop), `IdleTimeout`, `Abort`, `Retransmit`, `Overrun`, `PollError`. A write
may fail at any packet; the process then ends in `failed`. `exited` is the
ASSERT_ALWAYS, `crashed` a NULL pointer that is read, `looping` a loop that does
not end. `Overrun` is the whole run of the loop that misses its end: the slot
reserved at offset `Capacity` takes the place of the first one, whose number the
next offset is then counted from, so that the assertion lets a second round
pass and ends the process after `2 * Capacity + 1` writes. `nread` and `out` are history variables: how many chunks were read, and
what the last step put on the wire. The peer may send any feedback at any time.

*The receiver.* `pc` is "wait" (`net_wait_and_connect`), then "poll" (a datagram
is read or the output is ready), "drain" (`do_empty_rbuf`, one packet of its
loop per step), "reply" (ACK and NACK, end of the iteration), "linger" (the last
ACKs). At each packet in sequence the output may take it, refuse it or fail.
`AssertFails` is the exit by the assertion of `pktbuf_slotfor_seq`, `LingerFail`
a `poll` that fails while the last ACKs are sent. `written` is the output.
`edge` is a history variable of the windows that were advertised: the peer sends
nothing past it, starting with the window of 1 that the protocol prescribes
(`src/statement/statement.tex:102-104`), and nothing older than `Lag` chunks is
still in the network.

*Both programs.* `Transfer` has an instance `S` of `Sender` and one `R` of
`Receiver`, each with its variables (of the modules with the theorems about
them, so that `TransferProofs` can use these; the specification only uses what
`Sender` and `Receiver` define); its actions are theirs, with datagrams
that come from the bag `net` and go to it. The unit of time is a second. A
program takes no time; time passes (`Tick`) when both wait in `poll` and
nothing is due: no timer has expired (`RTO` 4, `IdleTime` 10, `Linger` 3, the
code's values), no datagram is `MaxLatency` old (2,
`src/statement/statement.tex:197`), no error of a socket is unread. Before that
a datagram may arrive at any time and in any order, once. The network may lose,
damage or cut a datagram; a system call may fail; one budget, `MaxFaults`,
counts both, and `broken` tells whether a system call was among them. A datagram
for a program that has ended leaves an error on its peer's socket, or nothing.
While the receiver lingers it does not read its socket (`receive.c:312`), so
that `poll` returns at once from the first datagram on: `pending`.

*Packets.* In `Packet` a `struct pkt` is a sequence of cells in the layout of
the code, with the payload at its largest and `crc2` behind it. Encoding and
decoding change it in place, statement by statement where the order matters
(the length is swapped before CRC1 and after every check, TR is zeroed and put
back, CRC2 has two places). A CRC is the sequence it was computed of, in two
cells that the two byte orders swap: a damaged cell never has the right one. A
slot that receives a datagram holds a packet from before.

*Start and end.* `Startup` is one process of either program (`role`); `pc` names
the labels of `main`. What a library call may answer is nondeterministic. Of the
address of a datagram only what `recvfrom` stores is known (`AddressRead`): it is
given room for 4 bytes at first, and an IPv6 address starts at byte 8. The loops
are what they come to (`LoopEnds`): success, a failure that is returned, or the
end of the process inside them (`LoopIsKilled`).

## 3. The runs

`tlc -config X.cfg M` checks module M. All sizes are small, the shape is the
code's: `SeqSpace` (256) is 8, `IdxSpace` (2^32) is 8, so that sequence numbers
and ring counters both wrap within the nine chunks of an input; the ring is
smaller than the sequence space and larger than the window, as with the
programs' defaults (32 slots, windows up to 31).

| run | module, cfg | shows | distinct states |
|---|---|---|---|
| pktbuf | PktBufOps, MCPktBufOps | the ring implements `PacketQueue` from every reachable state, with four slots and counters that wrap after eight; a slot asked for by number is that slot | 80 192 |
| packet | PacketOps, MCPacketOps | any packet the setters can build, cut, damaged or shortened up to twice, decoded into a fresh or a used slot: `RoundTrip`, `CutIsRecognised`, `DamageIsDetected`; both encoders write the same bytes (`EncodersAgree`) | 1 670 560 |
| sender | MCSender, MCSender | for an arbitrary peer, the input a pipe: the ring is the window of the input (`BufferIsWindow`); the input is read only with room for it (`ReadsWithRoom`); nothing waits that the window allows (`NoStall`); `SlidingWindow` is implemented; once the peer is silent the sender ends, in whatever state that finds it. Windows up to 5 exceed the ring of 4 | 24 452 |
| receiver | Receiver, MCReceiver | the mask, the ring and `expected_seq` agree; the output is a prefix of the input and complete at the end; only what is held is acknowledged; a full buffer can be emptied; no ACK takes back what an earlier one allowed (`WindowIsNotTakenBack`) | 6 270 |
| receiver_nonblocking | Receiver, MCReceiverNonBlocking | an output opened with O_NONBLOCK by another process, a window of 3: what it refuses is written once it takes data again, without a further datagram (`RefusedIsWritten`). Nothing else is claimed of such an output (section 6) | 64 967 |
| transfer | Transfer, MCTransfer | both programs: they implement `ReliableTransfer` whatever is lost, damaged, cut or fails; one fault of the network does not keep the output from being completed; once they have met, both end; without faults on a fast network the sender succeeds and its timer has nothing to resend | 116 849 |
| startup | Startup, MCStartup | what the loops rely on, what is released, what the exit status tells, for all options and failures | 3 102 |
| sender_timer | MCSender, MCSenderTimer | fails, see section 6 | |
| sender_nack | MCSender, MCSenderNack | fails | |
| sender_dupack | Sender, MCSenderDupAck | fails | |
| receiver_blocked | Receiver, MCReceiverBlocked | fails | |
| startup_connect | Startup, MCStartupConnect | fails | |

Bounds. `NChunks` bounds the input: nine chunks and the empty one wrap a
sequence space of eight and a ring of four twice; what the sender does depends
on the number of chunks only through sequence numbers, the ring and the end of
the input. `MaxDupAck` and `MaxRetransmission` are 2 or 3 where the code has 3
and 5: both counters start again from any state. `max_window` is 3 with a ring
of 4 slots and a mask of 4 bits, as 31 with 32 slots and 32 bits: the limits
meet in the same places. `Lag` is 4: with it the oldest packet of the network is
as far behind as the window check can tell (`Lag + window < SeqSpace`); beyond
it an old packet is taken for a new one, which is a hazard of the protocol and
not of this code. TLC finds `MaskDescribesBuffer`, `OutputIsPrefix` and others violated with a `Lag`
of 5. A pipe may answer like a file, except that a file is read in every
iteration that has room: what only holds then is proved
(`SenderFastRetransmit`).

The run `receiver` has an output that blocks, as the receiver leaves it: no
packet in sequence stays in the buffer over a datagram, and every answer
announces the whole window. `receiver_nonblocking` has the window of 3, too, and
an input of three chunks and the empty one: with such an output
`expected_seq` runs away (section 6), the states multiply, and the other
properties are false.

`transfer` has two chunks and the empty one, a window of 2, the code's retry
limits and timers, and one fault. That is enough for reordering inside a window,
each kind of fault at each datagram (a lost last ACK and a lost first packet are
among them), cumulative ACKs, every timer, and a program that ends before the
other; the sequence numbers do not wrap. That the sender keeps what the receiver's
model assumes of it (`PeerKeepsPromise`) is not a property of this run: these
bounds could hardly violate it. It is proved for inputs whose numbers do not
repeat (section 4), and false without such a limit: a packet that is sent again
at once may spend 2 s in the network while more than `Lag` that follow it pass.
Nothing in the code bounds this; with 256 numbers it takes a network that passes
more than two hundred packets in that time. Three chunks have 417 712 states and hold
the properties of this run, too. With two faults `OutputCompletes` is
false: two losses of one packet outlast `IDLE_TIME` (section 6).

`packet` has cells of two values, payloads of up to two cells and windows of 0
and 1: lengths 1 and 2 are each other's image in the other byte order, and a
length larger than the maximum exists. Two faults allow a cut that is damaged
and two damages that might cancel.

`startup` reads two options out of sizes that are 0, small, not a power of two,
and larger than the largest window.

Deadlock is checked by every run: a loop that ended stutters (`Terminated`).

Fairness. The sender's: `DoSend` (the process is scheduled), `Timeout` (the
timer of `poll` expires if it stays in `poll`), and the reads of the input (a
regular file is always readable; of a pipe it is assumed that its writer goes
on, without which no sender can end). Nothing is assumed of the peer, the
network or a write to the socket. The receiver's: `Reply` and the last ACKs (the
process is scheduled), the end of the loop that empties the buffer, and each
packet of it if a write to the output returns (`WriteReturns`) or if the packet
is the one that ends the transfer, which is not written. A write to an output
without O_NONBLOCK may never return, and no fairness is assumed of it.
`ServedSpec`, of the run `receiver_nonblocking`, adds that the reader of the
output goes on: `poll` reports an output it is asked for (`OutputReady`, weak
fairness), and of the writes that are tried again and again one is taken
(`Drain`, strong fairness, as each one refused disables it until the next
iteration). Whether `poll` is asked is up to the code.
`Transfer` assumes weak fairness of its whole next-state relation: neither a
program nor the clock stops. It favours no action. That something in particular
happens follows from `Tick` alone, which waits for what is due: a datagram that
is not lost arrives within `MaxLatency`, and a program that can run does so
before a second has passed.

## 4. What is proved

TLAPS proves what follows for every value of the constants that satisfies the
assumptions in the modules that declare them: any sequence space larger than 1;
any ring whose size is a power of two and fits the counters' range twice (what
`pktbuf_new` asserts); any window smaller than the sequence space; any input;
any number of retries; for the sender any receiver and any network, for the
receiver any network and any sender that stays in the window it is told; in
`Startup` any number of options, addresses and retries and any sizes. What a
theorem assumes beyond that is its `ASSUME`, and given below.

**The codec** (`PacketProofs`). For every size of a byte, a payload and a window,
and every number of faults.
That CRCs do not collide is part of the model.

* `PacketInvariant`: `Spec => []IInv`. Its core is `InTransit`: each cell of the
  datagram is the one that was encoded or holds no CRC, whatever was cut, damaged
  or chopped, and before the first fault, or after a cut that is the only one,
  the datagram is known exactly. None of the properties is inductive: they speak
  of a packet that was decoded, and what the decoder finds depends on what
  happened on the wire.
* `PacketDamageIsDetected`: a CRC that matches is not empty, so its cells are
  those that were sent, and so are the cells it covers (`GoodMeansSent`,
  `AcceptedIsSent`). The header comes first: it has the length that tells where
  CRC2 was put.
* `PacketRoundTrip` and `PacketCutIsRecognised`: the same facts read the other
  way (`WholeIsAccepted`, `CutIsAccepted`). What the encoder and the decoder
  leave, cell by cell, is `EncodeIs` and `DecodeIs`; that the length they convert
  in place comes out in the host's order is `LengthApart`.
* `PacketEncodersAgree`: the encoder reads nothing but the cells that
  `pkt_encode` copies (`EncoderReads`).
* `PacketTypeOK`: no cell leaves the range of a byte, and a datagram never
  exceeds the memory it is received in.

**The packet buffer** (`PktBufProofs`).

* `PktBufInvariant`: `Spec => []IInv`, `IInv == TypeOK /\ Consecutive(buf)`: at
  most `Capacity` packets, their numbers consecutive. `PktBufTypeOK` is a part
  of it. `TypeOK` alone is inductive; what is to be proved of the ring's
  contents needs `Consecutive`, because a slot is found by counting from the
  oldest number and the queue's next one follows the newest.
* `PktBufSlotHasItsSeq`: the slot that is found for a number holds it, whether
  it existed or was reserved. This is the ASSERT of `pktbuf.c:85` that the
  release build does not have.
* `PktBufImplementsQueue`: `Spec => ImplementsQueue`, the refinement that the
  run `pktbuf` checks for four slots. The mapping is `Contents`; `Enqueue`
  appends to it, `Dequeue` takes its head, `SlotFor` leaves it or extends it,
  and no operation writes a slot that is in use. For each operation a lemma says
  what it does to the number at every place (`EnqueueAppends`, `DequeueDrops`,
  `SlotForExtends`), the other lemmas turn places into sequences.

**The sender** (`SenderProofs`; `SenderRefinement` for what needs an assumption).

* `SenderInvariant` (`SenderProofs`): `Spec => []IInv`, where
  `IInv == TypeOK /\ BufferIsWindow /\ ReadsWithRoom`. None of the three is
  inductive alone. `BufferIsWindow` needs `ReadsWithRoom`: a read into a full
  ring would overwrite the oldest packet. `TypeOK` needs `BufferIsWindow`: what
  is sent from a slot is a known chunk only if the slot belongs to the window.
  `SenderTypeOK`, `SenderBufferIsWindow`, `SenderReadsWithRoom` are its parts.
* `SenderNoStall`: `Spec => []NoStall` if
  `Capacity < SeqSpace`. The assumption is needed: with a ring as large as the
  sequence space `last_sent = last_chunk_read` is also true of a full ring of
  which nothing was sent.
* `SenderFastRetransmit`: the fast retransmission finds a
  packet if the input is a regular file and `MaxDupAck > 1`. It strengthens
  `IInv` with `EmptyRing`: a regular file is read in every iteration that starts
  with an empty ring, so that at most one duplicate ACK is counted before a
  packet is there to be sent again.
* `SenderImplementsSlidingWindow`: `Spec =>
  ImplementsSlidingWindow` if `Capacity < SeqSpace`, the refinement that the run
  `sender` checks. The assumption is needed: the mapping counts the packets in
  the ring by their numbers (`Unacked`), which a larger ring has twice. An
  acknowledgment, a read and `do_send_sbuf` are `Feedback`, `Queue` and `Send`
  by counting. What is hard is that nothing acknowledged is sent again, as two
  pieces of the code reach slots that are not in use: `process_nack` by an index
  of the array, and the loop of `handle_retransmission` that misses its end.
  They need a second invariant, `RingIsHistory` (`SenderRingIsHistory`): the
  ring always holds the last `Capacity` chunks that were read. So a slot that
  matches the number of a NACK holds the packet of that number
  (`ArrayFrame`), and a slot that the loop reserves holds a chunk exactly
  `Capacity` older than the number it is given, which no receiver decodes
  (`FrameOfOther`). The second half is where the code is right by its CRC only.

**The receiver** (`ReceiverProofs`). All theorems have two hypotheses.
`BlocksOrWindowIsOne`: the output was opened without O_NONBLOCK, as the receiver
itself opens it, or the window is at most 1; without it they are false (section
6, `receive.c:146`). `OldPacketsAreTold`: `Lag + max_window < SeqSpace`; without it
an old packet is taken for a new one. The programs' values satisfy both if no
packet is still in the network when the 224 that follow it were delivered.

* `ReceiverInvariant`: `Spec => []IInv`. Beside `TypeOK`, `OutputIsPrefix` and
  `CompleteAtEnd`, `IInv` says, while the program runs: what the ring, the mask
  and `expected_seq` mean, all relative to the number of packets that are
  delivered (`BufferHolds`: the slots in use have consecutive numbers from
  there, those of the mask hold the packets of these numbers, `expected_seq`
  follows those in sequence); where packets in sequence may be in the buffer
  (`BufferWhere`: not when a datagram is read, except for the first packet of
  the transfer); and that the peer is within the last window it was told
  (`PeerInWindow`).
  No part is inductive without the others. That a datagram is stored where its
  number says needs its number to be unambiguous, hence `PeerInWindow` and the
  hypothesis on `Lag`; that the mask gets the bit of that slot needs
  `BufferWhere`, as `process_incoming_pkt` counts from the first packet in
  sequence; that `expected_seq` is right needs the same, as packets in sequence
  that stayed would be added to it again. All bits of the mask are below
  `max_window`: no shift reaches the width of `oos_mask`, which would be
  undefined.
* Its consequences are the run `receiver` for every size: `ReceiverTypeOK`,
  `ReceiverExpectedIsNext`, `ReceiverMaskDescribesBuffer`,
  `ReceiverOutputIsPrefix`, `ReceiverFullCanBeEmptied`, `ReceiverCompleteAtEnd`,
  and the action property `ReceiverAcksOnlyReceived`.
  `ReceiverWindowIsNotTakenBack` is proved for an output that blocks and a window
  that is not 0, from `NotBeyond`: the peer was never told more than the window
  that starts with the next chunk to be delivered, nor, after an answer, less.
* `ReceiverTells`: in the case of an output that blocks, every answer tells the
  truth, and `edge` counts what was told: an ACK is for chunks that are in the
  output, a NACK names a packet the peer was allowed to send, and the window is
  announced as a whole. Beside `IInv` it needs to know when an answer is due
  (`Answers`): the window may have moved since the last one was sent exactly as
  long as `need_ack` or `need_nack` is set, or, for the first packet of the
  transfer, will be set when it is drained.

**The transfer** (`TransferProofs`). The theorems about each program assume
something of the other; this is where both assumptions are discharged. The
hypothesis `InputFits`: the ring of the sender is smaller than the sequence
space, the window is not 0, and the input has fewer chunks than `Lag`, with
`Lag + max_window < SeqSpace`, so that no number is used twice. Without a limit
of this kind the theorems are false (section 3: nothing in the code bounds how
many packets pass one that is delayed), and the length of the input is the only
limit that is independent of how fast the programs are. With the programs'
default of 31 packets it holds for inputs of up to 223 chunks of 512 bytes. Of
the network nothing is assumed; any number of faults, any latency and any values
of the timers are covered.

* `TransferInvariant`: `Spec => []IInv`, the invariants of both programs with
  three facts that relate them. `NetInv`: a datagram that is on its way to the
  receiver is a packet of a chunk before `edge` or what a fault made of one, and
  one on its way to the sender is an answer that told the truth when it was sent
  and still does (`Told`, which `ToldLasts` shows to be stable: `edge` and the
  output only grow). `S!Within`: what the sender has in flight, its window, and
  every window that an answer may still announce end before `edge`, and no more
  is acknowledged than is delivered. `EofIsLast`: a sender that has read the end
  of the input has read all of it.
  `Within` is not inductive without `NetInv`, as an ACK of long ago sets
  `last_win` again; `NetInv` is not without `Within`, as the sender's packets
  must be before `edge`. The fact on the window is `S!NextWithin`
  (`SenderRefinement`), one lemma for each handler; that the numbers do not
  repeat makes the number of an answer tell its chunk (`SameNumber`) and keeps
  the loop of `handle_retransmission` from missing its end (`NoOverrun`).
* `TransferTypeOK`, and `TransferPeerKeepsPromise`: what reaches the receiver is
  what its own theorems assume of the peer, with everything that the sender
  sends again. Of the two halves of the assumption, the windows are what is
  proved; the lag follows from `InputFits`.
* `TransferImplementsReliableTransfer`: `Spec => ImplementsReliableTransfer`, the
  safety of the transfer from end to end. A step of `do_empty_rbuf` is `Deliver`
  (`DrainDelivers`), an ACK that moves the sender's window is `Acknowledge`, as
  it tells what is delivered; `transmit` ends with success only with an empty
  ring after the end of the input, so that everything is acknowledged
  (`EndIsAcknowledged`); `receive` only after its last ACKs, so that the output
  is complete (`EndIsComplete`); everything else is a failure or a stutter.

**Start and end** (`StartupProofs`). `StartupInvariant`: `TypeOK` with three
conjuncts that say what `main` holds at each label (`HeldWherePcSays`), where the
sizes come from (`SizesAreSound`) and what `err` is (`ErrIsResult`). From it
`StartupTypeOK`, `StartupLoopsStartSound`, `StartupAllIsReleased` and
`StartupStatusIsResult`. None of the four properties is inductive: `main`'s
labels release without asking what is held, so that the invariant has to tell
it from where `main` is. `AllIsReleased` is about the ways out that pass the end
of `main`; a process that ends inside the loops leaves socket and ring to the
system, and `StatusIsResult` still holds of it.

The argument for the ring and its users. `RingLemmas` starts with the arithmetic
of `%` that the solver does not find (a sum reduced twice, injectivity on a range
shorter than the modulus), and turns it into facts on the ring: reducing a
counter modulo 2^32 does not change the slot it designates, `Capacity` successive
indices designate different slots. In the sender two lemmas carry the window over
the steps that move it, `DequeueMovesWindow` and `EnqueueExtendsWindow`. Each
handler then has a lemma `Keep...`; `NextInvariant` puts them together.
`SendKeepsRing` and `RetransmitKeepsRing` show that `pktbuf_slotfor_seq` never
reserves a slot when it looks up a packet of the window, which is what makes
the two loops read-only.

Model-checked only: the liveness properties (temporal reasoning under fairness is
out of the prover's reach), and what the sender does once it has met an error.

## 5. What is not modelled

* The harness, `src/evaluation/evaluate.py`. It runs the submissions of students
  against the reference programs and compares files; it has no state of the
  protocol, and the link simulator it drives is a submodule that is not in the
  repository. `tests/exec_test.sh` is its small sibling.
* Tests, dissector, statement: they were read for what they expect.
* Names (`getaddrinfo` answers anything, `getnameinfo` only feeds a log), the
  values of socket options, logs, timestamps (constant in the sender, copied by
  the receiver).
* CRC collisions: a damaged datagram is always found out. Padding of the struct
  (it is packed).
* In `Sender` and `Receiver` alone, real time: a timer may expire whenever its
  descriptors are not ready. `Transfer` has the time.
* In `Transfer`: an output that would block, hence windows of 0; inputs that do
  not read at once; sequence numbers that wrap (so that the code's lack of a
  bound on the age of a packet stays with `Receiver`'s constant `Lag`); a sender
  started before the receiver, whose first packet meets a closed port; a
  connection to the wrong host (section 6, item 5).
* In `Startup`: that a second option `-f` loses the file of the first, which is
  never closed; the state of `net_fd` between two transfers, of which a process
  has one.

## 6. Where the code does not do what it says

Five runs expect a violation; each checks one property that a comment or a log
message states.

1. `transmit.c:144`, run `sender_timer`: `sseq != last_sent + 1` compares a
   `uint8_t` with an `int`. Once packet 255 was the last one sent, the go-back-n
   does not end there; it goes round the ring and sends stale slots until
   `pktbuf.c:70` ends the process, with the socket open and the ring allocated.
2. `transmit.c:37`, run `sender_nack`: `pktbuf_at(send_buf, i)` is an index into
   the array, not into the used part of the ring; a NACK is answered with a
   retransmission only as long as the two coincide.
3. `transmit.c:66`, run `sender_dupack`: with an input that has nothing to read
   for the moment, the third duplicate ACK finds an empty buffer and `net_send`
   reads through NULL. A regular file cannot bring it about (proved).
4. `receive.c:222-225`, run `receiver_blocked`: `F_GETFD`/`F_SETFD` instead of
   `F_GETFL`/`F_SETFL`, and an address for a value: the output stays blocking.
5. `net.c:103`, run `startup_connect`: `recvfrom` is told that the address of
   the peer has room for `sizeof(addr_len)` bytes, 4. The receiver connects to
   the sender's port on its own host, unless a datagram was ignored before the
   first packet (`addr_len` is 28 by then).

Observed while modelling, without a run of their own:

* `receive.c:146`: packets in sequence that are still in the buffer are added to
  `expected_seq` again, and `receive.c:116-117` counts one too few of them, so
  that the packet received next sets the bit of the last one. Item 4 hides both
  for an output that the receiver opens itself; with one that was opened
  non-blocking, and a window larger than 1, a packet that was never received is
  acknowledged, and `expected_seq` may leave the reach of the ring, where
  `pktbuf.c:70` ends the process (`AssertFails`). With `OutNonBlocking = TRUE` in
  `MCReceiver.cfg`, `ExpectedIsNext` and the six other properties of that run
  beside `TypeOK` fail.
* `LINGER` (3 s) is shorter than the sender's timer (4 s): if the last ACK is
  lost, or a late datagram makes the receiver send its last ACKs in one burst
  (`receive.c:312`), the receiver is gone when the sender retransmits. The sender
  ends with a failure though the file is complete; `tests/exec_test.sh:59-60`
  takes that for a crash. `NobodyIsLeft` and `ReliableTransfer` allow it.
* `IDLE_TIME` (10 s, `receive.c:15`) is shorter than what the sender spends on one
  packet (`MAX_RETRANSMISSION` times 4 s): two losses of one packet, its
  retransmission or its ACK, can end the receiver (`MaxFaults = 2`).
* Both programs exit with 0 if the ring cannot be allocated, the receiver also if
  its socket cannot be opened (`receiver/main.c:77-82`, `sender/main.c:77-78`):
  `err` still is what `parse_options` returned.
* `receive.c:308`: the loop ends when the ring is empty, and `do_receive_data`
  reserves a slot for what it may then drop. If a datagram is dropped before the
  first packet is written, and that packet is the end of an empty input, the slot
  stays: the receiver waits `IDLE_TIME` and reports a failure.
* `packet_interface.h:99-106`: `pkt_get_payload` is to return NULL and
  `pkt_get_crc2` 0 if the packet has none; both return the field
  (`packet_implem.c:152-155`), with whatever the slot held before.
* `packet_implem.c:108` says "Modifiy the received data at the very end"; TR is
  zeroed and `crc1` converted before, and stay so if a later check fails.
* `src/reference-implementation/tests/test_pktbuf.c:66-69` expects `pktbuf_dequeue` to return
  the newest packet; `pktbuf.c:112` returns the oldest.
* `src/statement/statement.tex:117` wants a NACK outside the window of sent
  packets ignored; `IsFeedback` accepts one packet more, and `process_nack` may
  then send a packet that was never sent.
* `sender/main.c:48-50` accepts rings of 256 slots and more, with which the
  sender can stall (the assumption of `SenderNoStall`).
* `-b 0` gives the receiver a window of 0: it discards everything
  after the first packet.

## 7. Plan

Done: the packet buffer, the codec, the sender, the receiver, their composition,
start and end; proved: the ring and its refinement, the codec's invariants, the
sender's and its refinement, the receiver's, those of `main`, and the safety of
the transfer.

Next: the transfer of inputs whose numbers repeat, with a bound on the age of
datagrams in place of `InputFits`.
