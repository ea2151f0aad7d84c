------------------------------ MODULE PacketOps ------------------------------
(***************************************************************************)
(* The life of one packet: its fields are set, it is encoded and sent, the *)
(* network cuts or damages it, it is received into a slot and decoded      *)
(* there.                                                                  *)
(***************************************************************************)
EXTENDS Packet

CONSTANT MaxFaults   \* bound: faults of the network

ASSUME FaultsAssumption == MaxFaults \in Nat

VARIABLES
  phase,    \* "build", "sent" or "decoded"
  pkt,      \* the packet that is built
  sent,     \* the packet as it was when it was encoded
  wire,     \* the datagram in the network
  faults,   \* what happened to it there
  slot,     \* where it is received
  status    \* what the decoder returned

vars == <<phase, pkt, sent, wire, faults, slot, status>>

\* What a byte can be; the timestamps a packet is given are taken from it too.
Values == 0 .. Byte - 1

Payloads == UNION {[1 .. n -> {Cell(b) : b \in Values}] : n \in 0 .. MAX_PAYLOAD_SIZE}

\* The largest packet there is, and what it leaves in the slot it is decoded in.
Largest ==
  pkt_set_payload(pkt_set_type(pkt_new, PTYPE_DATA).pkt,
                  [i \in 1 .. MAX_PAYLOAD_SIZE |-> Cell(1)]).pkt

Leftover == pkt_decode_inline(pkt_encode_inline(Largest), PktSize).pkt

\* A slot is fresh from calloc, or holds what it was used for before.
Init ==
  /\ phase = "build"
  /\ pkt = pkt_new
  /\ sent = pkt_new
  /\ wire = << >>
  /\ faults = << >>
  /\ slot \in {pkt_new, Leftover}
  /\ status = "none"

-----------------------------------------------------------------------------
Set(result) ==
  /\ phase = "build"
  /\ pkt' = result.pkt
  /\ UNCHANGED <<phase, sent, wire, faults, slot, status>>

\* Any field, in any order, with values that are refused among them.
SetField ==
  \/ \E type \in 0 .. 3 : Set(pkt_set_type(pkt, type))
  \/ \E tr \in 0 .. 1 : Set(pkt_set_tr(pkt, tr))
  \/ \E window \in 0 .. MAX_WINDOW_SIZE + 1 : Set(pkt_set_window(pkt, window))
  \/ \E seqnum \in Values : Set(pkt_set_seqnum(pkt, seqnum))
  \/ \E length \in 0 .. MAX_PAYLOAD_SIZE + 1 : Set(pkt_set_length(pkt, length))
  \/ \E data \in Payloads : Set(pkt_set_payload(pkt, data))
  \/ \E ts \in Values : Set(pkt_set_timestamp(pkt, ts))

\* pkt_encode_inline and net_send.
Send ==
  /\ phase = "build"
  /\ phase' = "sent"
  /\ sent' = pkt
  /\ pkt' = pkt_encode_inline(pkt)
  /\ wire' = Bytes(pkt', 0, pkt_len_serial(pkt'))
  /\ UNCHANGED <<faults, slot, status>>

\* A fault of the network leaves another datagram.
Fault(kind, datagram) ==
  /\ phase = "sent"
  /\ Len(faults) < MaxFaults
  /\ faults' = Append(faults, kind)
  /\ wire' = datagram
  /\ UNCHANGED <<phase, pkt, sent, slot, status>>

\* A router drops the payload and says so in TR.
Cut ==
  /\ Len(wire) > PKT_HEADERLEN
  /\ pkt_get_type(wire) = PTYPE_DATA
  /\ Fault("cut", Bytes(PutTr(wire, 1), 0, PKT_HEADERLEN))

\* A byte is changed; the first one holds three fields.
Damage ==
  \E i \in DOMAIN wire, n \in 0 .. 8 * (MAX_WINDOW_SIZE + 1) - 1 :
    /\ i = 1 \/ n < Byte
    /\ wire[i] # Cell(n)
    /\ Fault("damage", [wire EXCEPT ![i] = Cell(n)])

\* The end is missing.
Chop == \E n \in 0 .. Len(wire) - 1 : Fault("chop", Bytes(wire, 0, n))

\* The datagram is read into the slot, over what was there, and decoded.
Receive ==
  /\ phase = "sent"
  /\ phase' = "decoded"
  /\ LET decoded == pkt_decode(wire, slot)
     IN  slot' = decoded.pkt /\ status' = decoded.code
  /\ UNCHANGED <<pkt, sent, wire, faults>>

Terminated == phase = "decoded" /\ UNCHANGED vars

Next == SetField \/ Send \/ Cut \/ Damage \/ Chop \/ Receive \/ Terminated

Spec == Init /\ [][Next]_vars

-----------------------------------------------------------------------------
Codes == {"PKT_OK", "E_TYPE", "E_TR", "E_LENGTH", "E_CRC", "E_NOHEADER", "E_UNCONSISTENT"}

TypeOK ==
  /\ phase \in {"build", "sent", "decoded"}
  /\ Len(pkt) = PktSize /\ Len(slot) = PktSize
  /\ Len(wire) <= PktSize
  /\ \A i \in DOMAIN wire :
       wire[i].value \in 0 .. (IF i = 1 THEN 8 * (MAX_WINDOW_SIZE + 1) ELSE Byte) - 1
  /\ valid_length(pkt_get_length(sent))
  /\ Len(faults) <= MaxFaults
  /\ status \in Codes \cup {"none"}

SameHeader(p, q) ==
  /\ pkt_get_type(p) = pkt_get_type(q)
  /\ pkt_get_window(p) = pkt_get_window(q)
  /\ pkt_get_seqnum(p) = pkt_get_seqnum(q)
  /\ pkt_get_length(p) = pkt_get_length(q)
  /\ pkt_get_timestamp(p) = pkt_get_timestamp(q)

Payload(p) == SubSeq(pkt_get_payload(p), 1, pkt_get_length(p))

\* What the programs build: no TR, a payload only in a DATA packet.
WellFormed(p) ==
  /\ valid_type(pkt_get_type(p))
  /\ pkt_get_tr(p) = 0
  /\ pkt_get_type(p) # PTYPE_DATA => pkt_get_length(p) = 0

\* A packet that meets no fault is decoded to what was encoded, in the host's
\* byte order, whatever the slot held before.  Encoder and decoder convert in
\* place and place CRC2 at the end of the payload, not at its field.
RoundTrip ==
  phase = "decoded" /\ faults = << >> /\ WellFormed(sent) =>
    /\ status = "PKT_OK"
    /\ SameHeader(slot, sent) /\ pkt_get_tr(slot) = 0
    /\ Payload(slot) = Payload(sent)
    /\ pkt_get_crc1(slot) = HeaderCrc(pkt)

\* A packet that was cut is accepted, with the header it was sent with: the
\* receiver answers its sequence number with a NACK.  TR is not part of CRC1,
\* and Length still is that of the payload.
CutIsRecognised ==
  phase = "decoded" /\ faults = <<"cut">> /\ WellFormed(sent) =>
    status = "PKT_OK" /\ pkt_get_tr(slot) = 1 /\ SameHeader(slot, sent)

\* Whatever happens to a datagram, what is accepted has the header that was
\* sent, and either the payload that was sent or TR and no payload.
DamageIsDetected ==
  phase = "decoded" /\ status = "PKT_OK" =>
    /\ SameHeader(slot, sent)
    /\ pkt_get_tr(slot) = 0 => Payload(slot) = Payload(sent)
    /\ pkt_get_tr(slot) = 1 => pkt_get_type(slot) = PTYPE_DATA

\* The two encoders put the same bytes on the wire, as many as net_send counts:
\* pkt_encode copies a packet without payload up to CRC1 and no further.
EncodersAgree ==
  phase = "build" =>
    LET encoded == pkt_encode(pkt, pkt_new, PktSize)
        inline == pkt_encode_inline(pkt)
    IN  /\ encoded.code = "PKT_OK"
        /\ encoded.len = pkt_len_serial(inline)
        /\ Bytes(encoded.buf, 0, encoded.len) = Bytes(inline, 0, encoded.len)

=============================================================================
