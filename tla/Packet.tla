------------------------------- MODULE Packet -------------------------------
(***************************************************************************)
(* The packet codec: common/packet_implem.c, and the packet's length in    *)
(* common/packet_interface.h and common/net.c.                             *)
(*                                                                         *)
(* A struct pkt is memory: a sequence of cells, laid out as in the code    *)
(* (fields in the wire's order, the payload at its largest, crc2 behind    *)
(* it), on a little-endian machine.  The code encodes and decodes in       *)
(* place, so that the same memory is read in both byte orders.  A cell     *)
(* stands for a byte, except that the flags are one, a timestamp is one    *)
(* and a CRC is two.                                                       *)
(***************************************************************************)
EXTENDS Naturals, Sequences

CONSTANTS
  Byte,               \* values of a byte
  MAX_PAYLOAD_SIZE,
  MAX_WINDOW_SIZE

ASSUME PacketAssumption ==
  /\ Byte \in Nat /\ Byte > 1
  /\ MAX_PAYLOAD_SIZE \in 1 .. Byte * Byte - 1
  /\ MAX_WINDOW_SIZE \in Nat

\* A byte, and half of the CRC of a sequence of cells.  CRCs do not collide.
Cell(n) == [value |-> n, of |-> << >>]

crc_of(cells) == <<[value |-> 1, of |-> cells], [value |-> 0, of |-> cells]>>

PKT_CRC1LEN == 2
PKT_FOOTERLEN == 2
PKT_HEADERLEN == 7
PKT_MIN_LEN == PKT_HEADERLEN
PktSize == PKT_HEADERLEN + MAX_PAYLOAD_SIZE + PKT_FOOTERLEN

\* Any modulus larger than a packet does for size_t.
SizeSpace == 2 * PktSize

PTYPE_DATA == 1
PTYPE_ACK == 2
PTYPE_NACK == 3

pkt_new == [i \in 1 .. PktSize |-> Cell(0)]

-----------------------------------------------------------------------------
\* n cells of memory from an offset, and memory with cells copied to an offset.
Bytes(pkt, offset, n) == SubSeq(pkt, offset + 1, offset + n)

Copy(pkt, offset, cells) ==
  SubSeq(pkt, 1, offset) \o cells \o SubSeq(pkt, offset + Len(cells) + 1, Len(pkt))

\* The host stores the least significant cell of a CRC first.
Stored(crc) == <<crc[2], crc[1]>>

htonl(crc) == <<crc[2], crc[1]>>

htons(n) == (n % Byte) * Byte + n \div Byte

\* The bit fields of the first byte.
pkt_get_window(pkt) == pkt[1].value % (MAX_WINDOW_SIZE + 1)
pkt_get_tr(pkt) == (pkt[1].value \div (MAX_WINDOW_SIZE + 1)) % 2
pkt_get_type(pkt) == pkt[1].value \div (2 * (MAX_WINDOW_SIZE + 1))
pkt_get_seqnum(pkt) == pkt[2].value
pkt_get_length(pkt) == pkt[3].value + Byte * pkt[4].value
pkt_get_timestamp(pkt) == pkt[5].value
pkt_get_crc1(pkt) == Stored(Bytes(pkt, PKT_HEADERLEN - PKT_CRC1LEN, PKT_CRC1LEN))
pkt_get_crc2(pkt) == Stored(Bytes(pkt, PKT_HEADERLEN + MAX_PAYLOAD_SIZE, PKT_FOOTERLEN))
pkt_get_payload(pkt) == Bytes(pkt, PKT_HEADERLEN, MAX_PAYLOAD_SIZE)

PutFlags(pkt, type, tr, window) ==
  [pkt EXCEPT ![1] = Cell(window + (MAX_WINDOW_SIZE + 1) * (tr + 2 * type))]

PutTr(pkt, tr) == PutFlags(pkt, pkt_get_type(pkt), tr, pkt_get_window(pkt))

PutLength(pkt, n) == [pkt EXCEPT ![3] = Cell(n % Byte), ![4] = Cell(n \div Byte)]

-----------------------------------------------------------------------------
valid_length(n) == n <= MAX_PAYLOAD_SIZE
valid_window(n) == n <= MAX_WINDOW_SIZE
valid_type(t) == t \in {PTYPE_DATA, PTYPE_ACK, PTYPE_NACK}
valid_tr(t, tr) == tr = 0 \/ t = PTYPE_DATA

\* What a function returns, and the packet it leaves.
Returns(code, pkt) == [code |-> code, pkt |-> pkt]

Checked(valid, error, pkt, changed) ==
  IF valid THEN Returns("PKT_OK", changed) ELSE Returns(error, pkt)

pkt_set_type(pkt, type) ==
  Checked(valid_type(type), "E_TYPE", pkt,
          PutFlags(pkt, type, pkt_get_tr(pkt), pkt_get_window(pkt)))

pkt_set_tr(pkt, tr) ==
  Checked(valid_tr(pkt_get_type(pkt), tr), "E_TR", pkt, PutTr(pkt, tr))

pkt_set_window(pkt, window) ==
  Checked(valid_window(window), "E_WINDOW", pkt,
          PutFlags(pkt, pkt_get_type(pkt), pkt_get_tr(pkt), window))

pkt_set_seqnum(pkt, seqnum) == Returns("PKT_OK", [pkt EXCEPT ![2] = Cell(seqnum)])

\* Mutant: the length is not validated.
MutantAnyLength(pkt, length) == Returns("PKT_OK", PutLength(pkt, length))

pkt_set_length(pkt, length) ==
  Checked(valid_length(length), "E_LENGTH", pkt, PutLength(pkt, length))

pkt_set_timestamp(pkt, ts) == Returns("PKT_OK", [pkt EXCEPT ![5] = Cell(ts)])

pkt_set_payload(pkt, data) ==
  LET sized == pkt_set_length(pkt, Len(data))
  IN  IF sized.code # "PKT_OK" THEN sized
      ELSE Returns("PKT_OK", Copy(sized.pkt, PKT_HEADERLEN, data))

-----------------------------------------------------------------------------
\* The length of a packet, and of one that is encoded already.
pkt_len(pkt) ==
  IF pkt_get_length(pkt) # 0
  THEN PKT_HEADERLEN + PKT_FOOTERLEN + pkt_get_length(pkt) ELSE PKT_HEADERLEN

\* Mutant: the length is read in the wrong byte order.
MutantLenNative(pkt) == pkt_len(pkt)

pkt_len_serial(pkt) ==
  IF pkt_get_length(pkt) # 0
  THEN PKT_HEADERLEN + PKT_FOOTERLEN + htons(pkt_get_length(pkt)) ELSE PKT_HEADERLEN

\* CRC1 covers the header with TR at 0.
HeaderCrc(pkt) == crc_of(Bytes(PutTr(pkt, 0), 0, PKT_HEADERLEN - PKT_CRC1LEN))

PutCrc1(pkt, crc) == Copy(pkt, PKT_HEADERLEN - PKT_CRC1LEN, Stored(crc))

\* Mutant: CRC2 is placed after the length was converted.
MutantCrc2AfterSwap(pkt) ==
  LET plen == pkt_get_length(pkt)
      swapped == PutLength(pkt, htons(plen))
      headed == PutCrc1(swapped, htonl(HeaderCrc(swapped)))
  IN  IF plen = 0 THEN headed
      ELSE Copy(headed, PKT_HEADERLEN + pkt_get_length(headed),
                Stored(htonl(crc_of(Bytes(headed, PKT_HEADERLEN, plen)))))

pkt_encode_inline(pkt) ==
  LET plen == pkt_get_length(pkt)
      swapped == PutLength(pkt, htons(plen))
      headed == PutCrc1(swapped, htonl(HeaderCrc(swapped)))
  IN  IF plen = 0 THEN headed
      ELSE Copy(headed, PKT_HEADERLEN + plen,
                Stored(htonl(crc_of(Bytes(headed, PKT_HEADERLEN, plen)))))

\* The packet is copied to buf without its last PKT_FOOTERLEN bytes (of a packet
\* without payload that is CRC1) and encoded there; len is the room in buf.
pkt_encode(pkt, buf, len) ==
  IF len < pkt_len(pkt) THEN [code |-> "E_NOMEM", buf |-> buf, len |-> len]
  ELSE [code |-> "PKT_OK",
        buf  |-> pkt_encode_inline(Copy(buf, 0, Bytes(pkt, 0, pkt_len(pkt) - PKT_FOOTERLEN))),
        len  |-> pkt_len(pkt)]

-----------------------------------------------------------------------------
\* What is left of a datagram of rlen bytes without the header and CRC2.
PayloadLen(rlen) ==
  IF rlen = PKT_HEADERLEN THEN 0
  ELSE (rlen - PKT_HEADERLEN + SizeSpace - PKT_FOOTERLEN) % SizeSpace

\* Mutant: the header's CRC is computed with the TR bit it came with.
MutantCrc1WithTr(pkt) ==
  htonl(pkt_get_crc1(pkt)) = crc_of(Bytes(pkt, 0, PKT_HEADERLEN - PKT_CRC1LEN))

GoodCrc1(pkt) == htonl(pkt_get_crc1(pkt)) = HeaderCrc(pkt)

\* CRC2 is the last thing of the datagram.
FoundCrc2(pkt, rlen) == htonl(Stored(Bytes(pkt, rlen - PKT_FOOTERLEN, PKT_FOOTERLEN)))

\* Mutant: CRC2 is not checked.
MutantNoCrc2(pkt, rlen) == TRUE

GoodCrc2(pkt, rlen) ==
  FoundCrc2(pkt, rlen) = crc_of(Bytes(pkt, PKT_HEADERLEN, PayloadLen(rlen)))

\* Whether the size of the datagram agrees with the header.
Consistent(pkt, rlen) ==
  LET plen == htons(pkt_get_length(pkt))
  IN  IF pkt_get_type(pkt) # PTYPE_DATA THEN PayloadLen(rlen) = 0 /\ plen = 0
      ELSE IF pkt_get_tr(pkt) = 1 THEN PayloadLen(rlen) = 0
      ELSE PayloadLen(rlen) = plen

\* The error of the first check that fails.
DecodeError(pkt, rlen) ==
  IF rlen < PKT_MIN_LEN THEN "E_NOHEADER"
  ELSE IF ~valid_type(pkt_get_type(pkt)) THEN "E_TYPE"
  ELSE IF ~valid_tr(pkt_get_type(pkt), pkt_get_tr(pkt)) THEN "E_TR"
  ELSE IF ~valid_length(htons(pkt_get_length(pkt))) THEN "E_LENGTH"
  ELSE IF ~GoodCrc1(pkt) THEN "E_CRC"
  ELSE IF ~Consistent(pkt, rlen) THEN "E_UNCONSISTENT"
  ELSE IF PayloadLen(rlen) # 0 /\ ~GoodCrc2(pkt, rlen) THEN "E_CRC"
  ELSE "PKT_OK"

\* The checks change the packet as they go: TR is zeroed for CRC1, and put back
\* once it matches; CRC1 is converted then, CRC2 and the length at the end.
pkt_decode_inline(pkt, rlen) ==
  LET error == DecodeError(pkt, rlen)
      converted == PutCrc1(pkt, htonl(pkt_get_crc1(pkt)))
      with_crc2 == IF PayloadLen(rlen) = 0 THEN converted
                   ELSE Copy(converted, PKT_HEADERLEN + MAX_PAYLOAD_SIZE,
                             Stored(FoundCrc2(pkt, rlen)))
  IN  Returns(error,
        CASE error = "PKT_OK" -> PutLength(with_crc2, htons(pkt_get_length(pkt)))
          [] error \in {"E_NOHEADER", "E_TYPE", "E_TR", "E_LENGTH"} -> pkt
          [] error = "E_CRC" /\ ~GoodCrc1(pkt) -> PutTr(pkt, 0)
          [] OTHER -> converted)

pkt_decode(data, pkt) ==
  IF Len(data) > PktSize THEN Returns("E_UNCONSISTENT", pkt)
  ELSE pkt_decode_inline(Copy(pkt, 0, data), Len(data))

=============================================================================
